-------------------------- MODULE WebDatabaseProofs --------------------------
(***************************************************************************)
(* What WebDatabaseProperties states, for any number of databases,         *)
(* transactions and statements.                                            *)
(*                                                                         *)
(* The proof goes by the invariant DInv.  Its core is Tokens: a            *)
(* transaction that is under way is in exactly one place, on the database  *)
(* thread's queue, posted to script, pending for the lock, waiting on its  *)
(* handle or running.  Where it is says which of the fields of its two     *)
(* halves is the one that counts (Turns), whether it has the lock (Locks)  *)
(* and whether it blocks its handle (Handles).                             *)
(***************************************************************************)
EXTENDS WebDatabaseProperties, FiniteSetTheorems, TLAPS

Queued(t) == t \in ToSet(queue)
Posted(t) == t \in ToSet(posted)
Pending(t) == t \in ToSet(pending)
Waiting(t) == t \in ToSet(transactionQueue[DbOf[t]])
UnderWay(t) == Queued(t) \/ Posted(t) \/ Pending(t) \/ Waiting(t) \/ running = t

(* No transaction is twice in q.                                           *)
Distinct(q) == \A i, j \in DOMAIN q : q[i] = q[j] /\ q[i] \in Txn => i = j

Tokens ==
    /\ Distinct(queue) /\ Distinct(posted) /\ Distinct(pending)
    /\ \A d \in Db : /\ Distinct(transactionQueue[d])
                     /\ \A t \in ToSet(transactionQueue[d]) : DbOf[t] = d
    /\ \A t \in Txn :
          /\ Queued(t) => ~Posted(t) /\ ~Pending(t) /\ ~Waiting(t) /\ running # t
          /\ Posted(t) => ~Pending(t) /\ ~Waiting(t) /\ running # t
          /\ Pending(t) => ~Waiting(t) /\ running # t
          /\ Waiting(t) => running # t
          /\ t \in unissued => ~frontend[t] /\ ~UnderWay(t)
          /\ frontend[t] /\ thread = "loop" => UnderWay(t)

(* The coordinator's sets and the flags of the transactions agree.         *)
Locks ==
    /\ shuttingDown <=> thread \in {"shutdown", "spinning", "ended"}
    /\ thread \in {"shutdown", "ended"} => Active = {} /\ pending = <<>>
    /\ activeWrite # NoTxn => activeReads = {}
    /\ \A t \in Txn :
          /\ ~shuttingDown => (t \in Active <=> frontend[t] /\ lockAcquired[t])
          /\ Pending(t) => ~lockAcquired[t] /\ (~shuttingDown => frontend[t])
          /\ Waiting(t) => ~lockAcquired[t] /\ frontend[t]
          /\ t \in unissued => ~lockAcquired[t]

(* Which field of the two halves counts, and what it can say.              *)
Turns ==
    /\ closing # NoDb => running = NoTxn /\ thread \in {"loop", "shutdown", "selfLocked"}
    /\ running # NoTxn => thread = "loop" /\ frontend[running] /\ requested[running] = "Idle"
    /\ \A t \in Txn :
          /\ running # t => next[t] \in {"Idle", "End"}
          /\ frontend[t] \/ t \in unissued => next[t] # "End"
          /\ running = t => next[t] \in BackendState /\ (next[t] = "AcquireLock" <=> ~lockAcquired[t])
          /\ Queued(t) /\ frontend[t] =>
                requested[t] \in BackendState /\ (requested[t] = "AcquireLock" <=> ~lockAcquired[t])
          /\ Posted(t) /\ frontend[t] => lockAcquired[t]
          /\ Waiting(t) \/ t \in unissued => requested[t] = "AcquireLock"
          /\ /\ ~frontend[t] /\ (Queued(t) \/ Posted(t)) /\ thread \in {"loop", "selfLocked"}
             => next[t] = "End" /\ ~Usable(DbOf[t])

(* The transactions of a handle run one after the other.                   *)
Handles ==
    /\ \A d \in Db :
          /\ queueEnabled[d] => opened[d] /\ closing # d
          /\ ~(queueEnabled[d] /\ inProgress[d]) => transactionQueue[d] = <<>>
    /\ \A t \in Txn : frontend[t] /\ ~Waiting(t) /\ queueEnabled[DbOf[t]] => inProgress[DbOf[t]]
    /\ \A s, t \in Txn : s # t /\ DbOf[s] = DbOf[t] /\ frontend[s] /\ frontend[t] =>
          Waiting(s) \/ Waiting(t)

(* The locks of SQLite are held by those who have the origin's.            *)
Data ==
    /\ originLock # NoTxn => originLock = activeWrite /\ frontend[originLock]
    /\ \A t \in Txn : sqlite[t] = "open" => frontend[t] /\ lockAcquired[t] /\ t \in Active

(* From the commit on, and from the error callback on, a transaction can   *)
(* only be cleaned up.                                                     *)
Outcome(t) ==
    /\ t \in unissued => scriptRequested[t] = "Idle"
    /\ told[t] = "success" \/ scriptRequested[t] = "DeliverSuccessCallback" => sqlite[t] = "committed"
    /\ sqlite[t] = "committed" =>
          /\ lockAcquired[t] /\ told[t] # "error"
          /\ requested[t] \in {"Idle", "CleanupAndTerminate"}
          /\ next[t] \in {"Idle", "CleanupAndTerminate", "End"}
          /\ scriptRequested[t] \in {"Idle", "DeliverSuccessCallback", "End"}
    /\ told[t] = "error" =>
          /\ t \notin unissued /\ ~Pending(t) /\ ~Waiting(t)
          /\ next[t] \in {"Idle", "CleanupAfterTransactionErrorCallback", "CleanupAndTerminate", "End"}
          /\ scriptRequested[t] \in {"Idle", "End"}
          /\ UnderWay(t) \/ frontend[t] =>
                requested[t] \in {"Idle", "CleanupAfterTransactionErrorCallback", "CleanupAndTerminate"}
Outcomes == \A t \in Txn : Outcome(t)

(* A transaction without the lock is on a handle that is still to be       *)
(* closed, and after the shutdown of the coordinator there are no others.  *)
AtEnd ==
    /\ thread = "ended" => closing = NoDb /\ \A d \in Db : ~opened[d]
    /\ \A t \in Txn : frontend[t] =>
          /\ thread \in {"shutdown", "ended"} => (Queued(t) \/ Waiting(t)) /\ ~lockAcquired[t]
          /\ Queued(t) /\ ~lockAcquired[t] /\ thread \in {"loop", "shutdown", "ended"} =>
                opened[DbOf[t]] \/ closing = DbOf[t]

(* The close task, and the main thread that waits for it.                  *)
Closes ==
    /\ thread \in {"shutdown", "spinning", "ended"} => killed
    /\ deleteStep # "idle" => deleting \in Db
    /\ ~worker =>
          /\ deleteStep # "idle" => ~killed
          /\ \A d \in Db : Queued(d) => deleteStep = "waiting" /\ deleting = d
          /\ closing # NoDb /\ thread # "shutdown" => deleteStep = "waiting" /\ closing = deleting
          /\ deleteStep = "waiting" => Queued(deleting) \/ closing = deleting

Budget == \A t \in Txn : statements[t] + allowance[t] <= MaxStatements

DInv == /\ TypeOK /\ Budget
        /\ Tokens /\ Locks /\ Turns /\ Handles /\ Data /\ Outcomes /\ AtEnd /\ Closes

-----------------------------------------------------------------------------
(* Queues.                                                                 *)
LEMMA ConcatIs ==
    ASSUME NEW a \in Seq(Task), NEW b \in Seq(Task)
    PROVE  /\ a \o b \in Seq(Task)
           /\ ToSet(a \o b) = ToSet(a) \cup ToSet(b)
           /\ Distinct(a) /\ Distinct(b) /\ ToSet(a) \cap ToSet(b) \cap Txn = {} => Distinct(a \o b)
  <1>1. /\ a \o b \in Seq(Task) /\ Len(a) \in Nat /\ Len(b) \in Nat
        /\ Len(a \o b) = Len(a) + Len(b)
        /\ \A i \in 1 .. Len(a) + Len(b) : (a \o b)[i] = IF i <= Len(a) THEN a[i] ELSE b[i - Len(a)]
    OBVIOUS
  <1>2. \A k \in ToSet(a) : k \in ToSet(a \o b)
    <2> SUFFICES ASSUME NEW i \in DOMAIN a PROVE a[i] \in ToSet(a \o b)
      BY DEF ToSet
    <2>1. i \in DOMAIN (a \o b) /\ (a \o b)[i] = a[i]
      BY <1>1
    <2> QED
      BY <2>1 DEF ToSet
  <1>3. \A k \in ToSet(b) : k \in ToSet(a \o b)
    <2> SUFFICES ASSUME NEW i \in DOMAIN b PROVE b[i] \in ToSet(a \o b)
      BY DEF ToSet
    <2>1. i \in 1 .. Len(b)
      OBVIOUS
    <2>2. i + Len(a) \in DOMAIN (a \o b) /\ (a \o b)[i + Len(a)] = b[i]
      BY <1>1, <2>1
    <2> QED
      BY <2>2 DEF ToSet
  <1>4. \A i \in DOMAIN (a \o b) : \/ i \in DOMAIN a /\ (a \o b)[i] = a[i]
                                   \/ i - Len(a) \in DOMAIN b /\ (a \o b)[i] = b[i - Len(a)] /\ i > Len(a)
    BY <1>1
  <1>5. ASSUME Distinct(a), Distinct(b), ToSet(a) \cap ToSet(b) \cap Txn = {} PROVE Distinct(a \o b)
    <2> SUFFICES ASSUME NEW i \in DOMAIN (a \o b), NEW j \in DOMAIN (a \o b),
                        (a \o b)[i] = (a \o b)[j], (a \o b)[i] \in Txn
                 PROVE  i = j
      BY DEF Distinct
    <2>1. i \in Nat /\ j \in Nat
      BY <1>1
    <2>2. CASE i \in DOMAIN a /\ (a \o b)[i] = a[i] /\ j \in DOMAIN a /\ (a \o b)[j] = a[j]
      BY <1>5, <2>2 DEF Distinct
    <2>3. CASE /\ i - Len(a) \in DOMAIN b /\ (a \o b)[i] = b[i - Len(a)]
               /\ j - Len(a) \in DOMAIN b /\ (a \o b)[j] = b[j - Len(a)]
      <3>1. i - Len(a) = j - Len(a)
        BY <1>5, <2>3 DEF Distinct
      <3> QED
        BY <1>1, <2>1, <3>1
    <2>4. ASSUME NEW x \in DOMAIN a, NEW y \in DOMAIN b, a[x] = b[y], a[x] \in Txn PROVE FALSE
      BY <1>5, <2>4 DEF ToSet
    <2> QED
      BY <1>4, <2>2, <2>3, <2>4
  <1>6. ToSet(a \o b) \subseteq ToSet(a) \cup ToSet(b)
    BY <1>4 DEF ToSet
  <1> QED
    BY <1>1, <1>2, <1>3, <1>5, <1>6

LEMMA OneIs ==
    ASSUME NEW k \in Task
    PROVE  <<k>> \in Seq(Task) /\ ToSet(<<k>>) = {k} /\ Distinct(<<k>>)
  <1>1. <<k>> \in Seq(Task) /\ Len(<<k>>) = 1 /\ DOMAIN <<k>> = 1 .. 1 /\ <<k>>[1] = k
    OBVIOUS
  <1>2. \A i \in 1 .. 1 : i = 1
    OBVIOUS
  <1> QED
    BY <1>1, <1>2 DEF ToSet, Distinct

LEMMA NoneIs == <<>> \in Seq(Task) /\ ToSet(<<>>) = {} /\ Distinct(<<>>)
  BY DEF ToSet, Distinct

LEMMA TailIs ==
    ASSUME NEW S, NEW q \in Seq(S), q # <<>>
    PROVE  /\ Tail(q) \in Seq(S) /\ Head(q) \in S /\ Head(q) \in ToSet(q)
           /\ ToSet(Tail(q)) \subseteq ToSet(q)
           /\ \A k \in ToSet(q) : k # Head(q) => k \in ToSet(Tail(q))
           /\ Distinct(q) => Distinct(Tail(q)) /\ (Head(q) \in Txn => Head(q) \notin ToSet(Tail(q)))
  <1>1. /\ Tail(q) \in Seq(S) /\ Head(q) = q[1] /\ Len(q) \in Nat \ {0} /\ q[1] \in S
        /\ Len(Tail(q)) = Len(q) - 1 /\ \A i \in 1 .. Len(q) - 1 : Tail(q)[i] = q[i + 1]
    OBVIOUS
  <1>2. \A i \in DOMAIN Tail(q) : i \in Nat /\ i + 1 \in DOMAIN q /\ i + 1 # 1 /\ Tail(q)[i] = q[i + 1]
    BY <1>1
  <1>3. 1 \in DOMAIN q /\ \A i \in DOMAIN q : i # 1 => i - 1 \in DOMAIN Tail(q) /\ Tail(q)[i - 1] = q[i]
    BY <1>1
  <1>4. Head(q) \in ToSet(q) /\ ToSet(Tail(q)) \subseteq ToSet(q)
    BY <1>1, <1>2, <1>3 DEF ToSet
  <1>5. \A k \in ToSet(q) : k # Head(q) => k \in ToSet(Tail(q))
    BY <1>1, <1>3 DEF ToSet
  <1>6. ASSUME Distinct(q) PROVE Distinct(Tail(q)) /\ (Head(q) \in Txn => Head(q) \notin ToSet(Tail(q)))
    <2>1. ASSUME NEW i \in DOMAIN Tail(q), NEW j \in DOMAIN Tail(q), Tail(q)[i] = Tail(q)[j], Tail(q)[i] \in Txn
          PROVE  i = j
      <3>1. i + 1 = j + 1
        BY <1>2, <1>6, <2>1 DEF Distinct
      <3> QED
        BY <1>2, <3>1
    <2>2. ASSUME NEW i \in DOMAIN Tail(q), Tail(q)[i] = q[1], q[1] \in Txn PROVE FALSE
      BY <1>2, <1>3, <1>6, <2>2 DEF Distinct
    <2> QED
      BY <1>1, <2>1, <2>2 DEF Distinct, ToSet
  <1> QED
    BY <1>1, <1>4, <1>5, <1>6

(* A queue of which a prefix g is taken.                                   *)
LEMMA RestIs ==
    ASSUME NEW p \in Seq(Txn), NEW g \in Seq(Txn), Len(g) <= Len(p),
           \A i \in 1 .. Len(g) : g[i] = p[i], Distinct(p)
    PROVE  /\ SubSeq(p, Len(g) + 1, Len(p)) \in Seq(Txn)
           /\ Distinct(SubSeq(p, Len(g) + 1, Len(p))) /\ Distinct(g)
           /\ ToSet(p) = ToSet(g) \cup ToSet(SubSeq(p, Len(g) + 1, Len(p)))
           /\ ToSet(g) \cap ToSet(SubSeq(p, Len(g) + 1, Len(p))) = {}
  <1> DEFINE r == SubSeq(p, Len(g) + 1, Len(p))
             n == Len(g)
  <1>1. /\ n \in Nat /\ Len(p) \in Nat /\ r \in Seq(Txn) /\ Len(r) = Len(p) - n
        /\ \A i \in 1 .. Len(p) - n : r[i] = p[i + n]
    OBVIOUS
  <1> HIDE DEF r
  <1>2. \A i \in DOMAIN r : i \in Nat /\ i + n \in DOMAIN p /\ r[i] = p[i + n] /\ i + n \notin DOMAIN g
    BY <1>1
  <1>3. \A i \in DOMAIN g : i \in DOMAIN p /\ g[i] = p[i]
    BY <1>1
  <1>4. ASSUME NEW i \in DOMAIN p PROVE i \in DOMAIN g \/ (i - n \in DOMAIN r /\ r[i - n] = p[i])
    <2>1. i \in 1 .. Len(p)
      OBVIOUS
    <2>2. CASE i <= n
      BY <1>1, <2>1, <2>2
    <2>3. CASE i > n
      <3>1. i - n \in 1 .. Len(p) - n /\ (i - n) + n = i
        BY <1>1, <2>1, <2>3
      <3> QED
        BY <1>1, <3>1
    <2> QED
      BY <1>1, <2>1, <2>2, <2>3
  <1>5. \A i \in DOMAIN p : p[i] \in Txn
    OBVIOUS
  <1>6. Distinct(r)
    <2> SUFFICES ASSUME NEW i \in DOMAIN r, NEW j \in DOMAIN r, r[i] = r[j] PROVE i = j
      BY DEF Distinct
    <2>1. i + n = j + n
      BY <1>2, <1>5 DEF Distinct
    <2> QED
      BY <1>1, <1>2, <2>1
  <1>7. Distinct(g)
    BY <1>3 DEF Distinct
  <1>8. ToSet(p) = ToSet(g) \cup ToSet(r)
    BY <1>2, <1>3, <1>4 DEF ToSet
  <1>9. ASSUME NEW i \in DOMAIN g, NEW j \in DOMAIN r, g[i] = r[j] PROVE FALSE
    BY <1>2, <1>3, <1>5, <1>9 DEF Distinct
  <1> QED
    BY <1>1, <1>6, <1>7, <1>8, <1>9 DEF ToSet, r

LEMMA MinIs ==
    ASSUME NEW S \in SUBSET Nat, S # {}
    PROVE  Min(S) \in S /\ \A i \in S : Min(S) <= i
  <1> DEFINE R == OpToRel(<, Nat)
  <1>1. \A i, j \in Nat : <<j, i>> \in R <=> j < i
    BY DEF OpToRel
  <1>2. IsWellFoundedOn(R, Nat)
    BY NatLessThanWellFounded
  <1> HIDE DEF R
  <1>3. PICK i \in S : \A j \in S : ~(<<j, i>> \in R)
    BY <1>2, WFMin, Zenon
  <1>4. \A j \in S : i <= j
    <2> TAKE j \in S
    <2>1. i \in Nat /\ j \in Nat
      OBVIOUS
    <2>2. ~(j < i)
      BY <1>1, <1>3, <2>1, Zenon
    <2> QED
      BY <2>1, <2>2
  <1> QED
    BY <1>4 DEF Min

(* The transactions that are let in are the first ones, and they are       *)
(* readers or a writer alone.                                              *)
LEMMA GrantedIs ==
    ASSUME NEW p \in Seq(Txn), NEW R, NEW w, NEW g, g = Granted(p, R, w)
    PROVE  /\ g \in Seq(Txn) /\ Len(g) <= Len(p) /\ \A i \in 1 .. Len(g) : g[i] = p[i]
           /\ \/ g = <<>>
              \/ w = NoTxn /\ ToSet(g) \subseteq ReadOnly
              \/ w = NoTxn /\ R = {} /\ p # <<>> /\ g = <<Head(p)>> /\ Head(p) \notin ReadOnly
  <1>1. CASE g = <<>>
    BY <1>1
  <1>2. CASE g = LeadingReads(p) /\ w = NoTxn
    <2> DEFINE writers == {i \in DOMAIN p : p[i] \notin ReadOnly}
    <2>1. CASE writers = {}
      <3>1. g = p
        BY <1>2, <2>1 DEF LeadingReads
      <3> QED
        BY <1>2, <2>1, <3>1 DEF ToSet
    <2>2. CASE writers # {}
      <3> DEFINE m == Min(writers)
      <3>1. writers \in SUBSET Nat
        OBVIOUS
      <3>2. m \in writers /\ \A i \in writers : m <= i
        BY <2>2, <3>1, MinIs
      <3>3. g = SubSeq(p, 1, m - 1)
        BY <1>2, <2>2 DEF LeadingReads
      <3>4. m \in 1 .. Len(p)
        BY <3>2
      <3> HIDE DEF m
      <3>5. g \in Seq(Txn) /\ Len(g) = m - 1 /\ \A i \in 1 .. m - 1 : g[i] = p[i]
        BY <3>3, <3>4
      <3>6. \A i \in 1 .. m - 1 : i \in DOMAIN p /\ i \notin writers
        BY <3>2, <3>4
      <3>7. \A i \in DOMAIN g : g[i] \in ReadOnly
        BY <3>5, <3>6
      <3> QED
        BY <1>2, <3>4, <3>5, <3>7 DEF ToSet
    <2> QED
      BY <2>1, <2>2
  <1>3. CASE w = NoTxn /\ R = {} /\ p # <<>> /\ g = <<Head(p)>> /\ Head(p) \notin ReadOnly
    BY <1>3
  <1> QED
    BY <1>1, <1>2, <1>3 DEF Granted

LEMMA FewerIs ==
    ASSUME NEW S, NEW T, IsFiniteSet(T), S \subseteq T, S # T
    PROVE  Cardinality(S) \in Nat /\ Cardinality(T) \in Nat /\ Cardinality(S) < Cardinality(T)
  BY FS_Subset, FS_CardinalityType

(* What removeIf leaves: the tasks of the other databases.                 *)
LEMMA UnscheduleIs ==
    ASSUME NEW d, queue \in Seq(Task), Distinct(queue)
    PROVE  /\ UnscheduleTasks(d) \in Seq(Task) /\ Distinct(UnscheduleTasks(d))
           /\ ToSet(UnscheduleTasks(d)) = {k \in ToSet(queue) : TaskDatabase(k) # d}
  <1> DEFINE stay == {i \in DOMAIN queue : TaskDatabase(queue[i]) # d}
             upto(i) == {j \in stay : j <= i}
             rank == [i \in stay |-> Cardinality(upto(i))]
             N == Cardinality(stay)
             nth(n) == CHOOSE i \in stay : Cardinality(upto(i)) = n
             kept == UnscheduleTasks(d)
  <1>1. stay \in SUBSET Nat /\ stay \subseteq 1 .. Len(queue) /\ Len(queue) \in Nat
    OBVIOUS
  <1>2. IsFiniteSet(stay) /\ N \in Nat
    <2>1. IsFiniteSet(1 .. Len(queue))
      BY <1>1, FS_Interval
    <2> HIDE DEF stay
    <2> QED
      BY <1>1, <2>1, FS_Subset, FS_CardinalityType
  <1>3. \A i \in stay : IsFiniteSet(upto(i)) /\ Cardinality(upto(i)) \in 1 .. N
    <2> TAKE i \in stay
    <2>1. upto(i) \subseteq stay /\ i \in upto(i)
      BY <1>1
    <2>2. IsFiniteSet(upto(i)) /\ Cardinality(upto(i)) <= N /\ Cardinality(upto(i)) \in Nat
      BY <1>2, <2>1, FS_Subset, FS_CardinalityType
    <2>3. Cardinality(upto(i)) # 0
      BY <2>1, <2>2, FS_EmptySet
    <2> QED
      BY <2>2, <2>3, <1>2
  <1>4. ASSUME NEW i \in stay, NEW j \in stay, i < j PROVE Cardinality(upto(i)) # Cardinality(upto(j))
    <2>1. i \in Nat /\ j \in Nat
      BY <1>1
    <2>2. IsFiniteSet(upto(j))
      BY <1>3
    <2>3. upto(i) \subseteq upto(j) /\ j \in upto(j) /\ j \notin upto(i)
      BY <1>1, <1>4, <2>1
    <2> HIDE DEF upto
    <2>4. upto(i) # upto(j)
      BY <2>3
    <2>5. Cardinality(upto(i)) \in Nat /\ Cardinality(upto(j)) \in Nat
          /\ Cardinality(upto(i)) < Cardinality(upto(j))
      BY <2>2, <2>3, <2>4, FewerIs
    <2> QED
      BY <2>5
  <1>5. \A i, j \in stay : rank[i] = rank[j] => i = j
    BY <1>1, <1>4
  <1> HIDE DEF stay, upto
  <1>6. rank \in [stay -> 1 .. N]
    BY <1>3
  <1>7. rank \in Injection(stay, 1 .. N)
    BY <1>5, <1>6 DEF Injection, IsInjective
  <1>8. rank \in Surjection(stay, 1 .. N)
    <2>1. IsFiniteSet(1 .. N) /\ Cardinality(1 .. N) = N
      BY <1>2, FS_Interval
    <2> HIDE DEF rank
    <2> QED
      BY <1>2, <1>7, <2>1, FS_Injection
  <1>9. \A n \in 1 .. N : nth(n) \in stay /\ rank[nth(n)] = n
    BY <1>8 DEF Surjection
  <1>10. kept = [n \in 1 .. N |-> queue[nth(n)]]
    BY DEF UnscheduleTasks, stay, upto
  <1> HIDE DEF nth, kept, rank
  <1>11. \A i \in stay : rank[i] \in 1 .. N /\ nth(rank[i]) = i
    BY <1>5, <1>6, <1>9
  <1>12. \A i \in stay : i \in DOMAIN queue /\ queue[i] \in Task /\ TaskDatabase(queue[i]) # d
    BY DEF stay
  <1>13. kept \in Seq(Task) /\ DOMAIN kept = 1 .. N
    BY <1>2, <1>9, <1>10, <1>12
  <1>14. Distinct(kept)
    <2> SUFFICES ASSUME NEW m \in 1 .. N, NEW n \in 1 .. N, kept[m] = kept[n], kept[m] \in Txn
                 PROVE  m = n
      BY <1>13 DEF Distinct
    <2>1. nth(m) = nth(n)
      BY <1>9, <1>10, <1>12 DEF Distinct
    <2> QED
      BY <1>9, <2>1
  <1>15. ToSet(kept) = {k \in ToSet(queue) : TaskDatabase(k) # d}
    <2>1. ASSUME NEW n \in 1 .. N PROVE kept[n] \in ToSet(queue) /\ TaskDatabase(kept[n]) # d
      BY <1>9, <1>10, <1>12 DEF ToSet
    <2>2. ASSUME NEW i \in DOMAIN queue, TaskDatabase(queue[i]) # d PROVE queue[i] \in ToSet(kept)
      <3>1. i \in stay
        BY <2>2 DEF stay
      <3>2. rank[i] \in DOMAIN kept /\ kept[rank[i]] = queue[i]
        BY <1>10, <1>11, <1>13, <3>1
      <3> QED
        BY <3>2 DEF ToSet
    <2> QED
      BY <1>13, <2>1, <2>2 DEF ToSet
  <1> QED
    BY <1>13, <1>14, <1>15 DEF kept

LEMMA WiderIs ==
    ASSUME NEW q \in Seq(Txn)
    PROVE  q \in Seq(Task) /\ \A k \in ToSet(q) : k \in Txn
  BY DEF Task, ToSet

LEMMA AppendIs ==
    ASSUME NEW p \in Seq(Txn), NEW t \in Txn
    PROVE  /\ Append(p, t) \in Seq(Txn) /\ Append(p, t) # <<>>
           /\ ToSet(Append(p, t)) = ToSet(p) \cup {t}
           /\ Distinct(p) /\ t \notin ToSet(p) => Distinct(Append(p, t))
  <1>1. Append(p, t) = p \o <<t>> /\ Append(p, t) \in Seq(Txn) /\ Append(p, t) # <<>>
    OBVIOUS
  <1>2. p \in Seq(Task) /\ t \in Task
    BY WiderIs DEF Task
  <1>3. <<t>> \in Seq(Task) /\ ToSet(<<t>>) = {t} /\ Distinct(<<t>>)
    BY <1>2, OneIs
  <1>4. /\ ToSet(p \o <<t>>) = ToSet(p) \cup {t}
        /\ Distinct(p) /\ t \notin ToSet(p) => Distinct(p \o <<t>>)
    BY <1>2, <1>3, ConcatIs
  <1> QED
    BY <1>1, <1>4

-----------------------------------------------------------------------------
(* The coordinator.                                                        *)

(* What processPendingTransactions leaves when p is pending and R and w    *)
(* have the lock.                                                          *)
LEMMA ProcessIs ==
    ASSUME NEW p \in Seq(Txn), NEW R \in SUBSET ReadOnly, NEW w \in (Txn \ ReadOnly) \cup {NoTxn},
           Distinct(p), w # NoTxn => R = {}, ProcessPendingTransactions(p, R, w),
           NEW g, g = Granted(p, R, w)
    PROVE  /\ g \in Seq(Txn) /\ Distinct(g) /\ ToSet(g) \subseteq ToSet(p)
           /\ pending' \in Seq(Txn) /\ Distinct(pending')
           /\ ToSet(pending') = ToSet(p) \ ToSet(g)
           /\ activeReads' \subseteq ReadOnly /\ activeWrite' \in (Txn \ ReadOnly) \cup {NoTxn}
           /\ activeWrite' # NoTxn => activeReads' = {}
           /\ Active' = R \cup ({w} \ {NoTxn}) \cup ToSet(g)
           /\ w # NoTxn => activeWrite' = w
           /\ shuttingDown' = shuttingDown
  <1> USE DatabaseAssumption, ReadOnlyAssumption
  <1>1. /\ g \in Seq(Txn) /\ Len(g) <= Len(p) /\ \A i \in 1 .. Len(g) : g[i] = p[i]
        /\ \/ g = <<>>
           \/ w = NoTxn /\ ToSet(g) \subseteq ReadOnly
           \/ w = NoTxn /\ R = {} /\ p # <<>> /\ g = <<Head(p)>> /\ Head(p) \notin ReadOnly
    BY GrantedIs
  <1>2. /\ pending' = SubSeq(p, Len(g) + 1, Len(p))
        /\ activeReads' = R \cup (ToSet(g) \cap ReadOnly)
        /\ activeWrite' = IF ToSet(g) \subseteq ReadOnly THEN w ELSE Head(g)
        /\ shuttingDown' = shuttingDown
    BY DEF ProcessPendingTransactions
  <1>3. /\ pending' \in Seq(Txn) /\ Distinct(pending') /\ Distinct(g)
        /\ ToSet(p) = ToSet(g) \cup ToSet(pending') /\ ToSet(g) \cap ToSet(pending') = {}
    BY <1>1, <1>2, RestIs
  <1>4. /\ ToSet(pending') = ToSet(p) \ ToSet(g) /\ ToSet(g) \subseteq ToSet(p)
        /\ activeReads' \subseteq ReadOnly
    BY <1>2, <1>3
  <1>5. CASE ToSet(g) \subseteq ReadOnly /\ (g = <<>> \/ w = NoTxn)
    <2>1. activeWrite' = w /\ activeReads' = R \cup ToSet(g) /\ (w # NoTxn => ToSet(g) = {})
      BY <1>2, <1>5, NoneIs
    <2> QED
      BY <1>1, <1>2, <1>3, <1>4, <2>1 DEF Active
  <1>6. CASE w = NoTxn /\ R = {} /\ p # <<>> /\ g = <<Head(p)>> /\ Head(p) \notin ReadOnly
    <2>1. Head(p) \in Txn /\ Head(g) = Head(p)
      BY <1>6
    <2>2. ToSet(g) = {Head(p)}
      BY <1>6, <2>1, OneIs DEF Task
    <2>3. activeWrite' = Head(p) /\ activeReads' = {} /\ Head(p) # NoTxn
      BY <1>2, <1>6, <2>1, <2>2
    <2> QED
      BY <1>1, <1>2, <1>3, <1>4, <1>6, <2>1, <2>2, <2>3 DEF Active
  <1> QED
    BY <1>1, <1>5, <1>6, NoneIs

(* releaseLock for T when nobody else of T has a flag.                     *)
LEMMA ReleaseIs ==
    ASSUME DInv, NEW T, CoordinatorReleaseLock(T), NEW g, g = GrantedByRelease(T)
    PROVE  /\ g \in Seq(Txn) /\ Distinct(g) /\ \A u \in ToSet(g) : Pending(u) /\ ~shuttingDown
           /\ pending' \in Seq(Txn) /\ Distinct(pending')
           /\ ToSet(pending') = ToSet(pending) \ ToSet(g)
           /\ activeReads' \subseteq ReadOnly /\ activeWrite' \in (Txn \ ReadOnly) \cup {NoTxn}
           /\ activeWrite' # NoTxn => activeReads' = {}
           /\ ~shuttingDown => Active' = (Active \ T) \cup ToSet(g)
           /\ shuttingDown => Active' = Active /\ ToSet(g) = {} /\ pending' = pending
           /\ activeWrite # NoTxn /\ activeWrite \notin T => activeWrite' = activeWrite
           /\ shuttingDown' = shuttingDown
           /\ T = {} => g = <<>> /\ UNCHANGED coordinatorVars
  <1> USE DatabaseAssumption, ReadOnlyAssumption
  <1>1. /\ pending \in Seq(Txn) /\ activeReads \subseteq ReadOnly /\ Distinct(pending)
        /\ activeWrite \in (Txn \ ReadOnly) \cup {NoTxn}
        /\ activeWrite # NoTxn => activeReads = {}
    BY DEF DInv, TypeOK, Tokens, Locks
  <1>2. CASE T = {} \/ shuttingDown
    <2>1. g = <<>> /\ UNCHANGED coordinatorVars
      BY <1>2 DEF CoordinatorReleaseLock, GrantedByRelease
    <2>2. Active' = Active /\ pending' = pending /\ activeReads' = activeReads /\ activeWrite' = activeWrite
          /\ shuttingDown' = shuttingDown
      BY <2>1 DEF coordinatorVars, Active
    <2>3. g \in Seq(Txn) /\ Distinct(g) /\ ToSet(g) = {}
      BY <2>1, NoneIs
    <2> QED
      BY <1>1, <1>2, <2>1, <2>2, <2>3
  <1>3. CASE ~(T = {} \/ shuttingDown)
    <2> DEFINE R == activeReads \ T
               w == Without(T)
    <2>1. ProcessPendingTransactions(pending, R, w) /\ g = Granted(pending, R, w)
      BY <1>3 DEF CoordinatorReleaseLock, GrantedByRelease
    <2>2. /\ R \in SUBSET ReadOnly /\ w \in (Txn \ ReadOnly) \cup {NoTxn} /\ (w # NoTxn => R = {})
          /\ activeWrite # NoTxn /\ activeWrite \notin T => w = activeWrite
          /\ R \cup ({w} \ {NoTxn}) = Active \ T
      BY <1>1 DEF Without, Active
    <2> HIDE DEF R, w
    <2>3. /\ g \in Seq(Txn) /\ Distinct(g) /\ ToSet(g) \subseteq ToSet(pending)
          /\ pending' \in Seq(Txn) /\ Distinct(pending')
          /\ ToSet(pending') = ToSet(pending) \ ToSet(g)
          /\ activeReads' \subseteq ReadOnly /\ activeWrite' \in (Txn \ ReadOnly) \cup {NoTxn}
          /\ activeWrite' # NoTxn => activeReads' = {}
          /\ Active' = R \cup ({w} \ {NoTxn}) \cup ToSet(g)
          /\ w # NoTxn => activeWrite' = w
          /\ shuttingDown' = shuttingDown
      BY <1>1, <2>1, <2>2, ProcessIs
    <2>4. \A u \in ToSet(g) : Pending(u) /\ ~shuttingDown
      BY <1>3, <2>3 DEF Pending
    <2> QED
      BY <1>3, <2>2, <2>3, <2>4
  <1> QED
    BY <1>2, <1>3

(* doCleanup of T: g get the lock that T gives back.                       *)
LEMMA CleanupIs ==
    ASSUME DInv, NEW T \in SUBSET Txn, DoCleanup(T), NEW g, g = GrantedByCleanup(T)
    PROVE  /\ g \in Seq(Txn) /\ Distinct(g)
           /\ \A u \in ToSet(g) : u \in Txn /\ Pending(u) /\ ~shuttingDown /\ ~lockAcquired[u] /\ frontend[u]
           /\ pending' \in Seq(Txn) /\ Distinct(pending')
           /\ \A u \in Txn : Pending(u)' <=> Pending(u) /\ u \notin ToSet(g)
           /\ activeReads' \subseteq ReadOnly /\ activeWrite' \in (Txn \ ReadOnly) \cup {NoTxn}
           /\ activeWrite' # NoTxn => activeReads' = {}
           /\ ~shuttingDown => Active' = (Active \ {u \in T : frontend[u]}) \cup ToSet(g)
           /\ shuttingDown => Active' = Active /\ ToSet(g) = {} /\ pending' = pending
           /\ shuttingDown' = shuttingDown
           /\ originLock' \in (Txn \ ReadOnly) \cup {NoTxn}
           /\ originLock' # NoTxn => originLock' = activeWrite' /\ frontend'[originLock']
           /\ frontend' = [u \in Txn |-> frontend[u] /\ u \notin T]
           /\ lockAcquired' = [u \in Txn |-> lockAcquired[u] \/ u \in ToSet(g)]
           /\ requested' = [u \in Txn |-> IF u \in ToSet(g) THEN "OpenTransactionAndPreflight"
                                          ELSE requested[u]]
           /\ sqlite' \in [Txn -> {"none", "open", "committed"}]
           /\ \A u \in Txn : /\ sqlite'[u] = "committed" <=> sqlite[u] = "committed"
                             /\ sqlite'[u] = "open" <=> sqlite[u] = "open" /\ ~(u \in T /\ frontend[u])
           /\ statements' \in [Txn -> 0 .. MaxStatements]
           /\ \A u \in Txn : statements'[u] <= statements[u]
           /\ LocksOf(T) = {} => g = <<>> /\ UNCHANGED coordinatorVars
  <1> USE DatabaseAssumption, ReadOnlyAssumption, StatementAssumption
  <1> DEFINE L == LocksOf(T)
             F == {u \in T : frontend[u]}
  <1>1. CoordinatorReleaseLock(L) /\ g = GrantedByRelease(L) /\ Forget(F) /\ LockAcquired(g)
    BY DEF DoCleanup, GrantedByCleanup
  <1>2. /\ g \in Seq(Txn) /\ Distinct(g) /\ \A u \in ToSet(g) : Pending(u) /\ ~shuttingDown
        /\ pending' \in Seq(Txn) /\ Distinct(pending')
        /\ ToSet(pending') = ToSet(pending) \ ToSet(g)
        /\ activeReads' \subseteq ReadOnly /\ activeWrite' \in (Txn \ ReadOnly) \cup {NoTxn}
        /\ activeWrite' # NoTxn => activeReads' = {}
        /\ ~shuttingDown => Active' = (Active \ L) \cup ToSet(g)
        /\ shuttingDown => Active' = Active /\ ToSet(g) = {} /\ pending' = pending
        /\ activeWrite # NoTxn /\ activeWrite \notin L => activeWrite' = activeWrite
        /\ shuttingDown' = shuttingDown
        /\ L = {} => g = <<>> /\ UNCHANGED coordinatorVars
    BY <1>1, ReleaseIs
  <1>3. L = {u \in T : frontend[u] /\ lockAcquired[u]} /\ L \subseteq F /\ F \subseteq Txn /\ F \subseteq T
    BY DEF LocksOf
  <1>4. \A u \in ToSet(g) : u \in Txn /\ ~lockAcquired[u] /\ frontend[u]
    <2>1. ToSet(g) \subseteq Txn
      BY <1>2, WiderIs
    <2> QED
      BY <1>2, <2>1 DEF DInv, Locks
  <1>5. ~shuttingDown => Active \ L = Active \ F
    <2>1. \A u \in F : ~shuttingDown /\ u \in Active => u \in L
      BY <1>3 DEF DInv, Locks
    <2> QED
      BY <1>3, <2>1
  <1>6. /\ originLock \in (Txn \ ReadOnly) \cup {NoTxn} /\ frontend \in [Txn -> BOOLEAN]
        /\ sqlite \in [Txn -> {"none", "open", "committed"}] /\ statements \in [Txn -> 0 .. MaxStatements]
    BY DEF DInv, TypeOK
  <1>7. /\ frontend' = [u \in Txn |-> frontend[u] /\ u \notin F]
        /\ originLock' = IF originLock \in F THEN NoTxn ELSE originLock
        /\ statements' = [u \in Txn |-> IF u \in F THEN 0 ELSE statements[u]]
        /\ sqlite' = [u \in Txn |-> IF u \in F /\ sqlite[u] = "open" THEN "none" ELSE sqlite[u]]
        /\ lockAcquired' = [u \in Txn |-> lockAcquired[u] \/ u \in ToSet(g)]
        /\ requested' = [u \in Txn |-> IF u \in ToSet(g) THEN "OpenTransactionAndPreflight"
                                       ELSE requested[u]]
    BY <1>1 DEF Forget, LockAcquired, OriginLockWithout
  <1>8. frontend' = [u \in Txn |-> frontend[u] /\ u \notin T]
    <2>1. \A u \in Txn : (frontend[u] /\ u \notin F) <=> (frontend[u] /\ u \notin T)
      OBVIOUS
    <2> QED
      BY <1>7, <2>1, Zenon
  <1>9. originLock' # NoTxn => originLock' = activeWrite' /\ frontend'[originLock']
    <2> SUFFICES ASSUME originLock' # NoTxn PROVE originLock' = activeWrite' /\ frontend'[originLock']
      OBVIOUS
    <2>1. originLock' = originLock /\ originLock \notin F /\ originLock \in Txn
      BY <1>6, <1>7
    <2>2. originLock = activeWrite /\ frontend[originLock]
      BY <2>1 DEF DInv, Data
    <2>3. originLock \notin T
      BY <2>1, <2>2
    <2> QED
      BY <1>2, <1>3, <1>8, <2>1, <2>2, <2>3
  <1>10. \A u \in Txn : /\ sqlite'[u] = "committed" <=> sqlite[u] = "committed"
                        /\ sqlite'[u] = "open" <=> sqlite[u] = "open" /\ ~(u \in T /\ frontend[u])
    BY <1>7
  <1>11. statements' \in [Txn -> 0 .. MaxStatements] /\ \A u \in Txn : statements'[u] <= statements[u]
    BY <1>6, <1>7
  <1>12. sqlite' \in [Txn -> {"none", "open", "committed"}] /\ originLock' \in (Txn \ ReadOnly) \cup {NoTxn}
    BY <1>6, <1>7
  <1>13. \A u \in Txn : Pending(u)' <=> Pending(u) /\ u \notin ToSet(g)
    BY <1>2 DEF Pending
  <1> HIDE DEF L, F
  <1>14. ~shuttingDown => Active' = (Active \ F) \cup ToSet(g)
    BY <1>2, <1>5
  <1>15. LocksOf(T) = {} => g = <<>> /\ UNCHANGED coordinatorVars
    BY <1>2 DEF L
  <1> QED
    BY <1>2, <1>4, <1>7, <1>8, <1>9, <1>10, <1>11, <1>12, <1>13, <1>14, <1>15 DEF F

-----------------------------------------------------------------------------
(* The types, by part.                                                     *)
ThreadTypes ==
    /\ queue \in Seq(Task) /\ killed \in BOOLEAN
    /\ thread \in {"loop", "shutdown", "spinning", "selfLocked", "ended"}
    /\ running \in Txn \cup {NoTxn} /\ closing \in Db \cup {NoDb}
LockTypes ==
    /\ pending \in Seq(Txn) /\ activeReads \subseteq ReadOnly
    /\ activeWrite \in (Txn \ ReadOnly) \cup {NoTxn} /\ shuttingDown \in BOOLEAN
HandleTypes ==
    /\ opened \in [Db -> BOOLEAN] /\ interrupted \in [Db -> BOOLEAN] /\ deleted \in [Db -> BOOLEAN]
    /\ transactionQueue \in [Db -> Seq(Txn)]
    /\ queueEnabled \in [Db -> BOOLEAN] /\ inProgress \in [Db -> BOOLEAN]
MachineTypes ==
    /\ requested \in [Txn -> BackendState \cup {"Idle"}]
    /\ next \in [Txn -> BackendState \cup {"Idle", "End"}]
    /\ posted \in Seq(Txn)
    /\ scriptRequested \in [Txn -> FrontendState \cup {"Idle", "End"}]
WorkTypes ==
    /\ frontend \in [Txn -> BOOLEAN] /\ lockAcquired \in [Txn -> BOOLEAN]
    /\ originLock \in (Txn \ ReadOnly) \cup {NoTxn}
    /\ sqlite \in [Txn -> {"none", "open", "committed"}]
    /\ statements \in [Txn -> 0 .. MaxStatements]
    /\ current \in [Txn -> {"none", "ran", "quota"}] /\ retry \in [Txn -> BOOLEAN]
ContextTypes ==
    /\ wrappers \subseteq Txn /\ told \in [Txn -> {"nothing", "success", "error"}]
    /\ allowance \in [Txn -> 0 .. MaxStatements]
    /\ worker \in BOOLEAN /\ unissued \subseteq Txn
    /\ deleting \in Db \cup {NoDb} /\ deleteStep \in {"idle", "checked", "waiting"}

LEMMA TypesAre == /\ TypeOK <=> /\ ThreadTypes /\ LockTypes /\ HandleTypes
                                /\ MachineTypes /\ WorkTypes /\ ContextTypes
                  /\ TypeOK' <=> /\ ThreadTypes' /\ LockTypes' /\ HandleTypes'
                                 /\ MachineTypes' /\ WorkTypes' /\ ContextTypes'
  BY Zenon DEF TypeOK, ThreadTypes, LockTypes, HandleTypes, MachineTypes, WorkTypes, ContextTypes

(* The effect of doCleanup, transaction by transaction.                    *)
Cleaned(T, g) ==
    /\ g \in Seq(Txn) /\ Distinct(g)
    /\ pending' \in Seq(Txn) /\ Distinct(pending') /\ shuttingDown' = shuttingDown
    /\ shuttingDown => Active' = Active /\ ToSet(g) = {} /\ pending' = pending
    /\ activeWrite' # NoTxn => activeReads' = {}
    /\ \A u \in ToSet(g) : u \in Txn /\ Pending(u) /\ ~shuttingDown /\ ~lockAcquired[u] /\ frontend[u]
    /\ \A u \in Txn :
          /\ Pending(u)' <=> Pending(u) /\ u \notin ToSet(g)
          /\ frontend'[u] <=> frontend[u] /\ u \notin T
          /\ lockAcquired'[u] <=> lockAcquired[u] \/ u \in ToSet(g)
          /\ requested'[u] = IF u \in ToSet(g) THEN "OpenTransactionAndPreflight" ELSE requested[u]
          /\ sqlite'[u] = "committed" <=> sqlite[u] = "committed"
          /\ ~shuttingDown => (u \in Active' <=> (u \in Active /\ ~(u \in T /\ frontend[u])) \/ u \in ToSet(g))

LEMMA CleanupCleans ==
    ASSUME DInv, NEW T \in SUBSET Txn, DoCleanup(T), UNCHANGED <<current, retry, allowance>>,
           NEW g, g = GrantedByCleanup(T)
    PROVE  /\ Cleaned(T, g) /\ LockTypes' /\ WorkTypes' /\ Data' /\ Budget'
           /\ requested' \in [Txn -> BackendState \cup {"Idle"}]
  <1> USE DatabaseAssumption, ReadOnlyAssumption, StatementAssumption
  <1>0. LockTypes /\ MachineTypes /\ WorkTypes /\ ContextTypes
    BY TypesAre DEF DInv
  <1>1. /\ g \in Seq(Txn) /\ Distinct(g)
        /\ \A u \in ToSet(g) : u \in Txn /\ Pending(u) /\ ~shuttingDown /\ ~lockAcquired[u] /\ frontend[u]
        /\ pending' \in Seq(Txn) /\ Distinct(pending')
        /\ \A u \in Txn : Pending(u)' <=> Pending(u) /\ u \notin ToSet(g)
        /\ activeReads' \subseteq ReadOnly /\ activeWrite' \in (Txn \ ReadOnly) \cup {NoTxn}
        /\ activeWrite' # NoTxn => activeReads' = {}
        /\ ~shuttingDown => Active' = (Active \ {u \in T : frontend[u]}) \cup ToSet(g)
        /\ shuttingDown => Active' = Active /\ ToSet(g) = {} /\ pending' = pending
        /\ shuttingDown' = shuttingDown
    BY CleanupIs
  <1>2. /\ originLock' \in (Txn \ ReadOnly) \cup {NoTxn}
        /\ originLock' # NoTxn => originLock' = activeWrite' /\ frontend'[originLock']
        /\ frontend' = [u \in Txn |-> frontend[u] /\ u \notin T]
        /\ lockAcquired' = [u \in Txn |-> lockAcquired[u] \/ u \in ToSet(g)]
        /\ requested' = [u \in Txn |-> IF u \in ToSet(g) THEN "OpenTransactionAndPreflight"
                                       ELSE requested[u]]
        /\ sqlite' \in [Txn -> {"none", "open", "committed"}]
        /\ \A u \in Txn : /\ sqlite'[u] = "committed" <=> sqlite[u] = "committed"
                          /\ sqlite'[u] = "open" <=> sqlite[u] = "open" /\ ~(u \in T /\ frontend[u])
        /\ statements' \in [Txn -> 0 .. MaxStatements]
        /\ \A u \in Txn : statements'[u] <= statements[u]
    BY CleanupIs
  <1>3. LockTypes' /\ requested' \in [Txn -> BackendState \cup {"Idle"}]
    BY <1>0, <1>1, <1>2 DEF LockTypes, MachineTypes, BackendState
  <1>4. frontend' \in [Txn -> BOOLEAN] /\ lockAcquired' \in [Txn -> BOOLEAN]
    BY <1>2, Zenon
  <1>5. WorkTypes'
    BY <1>0, <1>2, <1>4 DEF WorkTypes
  <1>6. \A u \in Txn : /\ frontend'[u] <=> frontend[u] /\ u \notin T
                       /\ lockAcquired'[u] <=> lockAcquired[u] \/ u \in ToSet(g)
    BY <1>2
  <1>7. \A u \in Txn : ~shuttingDown =>
           (u \in Active' <=> (u \in Active /\ ~(u \in T /\ frontend[u])) \/ u \in ToSet(g))
    BY <1>1
  <1>8. Cleaned(T, g)
    BY <1>1, <1>2, <1>6, <1>7 DEF Cleaned
  <1>9. Data'
    BY <1>1, <1>2, <1>6, <1>7 DEF DInv, Data
  <1>10. Budget'
    <2> SUFFICES ASSUME NEW u \in Txn PROVE statements'[u] + allowance[u] <= MaxStatements
      BY DEF Budget
    <2>1. /\ statements'[u] \in Nat /\ statements[u] \in Nat /\ allowance[u] \in Nat
          /\ statements'[u] <= statements[u] /\ statements[u] + allowance[u] <= MaxStatements
      BY <1>0, <1>2 DEF DInv, Budget, WorkTypes, ContextTypes
    <2> QED
      BY <2>1
  <1> QED
    BY <1>3, <1>5, <1>8, <1>9, <1>10

-----------------------------------------------------------------------------
(* The steps of the machine on the database thread that leave the lock     *)
(* alone.                                                                  *)
LEMMA StepGoesOn ==
    ASSUME DInv, NEW t \in Txn, running = t, next[t] # "AcquireLock",
           UNCHANGED <<queue, killed, thread, closing, coordinatorVars, databaseVars, requested,
                       frontend, lockAcquired, contextVars>>,
           \/ \E s \in BackendState \ {"AcquireLock"} : GoOn(t, s)
           \/ \E s \in FrontendState : SendToFrontend(t, s)
    PROVE  /\ ThreadTypes' /\ LockTypes' /\ HandleTypes' /\ MachineTypes'
           /\ Tokens' /\ Locks' /\ Turns' /\ Handles' /\ AtEnd' /\ Closes'
  <1> USE DatabaseAssumption DEF coordinatorVars, databaseVars, callbackVars, contextVars
  <1>0. ThreadTypes /\ LockTypes /\ HandleTypes /\ MachineTypes /\ WorkTypes /\ ContextTypes
    BY TypesAre DEF DInv
  <1>1. thread = "loop" /\ frontend[t] /\ closing = NoDb /\ lockAcquired[t] /\ t # NoTxn
    BY <1>0 DEF DInv, Turns, WorkTypes
  <1>2. \A u \in Txn : /\ Queued(u)' <=> Queued(u)
                       /\ Pending(u)' <=> Pending(u)
                       /\ Waiting(u)' <=> Waiting(u)
    BY DEF Queued, Pending, Waiting
  <1>3. Active' = Active /\ \A d \in Db : Usable(d)' <=> Usable(d)
    BY DEF Active, Usable
  <1>4. /\ posted \in Seq(Txn) /\ Distinct(posted) /\ ~Posted(t)
        /\ next \in [Txn -> BackendState \cup {"Idle", "End"}]
        /\ scriptRequested \in [Txn -> FrontendState \cup {"Idle", "End"}]
    BY <1>0 DEF DInv, Tokens, MachineTypes
  <1>5. ASSUME NEW s \in BackendState \ {"AcquireLock"}, GoOn(t, s)
        PROVE  /\ posted' = posted /\ scriptRequested' = scriptRequested
               /\ next' \in [Txn -> BackendState \cup {"Idle", "End"}]
               /\ \A u \in Txn : u # t => next'[u] = next[u]
               /\ running' = t /\ next'[t] \in BackendState \ {"AcquireLock"}
               /\ \A u \in Txn : Posted(u)' <=> Posted(u)
    BY <1>4, <1>5 DEF GoOn, Posted
  <1>6. ASSUME NEW s \in FrontendState, SendToFrontend(t, s)
        PROVE  /\ posted' \in Seq(Txn) /\ Distinct(posted')
               /\ scriptRequested' \in [Txn -> FrontendState \cup {"Idle", "End"}]
               /\ next' \in [Txn -> BackendState \cup {"Idle", "End"}]
               /\ \A u \in Txn : u # t => next'[u] = next[u]
               /\ running' = NoTxn /\ next'[t] = "Idle"
               /\ \A u \in Txn : Posted(u)' <=> Posted(u) \/ u = t
    <2>1. /\ next' = [next EXCEPT ![t] = "Idle"] /\ running' = NoTxn
          /\ scriptRequested' = [scriptRequested EXCEPT ![t] = s] /\ posted' = Append(posted, t)
      BY <1>6 DEF SendToFrontend, Stop, RequestFrontend
    <2>2. t \notin ToSet(posted)
      BY <1>4 DEF Posted
    <2>3. posted' \in Seq(Txn) /\ ToSet(posted') = ToSet(posted) \cup {t} /\ Distinct(posted')
      BY <1>4, <2>1, <2>2, AppendIs
    <2> QED
      BY <1>4, <2>1, <2>3 DEF Posted
  <1>7. /\ posted' \in Seq(Txn) /\ Distinct(posted')
        /\ scriptRequested' \in [Txn -> FrontendState \cup {"Idle", "End"}]
        /\ next' \in [Txn -> BackendState \cup {"Idle", "End"}]
        /\ \A u \in Txn : u # t => next'[u] = next[u]
        /\ \/ /\ running' = t /\ next'[t] \in BackendState \ {"AcquireLock"}
              /\ \A u \in Txn : Posted(u)' <=> Posted(u)
           \/ /\ running' = NoTxn /\ next'[t] = "Idle"
              /\ \A u \in Txn : Posted(u)' <=> Posted(u) \/ u = t
    BY <1>4, <1>5, <1>6
  <1>8. ThreadTypes' /\ LockTypes' /\ HandleTypes' /\ MachineTypes'
    BY <1>0, <1>7 DEF ThreadTypes, LockTypes, HandleTypes, MachineTypes
  <1>9. \A u \in Txn : (running' = u => u = t) /\ (UnderWay(u)' <=> UnderWay(u))
    BY <1>1, <1>2, <1>7 DEF UnderWay
  <1>10. Tokens'
    BY <1>0, <1>1, <1>2, <1>7, <1>9 DEF DInv, Tokens
  <1>11. Locks'
    BY <1>2, <1>3 DEF DInv, Locks
  <1>12. Turns'
    BY <1>0, <1>1, <1>2, <1>3, <1>7, <1>9 DEF DInv, Turns, BackendState
  <1>13. Handles'
    BY <1>1, <1>2 DEF DInv, Handles
  <1>14. AtEnd'
    BY <1>1, <1>2 DEF DInv, AtEnd
  <1>15. Closes'
    <2>1. \A d \in Db : Queued(d)' <=> Queued(d)
      BY DEF Queued
    <2> QED
      BY <2>1 DEF DInv, Closes, Queued
  <1> QED
    BY <1>8, <1>10, <1>11, <1>12, <1>13, <1>14, <1>15

(* The steps on the script thread, each of which ends with a request to    *)
(* the backend.                                                            *)
LEMMA CallbackGoesBack ==
    ASSUME DInv, NEW t \in Txn, TakeCallback(t), UNCHANGED contextVars,
           NEW s \in BackendState \ {"AcquireLock"}, SendToBackend(t, s)
    PROVE  /\ ThreadTypes' /\ LockTypes' /\ HandleTypes'
           /\ requested' \in [Txn -> BackendState \cup {"Idle"}]
           /\ next' \in [Txn -> BackendState \cup {"Idle", "End"}] /\ posted' \in Seq(Txn)
           /\ Tokens' /\ Locks' /\ Turns' /\ Handles' /\ Data' /\ AtEnd' /\ Closes'
           /\ Posted(t) /\ \A u \in Txn : /\ Queued(u)' <=> Queued(u) \/ u = t
                                          /\ Posted(u)' <=> Posted(u) /\ u # t
                                          /\ Pending(u)' <=> Pending(u)
                                          /\ Waiting(u)' <=> Waiting(u)
  <1> USE DatabaseAssumption DEF coordinatorVars, databaseVars, contextVars
  <1>0. ThreadTypes /\ LockTypes /\ HandleTypes /\ MachineTypes /\ WorkTypes /\ ContextTypes
    BY TypesAre DEF DInv
  <1>1. /\ posted # <<>> /\ Head(posted) = t /\ posted' = Tail(posted)
        /\ UNCHANGED <<killed, thread, running, closing, coordinatorVars, databaseVars, next,
                       frontend, lockAcquired, originLock, sqlite>>
        /\ requested' = [requested EXCEPT ![t] = s] /\ queue' = queue \o <<t>>
    BY DEF TakeCallback, SendToBackend, Scheduled
  <1>2. /\ posted' \in Seq(Txn) /\ Distinct(posted') /\ Posted(t)
        /\ \A u \in Txn : Posted(u)' <=> Posted(u) /\ u # t
    <2>1. posted \in Seq(Txn) /\ Distinct(posted)
      BY <1>0 DEF DInv, Tokens, MachineTypes
    <2>2. /\ Tail(posted) \in Seq(Txn) /\ Head(posted) \in ToSet(posted) /\ Distinct(Tail(posted))
          /\ \A k \in ToSet(posted) : k # Head(posted) => k \in ToSet(Tail(posted))
          /\ Head(posted) \notin ToSet(Tail(posted)) /\ ToSet(Tail(posted)) \subseteq ToSet(posted)
      BY <1>1, <2>1, TailIs
    <2> QED
      BY <1>1, <2>2 DEF Posted
  <1>3. /\ ~Queued(t) /\ ~Pending(t) /\ ~Waiting(t) /\ running # t /\ t \notin unissued
        /\ (frontend[t] => lockAcquired[t])
    BY <1>2 DEF DInv, Tokens, Turns, UnderWay
  <1>4. /\ queue' \in Seq(Task) /\ Distinct(queue') /\ \A k \in Task : Queued(k)' <=> Queued(k) \/ k = t
    <2>1. queue \in Seq(Task) /\ Distinct(queue) /\ t \in Task
      BY <1>0 DEF DInv, Tokens, ThreadTypes, Task
    <2>2. <<t>> \in Seq(Task) /\ ToSet(<<t>>) = {t} /\ Distinct(<<t>>)
      BY <2>1, OneIs
    <2>3. ToSet(queue) \cap ToSet(<<t>>) \cap Txn = {}
      BY <1>3, <2>2 DEF Queued
    <2>4. queue' \in Seq(Task) /\ Distinct(queue') /\ ToSet(queue') = ToSet(queue) \cup {t}
      BY <1>1, <2>1, <2>2, <2>3, ConcatIs
    <2> QED
      BY <2>4 DEF Queued
  <1>5. \A u \in Txn : /\ Queued(u)' <=> Queued(u) \/ u = t
                       /\ Pending(u)' <=> Pending(u)
                       /\ Waiting(u)' <=> Waiting(u)
    BY <1>1, <1>4 DEF Pending, Waiting, Task
  <1>6. Active' = Active /\ \A d \in Db : Usable(d)' <=> Usable(d)
    BY <1>1 DEF Active, Usable
  <1>7. /\ requested' \in [Txn -> BackendState \cup {"Idle"}] /\ requested'[t] = s
        /\ \A u \in Txn : u # t => requested'[u] = requested[u]
    BY <1>0, <1>1 DEF MachineTypes
  <1>8. /\ ThreadTypes' /\ LockTypes' /\ HandleTypes'
        /\ next' \in [Txn -> BackendState \cup {"Idle", "End"}]
    BY <1>0, <1>1, <1>4 DEF ThreadTypes, LockTypes, HandleTypes, MachineTypes
  <1>9. \A u \in Txn : UnderWay(u)' <=> UnderWay(u)
    BY <1>1, <1>2, <1>5 DEF UnderWay
  <1>10. Tokens'
    BY <1>1, <1>2, <1>3, <1>4, <1>5, <1>9 DEF DInv, Tokens
  <1>11. Locks'
    BY <1>1, <1>5, <1>6 DEF DInv, Locks
  <1>12. Turns'
    BY <1>0, <1>1, <1>2, <1>3, <1>5, <1>6, <1>7 DEF DInv, Turns, BackendState
  <1>13. Handles'
    BY <1>1, <1>5 DEF DInv, Handles
  <1>14. Data'
    BY <1>1, <1>6 DEF DInv, Data
  <1>15. AtEnd'
    BY <1>1, <1>2, <1>3, <1>5 DEF DInv, AtEnd
  <1>16. Closes'
    <2>1. \A d \in Db : Queued(d)' <=> Queued(d)
      BY <1>4 DEF Task
    <2>2. deleting \in Db => (Queued(deleting)' <=> Queued(deleting))
      BY <2>1
    <2> QED
      BY <1>1, <2>1, <2>2 DEF DInv, Closes
  <1> QED
    BY <1>2, <1>5, <1>7, <1>8, <1>10, <1>11, <1>12, <1>13, <1>14, <1>15, <1>16

(* A step that changes nothing of a transaction leaves its outcome open.   *)
LEMMA OutcomeStays ==
    ASSUME DInv, NEW u \in Txn, told'[u] = told[u], scriptRequested'[u] = scriptRequested[u],
           sqlite'[u] = "committed" <=> sqlite[u] = "committed", lockAcquired[u] => lockAcquired'[u],
           requested'[u] = requested[u], next'[u] = next[u], u \in unissued' => u \in unissued,
           Pending(u)' => Pending(u), Waiting(u)' => Waiting(u),
           UnderWay(u)' \/ frontend'[u] => UnderWay(u) \/ frontend[u]
    PROVE  Outcome(u)'
  <1>1. Outcome(u)
    BY DEF DInv, Outcomes
  <1> QED
    BY <1>1 DEF Outcome

(* What a callback was asked for, what it tells script and what it asks    *)
(* the backend for.                                                        *)
LEMMA CallbackTells ==
    ASSUME DInv, NEW t \in Txn, PerformPendingCallback(t)
    PROVE  /\ TakeCallback(t)
           /\ statements' \in [Txn -> 0 .. MaxStatements] /\ retry' \in [Txn -> BOOLEAN]
           /\ allowance' \in [Txn -> 0 .. MaxStatements]
           /\ \A u \in Txn : statements'[u] + allowance'[u] = statements[u] + allowance[u]
           /\ wrappers' \subseteq wrappers
           /\ told' \in [Txn -> {"nothing", "success", "error"}]
           /\ scriptRequested' \in [Txn -> FrontendState \cup {"Idle", "End"}]
           /\ \A u \in Txn : u # t => told'[u] = told[u] /\ scriptRequested'[u] = scriptRequested[u]
           /\ \E s \in BackendState \ {"AcquireLock"} :
                 /\ SendToBackend(t, s)
                 /\ \/ /\ s = "RunStatements" /\ told'[t] = told[t] /\ scriptRequested'[t] = "Idle"
                       /\ scriptRequested[t] \notin {"Idle", "DeliverSuccessCallback", "End"}
                    \/ /\ s = "CleanupAfterTransactionErrorCallback" /\ scriptRequested'[t] = "Idle"
                       /\ told'[t] \in {told[t], "error"}
                       /\ scriptRequested[t] \notin {"Idle", "DeliverSuccessCallback", "End"}
                    \/ /\ s = "CleanupAndTerminate" /\ scriptRequested'[t] = "Idle"
                       /\ told'[t] \in {told[t], "success"}
                       /\ scriptRequested[t] = "DeliverSuccessCallback"
                    \/ /\ s = "CleanupAndTerminate" /\ scriptRequested'[t] = scriptRequested[t]
                       /\ told'[t] = told[t]
  <1> USE StatementAssumption
  <1>1. /\ told \in [Txn -> {"nothing", "success", "error"}] /\ allowance \in [Txn -> 0 .. MaxStatements]
        /\ statements \in [Txn -> 0 .. MaxStatements] /\ retry \in [Txn -> BOOLEAN]
        /\ scriptRequested \in [Txn -> FrontendState \cup {"Idle", "End"}]
        /\ statements[t] + allowance[t] <= MaxStatements
    BY DEF DInv, TypeOK, Budget
  <1>2. ASSUME NEW f, Delivers(t, f)
        PROVE  /\ TakeCallback(t) /\ scriptRequested[t] = f /\ scriptRequested'[t] = "Idle"
               /\ scriptRequested' \in [Txn -> FrontendState \cup {"Idle", "End"}]
               /\ \A u \in Txn : u # t => scriptRequested'[u] = scriptRequested[u]
    BY <1>1, <1>2 DEF Delivers
  <1>3. ASSUME ExecuteSQL(t)
        PROVE  /\ statements' \in [Txn -> 0 .. MaxStatements] /\ allowance' \in [Txn -> 0 .. MaxStatements]
               /\ \A u \in Txn : statements'[u] + allowance'[u] = statements[u] + allowance[u]
    <2>1. PICK n \in 0 .. allowance[t] : /\ statements' = [statements EXCEPT ![t] = statements[t] + n]
                                         /\ allowance' = [allowance EXCEPT ![t] = allowance[t] - n]
      BY <1>3 DEF ExecuteSQL
    <2>2. n \in Nat /\ allowance[t] \in Nat /\ statements[t] \in Nat /\ n <= allowance[t]
      BY <1>1
    <2>3. statements[t] + n \in 0 .. MaxStatements /\ allowance[t] - n \in 0 .. MaxStatements
      BY <1>1, <2>2
    <2>4. statements[t] + n + (allowance[t] - n) = statements[t] + allowance[t]
      BY <2>2
    <2> QED
      BY <1>1, <2>1, <2>3, <2>4
  <1>4. ASSUME CallErrorCallback(t)
        PROVE  /\ wrappers' \subseteq wrappers /\ SendToBackend(t, "CleanupAfterTransactionErrorCallback")
               /\ told' \in [Txn -> {"nothing", "success", "error"}] /\ told'[t] \in {told[t], "error"}
               /\ \A u \in Txn : u # t => told'[u] = told[u]
    BY <1>1, <1>4 DEF CallErrorCallback
  <1>5. CASE DeliverTransactionCallback(t)
    <2>1. Delivers(t, "DeliverTransactionCallback") /\ ExecuteSQL(t) /\ retry' = retry
      BY <1>5 DEF DeliverTransactionCallback
    <2>2. CASE SendToBackend(t, "RunStatements") /\ UNCHANGED <<told, wrappers>>
      BY <1>1, <1>2, <1>3, <2>1, <2>2 DEF BackendState
    <2>3. CASE CallErrorCallback(t)
      BY <1>1, <1>2, <1>3, <1>4, <2>1, <2>3 DEF BackendState
    <2> QED
      BY <1>5, <2>2, <2>3 DEF DeliverTransactionCallback
  <1>6. CASE DeliverTransactionErrorCallback(t)
    <2>1. /\ Delivers(t, "DeliverTransactionErrorCallback") /\ CallErrorCallback(t)
          /\ statements' = statements /\ retry' = retry /\ allowance' = allowance
      BY <1>6 DEF DeliverTransactionErrorCallback
    <2> QED
      BY <1>1, <1>2, <1>4, <2>1 DEF BackendState
  <1>7. CASE DeliverStatementCallback(t)
    <2>1. Delivers(t, "DeliverStatementCallback") /\ ExecuteSQL(t) /\ retry' = retry
      BY <1>7 DEF DeliverStatementCallback
    <2>2. CASE SendToBackend(t, "RunStatements") /\ UNCHANGED <<told, wrappers>>
      BY <1>1, <1>2, <1>3, <2>1, <2>2 DEF BackendState
    <2>3. CASE CallErrorCallback(t)
      BY <1>1, <1>2, <1>3, <1>4, <2>1, <2>3 DEF BackendState
    <2>4. CASE SendToBackend(t, "CleanupAfterTransactionErrorCallback") /\ UNCHANGED <<told, wrappers>>
      BY <1>1, <1>2, <1>3, <2>1, <2>4 DEF BackendState
    <2> QED
      BY <1>7, <2>2, <2>3, <2>4 DEF DeliverStatementCallback
  <1>8. CASE DeliverQuotaIncreaseCallback(t)
    <2>1. /\ Delivers(t, "DeliverQuotaIncreaseCallback") /\ SendToBackend(t, "RunStatements")
          /\ statements' = statements /\ wrappers' = wrappers /\ told' = told /\ allowance' = allowance
          /\ retry' \in [Txn -> BOOLEAN]
      BY <1>1, <1>8 DEF DeliverQuotaIncreaseCallback, scriptVars
    <2> QED
      BY <1>1, <1>2, <2>1 DEF BackendState
  <1>9. CASE DeliverSuccessCallback(t)
    <2>1. /\ Delivers(t, "DeliverSuccessCallback") /\ SendToBackend(t, "CleanupAndTerminate")
          /\ statements' = statements /\ retry' = retry /\ allowance' = allowance /\ wrappers' \subseteq wrappers
          /\ told' = IF t \in wrappers THEN [told EXCEPT ![t] = "success"] ELSE told
      BY <1>9 DEF DeliverSuccessCallback
    <2>2. /\ told' \in [Txn -> {"nothing", "success", "error"}] /\ told'[t] \in {told[t], "success"}
          /\ \A u \in Txn : u # t => told'[u] = told[u]
      BY <1>1, <2>1
    <2> QED
      BY <1>1, <1>2, <2>1, <2>2 DEF BackendState
  <1>10. CASE AbandonCallback(t)
    <2>1. /\ TakeCallback(t) /\ SendToBackend(t, "CleanupAndTerminate") /\ wrappers' \subseteq wrappers
          /\ scriptRequested' = scriptRequested /\ statements' = statements /\ retry' = retry
          /\ told' = told /\ allowance' = allowance
      BY <1>10 DEF AbandonCallback
    <2> QED
      BY <1>1, <2>1 DEF BackendState
  <1> QED
    BY <1>5, <1>6, <1>7, <1>8, <1>9, <1>10 DEF PerformPendingCallback

LEMMA CallbackKeeps == ASSUME DInv, NEW t \in Txn, Callback(t) PROVE DInv'
  <1> USE DatabaseAssumption DEF contextVars
  <1>0. ThreadTypes /\ LockTypes /\ HandleTypes /\ MachineTypes /\ WorkTypes /\ ContextTypes
    BY TypesAre DEF DInv
  <1>1. PerformPendingCallback(t) /\ UNCHANGED contextVars
    BY DEF Callback
  <1>2. PICK s \in BackendState \ {"AcquireLock"} :
           /\ SendToBackend(t, s)
           /\ \/ /\ s = "RunStatements" /\ told'[t] = told[t] /\ scriptRequested'[t] = "Idle"
                 /\ scriptRequested[t] \notin {"Idle", "DeliverSuccessCallback", "End"}
              \/ /\ s = "CleanupAfterTransactionErrorCallback" /\ scriptRequested'[t] = "Idle"
                 /\ told'[t] \in {told[t], "error"}
                 /\ scriptRequested[t] \notin {"Idle", "DeliverSuccessCallback", "End"}
              \/ /\ s = "CleanupAndTerminate" /\ scriptRequested'[t] = "Idle"
                 /\ told'[t] \in {told[t], "success"}
                 /\ scriptRequested[t] = "DeliverSuccessCallback"
              \/ /\ s = "CleanupAndTerminate" /\ scriptRequested'[t] = scriptRequested[t]
                 /\ told'[t] = told[t]
    BY <1>1, CallbackTells
  <1>3. /\ TakeCallback(t)
        /\ statements' \in [Txn -> 0 .. MaxStatements] /\ retry' \in [Txn -> BOOLEAN]
        /\ allowance' \in [Txn -> 0 .. MaxStatements]
        /\ \A u \in Txn : statements'[u] + allowance'[u] = statements[u] + allowance[u]
        /\ wrappers' \subseteq wrappers
        /\ told' \in [Txn -> {"nothing", "success", "error"}]
        /\ scriptRequested' \in [Txn -> FrontendState \cup {"Idle", "End"}]
        /\ \A u \in Txn : u # t => told'[u] = told[u] /\ scriptRequested'[u] = scriptRequested[u]
    BY <1>1, CallbackTells
  <1>4. /\ ThreadTypes' /\ LockTypes' /\ HandleTypes'
        /\ requested' \in [Txn -> BackendState \cup {"Idle"}]
        /\ next' \in [Txn -> BackendState \cup {"Idle", "End"}] /\ posted' \in Seq(Txn)
        /\ Tokens' /\ Locks' /\ Turns' /\ Handles' /\ Data' /\ AtEnd' /\ Closes'
        /\ Posted(t) /\ \A u \in Txn : /\ Queued(u)' <=> Queued(u) \/ u = t
                                       /\ Posted(u)' <=> Posted(u) /\ u # t
                                       /\ Pending(u)' <=> Pending(u)
                                       /\ Waiting(u)' <=> Waiting(u)
    BY <1>1, <1>2, <1>3, CallbackGoesBack
  <1>5. /\ UNCHANGED <<running, next, frontend, lockAcquired, originLock, sqlite, current>>
        /\ requested' = [requested EXCEPT ![t] = s]
    BY <1>2, <1>3 DEF TakeCallback, SendToBackend
  <1>6. MachineTypes' /\ WorkTypes' /\ ContextTypes'
    BY <1>0, <1>1, <1>3, <1>4, <1>5 DEF MachineTypes, WorkTypes, ContextTypes
  <1>7. Budget'
    BY <1>3 DEF DInv, Budget
  <1>8. Outcomes'
    <2>1. /\ requested'[t] = s /\ \A u \in Txn : u # t => requested'[u] = requested[u]
          /\ next[t] \in {"Idle", "End"} /\ t \notin unissued /\ ~Pending(t) /\ ~Waiting(t)
      BY <1>0, <1>4, <1>5 DEF DInv, Tokens, Turns, MachineTypes, UnderWay
    <2>2. \A u \in Txn : UnderWay(u)' <=> UnderWay(u)
      BY <1>4, <1>5 DEF UnderWay
    <2>3. ASSUME NEW u \in Txn, u # t PROVE Outcome(u)'
      BY <1>1, <1>3, <1>4, <1>5, <2>1, <2>2, <2>3, OutcomeStays
    <2> SUFFICES Outcome(t)'
      BY <2>3 DEF Outcomes
    <2>4. Outcome(t) /\ told[t] \in {"nothing", "success", "error"}
      BY <1>0 DEF DInv, Outcomes, ContextTypes
    <2>5. CASE s = "CleanupAndTerminate" /\ scriptRequested'[t] = scriptRequested[t] /\ told'[t] = told[t]
      BY <1>1, <1>4, <1>5, <2>1, <2>4, <2>5 DEF Outcome
    <2>6. CASE s = "CleanupAndTerminate" /\ scriptRequested'[t] = "Idle" /\ sqlite[t] = "committed"
               /\ told'[t] \in {told[t], "success"}
      BY <1>1, <1>4, <1>5, <2>1, <2>4, <2>6 DEF Outcome
    <2>7. CASE s = "RunStatements" /\ scriptRequested'[t] = "Idle" /\ told'[t] = told[t]
               /\ scriptRequested[t] \notin {"Idle", "DeliverSuccessCallback", "End"}
      BY <1>1, <1>4, <1>5, <2>1, <2>4, <2>7 DEF Outcome
    <2>8. CASE s = "CleanupAfterTransactionErrorCallback" /\ scriptRequested'[t] = "Idle"
               /\ told'[t] \in {told[t], "error"}
               /\ scriptRequested[t] \notin {"Idle", "DeliverSuccessCallback", "End"}
      BY <1>1, <1>4, <1>5, <2>1, <2>4, <2>8 DEF Outcome
    <2>9. scriptRequested[t] = "DeliverSuccessCallback" => sqlite[t] = "committed"
      BY <2>4 DEF Outcome
    <2> QED
      BY <1>2, <2>5, <2>6, <2>7, <2>8, <2>9
  <1> QED
    BY <1>4, <1>6, <1>7, <1>8, TypesAre DEF DInv

-----------------------------------------------------------------------------
(* The steps of the machine before the commit: none of them may end the    *)
(* transaction.                                                            *)
Proceeds(t) ==
    \/ \E s \in {"RunStatements", "PostflightAndCommit", "CleanupAfterTransactionErrorCallback"} : GoOn(t, s)
    \/ \E s \in FrontendState \ {"DeliverSuccessCallback"} : SendToFrontend(t, s)

LEMMA ProceedsFrom ==
    ASSUME NEW t \in Txn
    PROVE  /\ NextStateForTransactionError(t) => Proceeds(t)
           /\ NextStateForCurrentStatementError(t) => Proceeds(t)
           /\ RunCurrentStatement(t) =>
                 /\ Proceeds(t)
                 /\ current' = [current EXCEPT ![t] = "ran"] \/ current' = [current EXCEPT ![t] = "quota"]
           /\ SendToFrontend(t, "DeliverTransactionCallback") => Proceeds(t)
           /\ GoOn(t, "RunStatements") => Proceeds(t)
           /\ GoOn(t, "PostflightAndCommit") => Proceeds(t)
  <1>1. /\ \A s \in {"DeliverTransactionCallback", "DeliverTransactionErrorCallback",
                     "DeliverStatementCallback", "DeliverQuotaIncreaseCallback"} :
              SendToFrontend(t, s) => Proceeds(t)
        /\ \A s \in {"RunStatements", "PostflightAndCommit", "CleanupAfterTransactionErrorCallback"} :
              GoOn(t, s) => Proceeds(t)
    BY DEF Proceeds, FrontendState
  <1>2. NextStateForTransactionError(t) => Proceeds(t)
    BY <1>1 DEF NextStateForTransactionError
  <1>3. NextStateForCurrentStatementError(t) => Proceeds(t)
    BY <1>1, <1>2 DEF NextStateForCurrentStatementError
  <1>4. RunCurrentStatement(t) =>
           /\ Proceeds(t)
           /\ current' = [current EXCEPT ![t] = "ran"] \/ current' = [current EXCEPT ![t] = "quota"]
    BY <1>1, <1>3 DEF RunCurrentStatement
  <1> QED
    BY <1>1, <1>2, <1>3, <1>4

(* What every step of the machine leaves to be shown.                      *)
LEMMA MachineKeeps ==
    ASSUME DInv, NEW t \in Txn, running = t, next[t] # "AcquireLock",
           UNCHANGED <<queue, killed, thread, closing, coordinatorVars, databaseVars, requested,
                       frontend, lockAcquired, scriptVars, contextVars>>,
           \/ \E s \in BackendState \ {"AcquireLock"} : GoOn(t, s)
           \/ \E s \in FrontendState : SendToFrontend(t, s),
           originLock' \in (Txn \ ReadOnly) \cup {NoTxn},
           originLock' # NoTxn => originLock' = originLock \/ (originLock' = t /\ t \notin ReadOnly),
           sqlite' \in [Txn -> {"none", "open", "committed"}],
           \A u \in Txn : u # t => sqlite'[u] = sqlite[u],
           statements' \in [Txn -> 0 .. MaxStatements], \A u \in Txn : statements'[u] <= statements[u],
           current' \in [Txn -> {"none", "ran", "quota"}], retry' \in [Txn -> BOOLEAN],
           Outcome(t)'
    PROVE  DInv'
  <1> USE DatabaseAssumption, ReadOnlyAssumption, StatementAssumption
      DEF coordinatorVars, databaseVars, callbackVars, scriptVars, contextVars
  <1>0. ThreadTypes /\ LockTypes /\ HandleTypes /\ MachineTypes /\ WorkTypes /\ ContextTypes
    BY TypesAre DEF DInv
  <1>1. /\ ThreadTypes' /\ LockTypes' /\ HandleTypes' /\ MachineTypes'
        /\ Tokens' /\ Locks' /\ Turns' /\ Handles' /\ AtEnd' /\ Closes'
    BY StepGoesOn
  <1>2. WorkTypes' /\ ContextTypes'
    BY <1>0 DEF WorkTypes, ContextTypes
  <1>3. /\ frontend[t] /\ thread = "loop" /\ lockAcquired[t] /\ t # NoTxn /\ t \in Active
        /\ Active' = Active /\ ~shuttingDown
    <2>1. frontend[t] /\ thread = "loop" /\ lockAcquired[t] /\ t # NoTxn
      BY <1>0 DEF DInv, Turns, WorkTypes
    <2> QED
      BY <2>1 DEF DInv, Locks, Active
  <1>4. Data'
    <2>1. t \notin ReadOnly => t = activeWrite
      BY <1>0, <1>3 DEF Active, LockTypes
    <2>2. originLock' # NoTxn => originLock' = activeWrite' /\ frontend'[originLock']
      BY <1>3, <2>1 DEF DInv, Data
    <2>3. \A u \in Txn : sqlite'[u] = "open" => frontend'[u] /\ lockAcquired'[u] /\ u \in Active'
      BY <1>3 DEF DInv, Data
    <2> QED
      BY <2>2, <2>3 DEF Data
  <1>5. Budget'
    <2> SUFFICES ASSUME NEW u \in Txn PROVE statements'[u] + allowance[u] <= MaxStatements
      BY DEF Budget
    <2>1. /\ statements'[u] \in Nat /\ statements[u] \in Nat /\ allowance[u] \in Nat
          /\ statements'[u] <= statements[u] /\ statements[u] + allowance[u] <= MaxStatements
      BY <1>0 DEF DInv, Budget, WorkTypes, ContextTypes
    <2> QED
      BY <2>1
  <1>6. Outcomes'
    <2> SUFFICES ASSUME NEW u \in Txn, u # t PROVE Outcome(u)'
      BY DEF Outcomes
    <2>1. Pending(u)' = Pending(u) /\ Waiting(u)' = Waiting(u) /\ Queued(u)' = Queued(u)
      BY DEF Pending, Waiting, Queued
    <2>2. /\ next'[u] = next[u] /\ scriptRequested'[u] = scriptRequested[u] /\ (Posted(u)' => Posted(u))
          /\ running' # u
      <3>1. ASSUME NEW s, GoOn(t, s)
            PROVE  /\ next'[u] = next[u] /\ scriptRequested'[u] = scriptRequested[u]
                   /\ running' # u /\ posted' = posted
        BY <1>0, <3>1 DEF GoOn, MachineTypes
      <3>2. ASSUME NEW s, SendToFrontend(t, s)
            PROVE  /\ next'[u] = next[u] /\ scriptRequested'[u] = scriptRequested[u]
                   /\ running' # u /\ posted' = Append(posted, t)
        BY <1>0, <3>2 DEF SendToFrontend, Stop, RequestFrontend, MachineTypes
      <3>3. Posted(u)' => u \in ToSet(posted) \cup {t}
        BY <1>0, <3>1, <3>2, AppendIs DEF MachineTypes, Posted
      <3> QED
        BY <3>1, <3>2, <3>3 DEF Posted
    <2>3. UnderWay(u)' => UnderWay(u)
      BY <2>1, <2>2 DEF UnderWay
    <2> QED
      BY <2>1, <2>2, <2>3, OutcomeStays
  <1> QED
    BY <1>1, <1>2, <1>4, <1>5, <1>6, TypesAre DEF DInv

LEMMA ProceedsKeeps ==
    ASSUME DInv, NEW t \in Txn, running = t,
           next[t] \in {"OpenTransactionAndPreflight", "RunStatements", "PostflightAndCommit"},
           UNCHANGED <<queue, killed, thread, closing, coordinatorVars, databaseVars, requested,
                       frontend, lockAcquired, scriptVars, contextVars>>,
           Proceeds(t),
           originLock' \in (Txn \ ReadOnly) \cup {NoTxn},
           originLock' # NoTxn => originLock' = originLock \/ (originLock' = t /\ t \notin ReadOnly),
           sqlite' \in [Txn -> {"none", "open", "committed"}],
           \A u \in Txn : u # t => sqlite'[u] = sqlite[u], sqlite'[t] \in {sqlite[t], "open"},
           statements' \in [Txn -> 0 .. MaxStatements], \A u \in Txn : statements'[u] <= statements[u],
           current' \in [Txn -> {"none", "ran", "quota"}], retry' \in [Txn -> BOOLEAN]
    PROVE  DInv'
  <1> USE DatabaseAssumption DEF coordinatorVars, databaseVars, callbackVars, scriptVars, contextVars
  <1>0. MachineTypes /\ Outcome(t)
    BY TypesAre DEF DInv, Outcomes
  <1>1. sqlite[t] # "committed" /\ told[t] # "error" /\ told[t] # "success"
        /\ scriptRequested[t] # "DeliverSuccessCallback" /\ t \notin unissued
    BY <1>0 DEF Outcome, DInv, Tokens, UnderWay
  <1>2. ASSUME NEW s, GoOn(t, s) PROVE Outcome(t)'
    <2>1. scriptRequested' = scriptRequested
      BY <1>2 DEF GoOn
    <2> QED
      BY <1>1, <2>1 DEF Outcome
  <1>3. ASSUME NEW s, s # "DeliverSuccessCallback", SendToFrontend(t, s) PROVE Outcome(t)'
    <2>1. scriptRequested'[t] = s
      BY <1>0, <1>3 DEF SendToFrontend, RequestFrontend, MachineTypes
    <2> QED
      BY <1>1, <1>3, <2>1 DEF Outcome
  <1>4. Outcome(t)'
    BY <1>2, <1>3 DEF Proceeds
  <1>5. \/ \E s \in BackendState \ {"AcquireLock"} : GoOn(t, s)
        \/ \E s \in FrontendState : SendToFrontend(t, s)
    BY DEF Proceeds, BackendState
  <1> QED
    BY <1>4, <1>5, MachineKeeps

LEMMA OpenTransactionKeeps ==
    ASSUME DInv, NEW t \in Txn, OpenTransactionAndPreflight(t), UNCHANGED <<scriptVars, contextVars>>
    PROVE  DInv'
  <1> USE DatabaseAssumption, ReadOnlyAssumption, StatementAssumption
  <1>0. WorkTypes
    BY TypesAre DEF DInv
  <1>1. /\ running = t /\ next[t] = "OpenTransactionAndPreflight"
        /\ UNCHANGED <<queue, killed, thread, closing, coordinatorVars, databaseVars, requested,
                       frontend, lockAcquired, statementVars>>
    BY DEF OpenTransactionAndPreflight, Runs
  <1>2. Proceeds(t) /\ (sqlite' = sqlite \/ sqlite' = [sqlite EXCEPT ![t] = "open"])
    BY ProceedsFrom DEF OpenTransactionAndPreflight
  <1>3. originLock' = originLock \/ (originLock' = t /\ t \notin ReadOnly)
    BY DEF OpenTransactionAndPreflight
  <1>4. /\ sqlite' \in [Txn -> {"none", "open", "committed"}]
        /\ \A u \in Txn : u # t => sqlite'[u] = sqlite[u]
        /\ sqlite'[t] \in {sqlite[t], "open"}
    BY <1>0, <1>2 DEF WorkTypes
  <1>5. /\ statements' \in [Txn -> 0 .. MaxStatements] /\ \A u \in Txn : statements'[u] <= statements[u]
        /\ current' \in [Txn -> {"none", "ran", "quota"}] /\ retry' \in [Txn -> BOOLEAN]
        /\ originLock' \in (Txn \ ReadOnly) \cup {NoTxn}
    BY <1>0, <1>1, <1>3 DEF WorkTypes, statementVars
  <1> QED
    BY <1>1, <1>2, <1>3, <1>4, <1>5, ProceedsKeeps

LEMMA RunStatementsKeeps ==
    ASSUME DInv, NEW t \in Txn, RunStatements(t), UNCHANGED <<scriptVars, contextVars>>
    PROVE  DInv'
  <1> USE DatabaseAssumption, StatementAssumption
  <1>0. WorkTypes
    BY TypesAre DEF DInv
  <1>1. /\ running = t /\ next[t] = "RunStatements"
        /\ UNCHANGED <<queue, killed, thread, closing, coordinatorVars, databaseVars, requested,
                       frontend, lockAcquired, originLock, sqlite>>
        /\ RetryStatement(t) \/ FailStatement(t) \/ NextStatement(t) \/ LastStatement(t)
    BY DEF RunStatements, Runs
  <1>2. /\ current \in [Txn -> {"none", "ran", "quota"}] /\ retry \in [Txn -> BOOLEAN]
        /\ statements \in [Txn -> 0 .. MaxStatements]
    BY <1>0 DEF WorkTypes
  <1>3. RunCurrentStatement(t) => Proceeds(t) /\ current' \in [Txn -> {"none", "ran", "quota"}]
    BY <1>2, ProceedsFrom
  <1>4. /\ Proceeds(t)
        /\ current' \in [Txn -> {"none", "ran", "quota"}] /\ retry' \in [Txn -> BOOLEAN]
        /\ statements' \in [Txn -> 0 .. MaxStatements] /\ \A u \in Txn : statements'[u] <= statements[u]
    <2>1. CASE RetryStatement(t)
      BY <1>2, <1>3, <2>1 DEF RetryStatement
    <2>2. CASE FailStatement(t)
      <3>1. Proceeds(t) /\ UNCHANGED <<statements, current, retry>>
        BY <2>2, ProceedsFrom DEF FailStatement, statementVars
      <3> QED
        BY <1>2, <3>1
    <2>3. CASE NextStatement(t)
      <3>1. /\ statements[t] > 0 /\ statements' = [statements EXCEPT ![t] = statements[t] - 1]
            /\ RunCurrentStatement(t) /\ retry' = retry
        BY <2>3 DEF NextStatement
      <3>2. statements[t] \in 0 .. MaxStatements /\ statements[t] - 1 \in 0 .. MaxStatements
        BY <1>2, <3>1
      <3> QED
        BY <1>2, <1>3, <3>1, <3>2
    <2>4. CASE LastStatement(t)
      <3>1. /\ current' = [current EXCEPT ![t] = "none"] /\ statements' = statements /\ retry' = retry
            /\ GoOn(t, "PostflightAndCommit")
        BY <2>4 DEF LastStatement
      <3>2. Proceeds(t)
        BY <3>1, ProceedsFrom
      <3>3. current' \in [Txn -> {"none", "ran", "quota"}]
        BY <1>2, <3>1
      <3>4. \A u \in Txn : statements'[u] <= statements[u]
        BY <1>2, <3>1
      <3> QED
        BY <1>2, <3>1, <3>2, <3>3, <3>4
    <2> QED
      BY <1>1, <2>1, <2>2, <2>3, <2>4
  <1>5. originLock' = originLock /\ originLock' \in (Txn \ ReadOnly) \cup {NoTxn}
        /\ sqlite' = sqlite /\ sqlite' \in [Txn -> {"none", "open", "committed"}]
    BY <1>0, <1>1 DEF WorkTypes
  <1> QED
    BY <1>1, <1>4, <1>5, ProceedsKeeps

LEMMA CommitKeeps ==
    ASSUME DInv, NEW t \in Txn, PostflightAndCommit(t), UNCHANGED <<scriptVars, contextVars>>
    PROVE  DInv'
  <1> USE DatabaseAssumption, StatementAssumption
  <1>0. WorkTypes /\ MachineTypes /\ Outcome(t)
    BY TypesAre DEF DInv, Outcomes
  <1>1. /\ running = t /\ next[t] = "PostflightAndCommit"
        /\ UNCHANGED <<queue, killed, thread, closing, coordinatorVars, databaseVars, requested,
                       frontend, lockAcquired, statementVars>>
    BY DEF PostflightAndCommit, Runs
  <1>2. originLock' \in {originLock, NoTxn} /\ originLock' \in (Txn \ ReadOnly) \cup {NoTxn}
    BY <1>0 DEF PostflightAndCommit, OriginLockWithout, WorkTypes
  <1>3. /\ statements' \in [Txn -> 0 .. MaxStatements] /\ \A u \in Txn : statements'[u] <= statements[u]
        /\ current' \in [Txn -> {"none", "ran", "quota"}] /\ retry' \in [Txn -> BOOLEAN]
    BY <1>0, <1>1 DEF WorkTypes, statementVars
  <1>4. CASE NextStateForTransactionError(t) /\ sqlite' = sqlite
    <2>1. Proceeds(t)
      BY <1>4, ProceedsFrom
    <2>2. sqlite' \in [Txn -> {"none", "open", "committed"}]
      BY <1>0, <1>4 DEF WorkTypes
    <2> QED
      BY <1>1, <1>2, <1>3, <1>4, <2>1, <2>2, ProceedsKeeps
  <1>5. CASE SendToFrontend(t, "DeliverSuccessCallback") /\ sqlite' = [sqlite EXCEPT ![t] = "committed"]
    <2>1. /\ sqlite' \in [Txn -> {"none", "open", "committed"}] /\ sqlite'[t] = "committed"
          /\ \A u \in Txn : u # t => sqlite'[u] = sqlite[u]
      BY <1>0, <1>5 DEF WorkTypes
    <2>2. /\ next'[t] = "Idle" /\ scriptRequested'[t] = "DeliverSuccessCallback" /\ requested' = requested
      BY <1>0, <1>1, <1>5 DEF SendToFrontend, Stop, RequestFrontend, MachineTypes
    <2>3. told[t] # "error" /\ told' = told /\ lockAcquired' = lockAcquired
      BY <1>0, <1>1 DEF Outcome, scriptVars
    <2>4. lockAcquired[t] /\ requested[t] = "Idle" /\ t \notin unissued /\ unissued' = unissued
      BY <1>0, <1>1 DEF DInv, Turns, Tokens, UnderWay, WorkTypes, contextVars
    <2>5. Outcome(t)'
      BY <2>1, <2>2, <2>3, <2>4 DEF Outcome
    <2>6. "DeliverSuccessCallback" \in FrontendState
      BY DEF FrontendState
    <2> QED
      BY <1>1, <1>2, <1>3, <1>5, <2>1, <2>5, <2>6, MachineKeeps
  <1> QED
    BY <1>4, <1>5 DEF PostflightAndCommit

LEMMA CleanupAfterErrorKeeps ==
    ASSUME DInv, NEW t \in Txn, CleanupAfterTransactionErrorCallback(t),
           UNCHANGED <<scriptVars, contextVars>>
    PROVE  DInv'
  <1> USE DatabaseAssumption, StatementAssumption
  <1>0. WorkTypes /\ MachineTypes /\ Outcome(t)
    BY TypesAre DEF DInv, Outcomes
  <1>1. /\ running = t /\ next[t] = "CleanupAfterTransactionErrorCallback"
        /\ UNCHANGED <<queue, killed, thread, closing, coordinatorVars, databaseVars, requested,
                       frontend, lockAcquired, statementVars>>
        /\ GoOn(t, "CleanupAndTerminate")
        /\ sqlite' = [sqlite EXCEPT ![t] = IF sqlite[t] = "open" THEN "none" ELSE sqlite[t]]
    BY DEF CleanupAfterTransactionErrorCallback, Runs
  <1>2. originLock' \in {originLock, NoTxn} /\ originLock' \in (Txn \ ReadOnly) \cup {NoTxn}
    BY <1>0 DEF CleanupAfterTransactionErrorCallback, OriginLockWithout, WorkTypes
  <1>3. /\ statements' \in [Txn -> 0 .. MaxStatements] /\ \A u \in Txn : statements'[u] <= statements[u]
        /\ current' \in [Txn -> {"none", "ran", "quota"}] /\ retry' \in [Txn -> BOOLEAN]
    BY <1>0, <1>1 DEF WorkTypes, statementVars
  <1>4. /\ sqlite' \in [Txn -> {"none", "open", "committed"}]
        /\ \A u \in Txn : u # t => sqlite'[u] = sqlite[u]
        /\ sqlite[t] # "committed" => sqlite'[t] # "committed"
    BY <1>0, <1>1 DEF WorkTypes
  <1>5. Outcome(t)'
    <2>1. sqlite[t] # "committed" /\ told[t] # "success" /\ scriptRequested[t] # "DeliverSuccessCallback"
      BY <1>0, <1>1 DEF Outcome
    <2>2. next'[t] = "CleanupAndTerminate" /\ scriptRequested' = scriptRequested /\ told' = told
          /\ UNCHANGED <<requested, frontend, unissued>> /\ running' = running /\ posted' = posted
      BY <1>0, <1>1 DEF GoOn, callbackVars, scriptVars, contextVars, MachineTypes
    <2>3. Pending(t)' = Pending(t) /\ Waiting(t)' = Waiting(t) /\ UnderWay(t)' = UnderWay(t)
      BY <1>1, <2>2 DEF Pending, Waiting, UnderWay, Queued, Posted, coordinatorVars, databaseVars
    <2> QED
      BY <1>0, <1>4, <2>1, <2>2, <2>3 DEF Outcome
  <1>6. "CleanupAndTerminate" \in BackendState \ {"AcquireLock"}
    BY DEF BackendState
  <1> QED
    BY <1>1, <1>2, <1>3, <1>4, <1>5, <1>6, MachineKeeps

-----------------------------------------------------------------------------
(* The database thread takes a task.                                       *)
LEMMA TaskTaken ==
    ASSUME DInv, NEW k \in Task, Performs(k)
    PROVE  /\ thread = "loop" /\ ~killed /\ running = NoTxn /\ closing = NoDb
           /\ Queued(k) /\ Tail(queue) \in Seq(Task) /\ Distinct(Tail(queue))
           /\ \A j \in Task : j # k => (j \in ToSet(Tail(queue)) <=> Queued(j))
           /\ k \in Txn => k \notin ToSet(Tail(queue))
  <1>1. queue \in Seq(Task) /\ Distinct(queue)
    BY TypesAre DEF DInv, ThreadTypes, Tokens
  <1>2. /\ thread = "loop" /\ ~killed /\ running = NoTxn /\ closing = NoDb
        /\ queue # <<>> /\ Head(queue) = k
    BY DEF Performs
  <1>3. /\ Tail(queue) \in Seq(Task) /\ Head(queue) \in ToSet(queue) /\ Distinct(Tail(queue))
        /\ ToSet(Tail(queue)) \subseteq ToSet(queue)
        /\ \A j \in ToSet(queue) : j # Head(queue) => j \in ToSet(Tail(queue))
        /\ Head(queue) \in Txn => Head(queue) \notin ToSet(Tail(queue))
    BY <1>1, <1>2, TailIs
  <1> QED
    BY <1>2, <1>3 DEF Queued

LEMMA StartStepKeeps ==
    ASSUME DInv, NEW t \in Txn, StartStep(t), UNCHANGED <<scriptVars, contextVars>>
    PROVE  DInv'
  <1> USE DatabaseAssumption DEF coordinatorVars, databaseVars, callbackVars, scriptVars, contextVars,
          statementVars
  <1>0. ThreadTypes /\ LockTypes /\ HandleTypes /\ MachineTypes /\ WorkTypes /\ ContextTypes
    BY TypesAre DEF DInv
  <1>1. /\ Performs(t) /\ Usable(DbOf[t]) /\ queue' = Tail(queue) /\ running' = t
        /\ next' = [next EXCEPT ![t] = requested[t]]
        /\ requested' = [requested EXCEPT ![t] = "Idle"]
        /\ UNCHANGED <<killed, thread, closing, coordinatorVars, databaseVars, frontend, lockAcquired,
                       originLock, sqlite, statementVars, callbackVars>>
    BY DEF StartStep
  <1>2. /\ thread = "loop" /\ ~killed /\ running = NoTxn /\ closing = NoDb
        /\ Queued(t) /\ Tail(queue) \in Seq(Task) /\ Distinct(Tail(queue))
        /\ \A j \in Task : j # t => (j \in ToSet(Tail(queue)) <=> Queued(j))
        /\ t \notin ToSet(Tail(queue)) /\ t # NoTxn
    BY <1>1, TaskTaken DEF Task
  <1>3. \A u \in Txn : /\ Queued(u)' <=> Queued(u) /\ u # t
                       /\ Posted(u)' <=> Posted(u)
                       /\ Pending(u)' <=> Pending(u)
                       /\ Waiting(u)' <=> Waiting(u)
    BY <1>1, <1>2 DEF Queued, Posted, Pending, Waiting, Task
  <1>4. /\ ~Posted(t) /\ ~Pending(t) /\ ~Waiting(t) /\ t \notin unissued /\ frontend[t]
        /\ requested[t] \in BackendState /\ (requested[t] = "AcquireLock" <=> ~lockAcquired[t])
    BY <1>0, <1>1, <1>2 DEF DInv, Tokens, Turns, UnderWay, WorkTypes
  <1>5. /\ Active' = Active /\ \A d \in Db : Usable(d)' <=> Usable(d)
        /\ \A d \in Db : Queued(d)' <=> Queued(d)
    BY <1>1, <1>2 DEF Active, Usable, Queued, Task
  <1>6. /\ next'[t] = requested[t] /\ requested'[t] = "Idle"
        /\ \A u \in Txn : u # t => next'[u] = next[u] /\ requested'[u] = requested[u]
    BY <1>0, <1>1 DEF MachineTypes
  <1>7. /\ ThreadTypes' /\ LockTypes' /\ HandleTypes' /\ MachineTypes' /\ WorkTypes' /\ ContextTypes'
    <2>1. MachineTypes'
      BY <1>0, <1>1, <1>4 DEF MachineTypes
    <2> QED
      BY <1>0, <1>1, <1>2, <2>1 DEF ThreadTypes, LockTypes, HandleTypes, WorkTypes, ContextTypes
  <1>8. \A u \in Txn : UnderWay(u)' <=> UnderWay(u)
    BY <1>1, <1>2, <1>3 DEF UnderWay
  <1>9. Tokens'
    BY <1>1, <1>2, <1>3, <1>4, <1>8 DEF DInv, Tokens
  <1>10. Locks'
    BY <1>1, <1>3, <1>5 DEF DInv, Locks
  <1>11. Turns'
    BY <1>1, <1>2, <1>3, <1>4, <1>5, <1>6 DEF DInv, Turns, BackendState
  <1>12. Handles'
    BY <1>1, <1>3 DEF DInv, Handles
  <1>13. Data'
    BY <1>1, <1>5 DEF DInv, Data
  <1>14. AtEnd'
    BY <1>1, <1>2, <1>3 DEF DInv, AtEnd
  <1>15. Closes'
    BY <1>1, <1>5 DEF DInv, Closes
  <1>16. Budget'
    BY <1>1 DEF DInv, Budget
  <1>17. Outcomes'
    <2>1. ASSUME NEW u \in Txn, u # t PROVE Outcome(u)'
      BY <1>1, <1>3, <1>6, <1>8, <2>1, OutcomeStays
    <2>2. Outcome(t)'
      <3>1. Outcome(t) /\ UnderWay(t)
        BY <1>2 DEF DInv, Outcomes, UnderWay
      <3> QED
        BY <1>1, <1>3, <1>4, <1>6, <3>1 DEF Outcome
    <2> QED
      BY <2>1, <2>2 DEF Outcomes
  <1> QED
    BY <1>7, <1>9, <1>10, <1>11, <1>12, <1>13, <1>14, <1>15, <1>16, <1>17, TypesAre DEF DInv

(* A task of a transaction that has ended is dropped.                      *)
LEMMA DropKeeps ==
    ASSUME DInv, NEW t \in Txn, Performs(t), next[t] = "End", queue' = Tail(queue),
           UNCHANGED <<running, coordinatorVars, backendVars, callbackVars, killed, thread, closing,
                       databaseVars, scriptVars, contextVars>>
    PROVE  DInv'
  <1> USE DatabaseAssumption DEF coordinatorVars, databaseVars, callbackVars, scriptVars, contextVars,
          statementVars, backendVars, machineVars
  <1>0. ThreadTypes /\ LockTypes /\ HandleTypes /\ MachineTypes /\ WorkTypes /\ ContextTypes
    BY TypesAre DEF DInv
  <1>2. /\ thread = "loop" /\ running = NoTxn /\ closing = NoDb
        /\ Tail(queue) \in Seq(Task) /\ Distinct(Tail(queue))
        /\ \A j \in Task : j # t => (j \in ToSet(Tail(queue)) <=> Queued(j))
        /\ t \notin ToSet(Tail(queue))
    BY TaskTaken DEF Task
  <1>3. \A u \in Txn : /\ Queued(u)' <=> Queued(u) /\ u # t
                       /\ Posted(u)' <=> Posted(u)
                       /\ Pending(u)' <=> Pending(u)
                       /\ Waiting(u)' <=> Waiting(u)
    BY <1>2 DEF Queued, Posted, Pending, Waiting, Task
  <1>4. ~frontend[t]
    BY <1>0 DEF DInv, Turns, WorkTypes
  <1>5. /\ Active' = Active /\ \A d \in Db : Usable(d)' <=> Usable(d)
        /\ \A d \in Db : Queued(d)' <=> Queued(d)
    BY <1>2 DEF Active, Usable, Queued, Task
  <1>7. /\ ThreadTypes' /\ LockTypes' /\ HandleTypes' /\ MachineTypes' /\ WorkTypes' /\ ContextTypes'
    BY <1>0, <1>2 DEF ThreadTypes, LockTypes, HandleTypes, MachineTypes, WorkTypes, ContextTypes
  <1>8. \A u \in Txn : (UnderWay(u)' => UnderWay(u)) /\ (UnderWay(u) /\ u # t => UnderWay(u)')
    BY <1>3 DEF UnderWay
  <1>9. Tokens'
    BY <1>2, <1>3, <1>4, <1>8 DEF DInv, Tokens
  <1>10. Locks'
    BY <1>3, <1>5 DEF DInv, Locks
  <1>11. Turns'
    BY <1>2, <1>3, <1>5 DEF DInv, Turns
  <1>12. Handles'
    BY <1>3 DEF DInv, Handles
  <1>13. Data'
    BY <1>5 DEF DInv, Data
  <1>14. AtEnd'
    BY <1>2, <1>3 DEF DInv, AtEnd
  <1>15. Closes'
    BY <1>5 DEF DInv, Closes
  <1>16. Budget'
    BY DEF DInv, Budget
  <1>17. Outcomes'
    <2> SUFFICES ASSUME NEW u \in Txn PROVE Outcome(u)'
      BY DEF Outcomes
    <2> QED
      BY <1>3, <1>8, OutcomeStays
  <1> QED
    BY <1>7, <1>9, <1>10, <1>11, <1>12, <1>13, <1>14, <1>15, <1>16, <1>17, TypesAre DEF DInv

(* One that was not is cleaned up: script is told to end, and the lock     *)
(* goes to the next.                                                       *)
LEMMA AbandonKeeps ==
    ASSUME DInv, NEW t \in Txn, AbandonStep(t), next[t] # "End", UNCHANGED <<scriptVars, contextVars>>
    PROVE  DInv'
  <1> USE DatabaseAssumption, StatementAssumption DEF databaseVars, scriptVars, contextVars
  <1>0. ThreadTypes /\ LockTypes /\ HandleTypes /\ MachineTypes /\ WorkTypes /\ ContextTypes
    BY TypesAre DEF DInv
  <1> DEFINE g == GrantedByCleanup({t})
             G == ToSet(g)
  <1>1. /\ Performs(t) /\ ~Usable(DbOf[t]) /\ queue' = Tail(queue) \o g /\ running' = NoTxn
        /\ next' = [next EXCEPT ![t] = "End"]
        /\ scriptRequested' = [scriptRequested EXCEPT ![t] = "End"] /\ posted' = Append(posted, t)
        /\ DoCleanup({t})
        /\ UNCHANGED <<killed, thread, closing, databaseVars, current, retry>>
    BY DEF AbandonStep, Stop, RequestFrontend
  <1>2. /\ thread = "loop" /\ ~killed /\ running = NoTxn /\ closing = NoDb
        /\ Queued(t) /\ Tail(queue) \in Seq(Task) /\ Distinct(Tail(queue))
        /\ \A j \in Task : j # t => (j \in ToSet(Tail(queue)) <=> Queued(j))
        /\ t \notin ToSet(Tail(queue)) /\ t # NoTxn
    BY <1>1, TaskTaken DEF Task
  <1>3. /\ ~Posted(t) /\ ~Pending(t) /\ ~Waiting(t) /\ t \notin unissued /\ frontend[t] /\ ~shuttingDown
    BY <1>0, <1>1, <1>2 DEF DInv, Tokens, Turns, UnderWay, WorkTypes, Locks
  <1>4. /\ Cleaned({t}, g) /\ LockTypes' /\ WorkTypes' /\ Data' /\ Budget'
        /\ requested' \in [Txn -> BackendState \cup {"Idle"}]
    BY <1>1, CleanupCleans
  <1> HIDE DEF g
  <1>5. /\ g \in Seq(Txn) /\ Distinct(g) /\ Distinct(pending') /\ shuttingDown' = shuttingDown
        /\ activeWrite' # NoTxn => activeReads' = {}
        /\ \A u \in G : u \in Txn /\ Pending(u) /\ ~lockAcquired[u] /\ frontend[u]
    BY <1>4 DEF Cleaned
  <1>6. \A u \in Txn :
           /\ Pending(u)' <=> Pending(u) /\ u \notin G
           /\ frontend'[u] <=> frontend[u] /\ u # t
           /\ lockAcquired'[u] <=> lockAcquired[u] \/ u \in G
           /\ u \in Active' <=> (u \in Active /\ u # t) \/ u \in G
           /\ requested'[u] = IF u \in G THEN "OpenTransactionAndPreflight" ELSE requested[u]
           /\ sqlite'[u] = "committed" <=> sqlite[u] = "committed"
    BY <1>3, <1>4 DEF Cleaned
  <1> HIDE DEF G
  <1>7. /\ posted' \in Seq(Txn) /\ Distinct(posted') /\ \A u \in Txn : Posted(u)' <=> Posted(u) \/ u = t
    <2>1. posted \in Seq(Txn) /\ Distinct(posted) /\ t \notin ToSet(posted)
      BY <1>0, <1>3 DEF DInv, Tokens, MachineTypes, Posted
    <2>2. posted' \in Seq(Txn) /\ ToSet(posted') = ToSet(posted) \cup {t} /\ Distinct(posted')
      BY <1>1, <2>1, AppendIs
    <2> QED
      BY <2>2 DEF Posted
  <1>8. \A u \in G : ~Queued(u) /\ ~Posted(u) /\ ~Waiting(u) /\ u # t
    BY <1>3, <1>5 DEF DInv, Tokens
  <1>9. /\ queue' \in Seq(Task) /\ Distinct(queue')
        /\ \A k \in Task : Queued(k)' <=> (Queued(k) /\ (k # t)) \/ k \in G \/ (k \in Db /\ Queued(k))
    <2>1. g \in Seq(Task) /\ ToSet(g) = G
      BY <1>5, WiderIs DEF G
    <2>2. ToSet(Tail(queue)) \cap ToSet(g) \cap Txn = {}
      BY <1>2, <1>8, <2>1 DEF Task
    <2>3. queue' \in Seq(Task) /\ Distinct(queue') /\ ToSet(queue') = ToSet(Tail(queue)) \cup G
      BY <1>1, <1>2, <1>5, <2>1, <2>2, ConcatIs
    <2> QED
      BY <1>2, <2>3 DEF Queued
  <1>10. \A u \in Txn : /\ Queued(u)' <=> (Queued(u) /\ u # t) \/ u \in G
                        /\ Waiting(u)' <=> Waiting(u)
    BY <1>1, <1>9 DEF Waiting, Task
  <1>11. /\ \A d \in Db : Usable(d)' <=> Usable(d)
         /\ \A d \in Db : Queued(d)' <=> Queued(d)
    <2>1. \A d \in Db : d \in Task /\ d # t /\ d \notin G
      BY <1>5 DEF Task
    <2> QED
      BY <1>1, <1>9, <2>1 DEF Usable
  <1>12. /\ next' \in [Txn -> BackendState \cup {"Idle", "End"}] /\ next'[t] = "End"
         /\ scriptRequested' \in [Txn -> FrontendState \cup {"Idle", "End"}] /\ scriptRequested'[t] = "End"
         /\ \A u \in Txn : u # t => next'[u] = next[u] /\ scriptRequested'[u] = scriptRequested[u]
    BY <1>0, <1>1 DEF MachineTypes
  <1>13. ThreadTypes' /\ LockTypes' /\ HandleTypes' /\ MachineTypes' /\ WorkTypes' /\ ContextTypes'
    <2>1. ThreadTypes' /\ HandleTypes' /\ ContextTypes'
      BY <1>0, <1>1, <1>9 DEF ThreadTypes, HandleTypes, ContextTypes
    <2>2. MachineTypes'
      BY <1>4, <1>7, <1>12 DEF MachineTypes
    <2> QED
      BY <1>4, <2>1, <2>2
  <1>14. \A u \in Txn : UnderWay(u)' <=> UnderWay(u)
    BY <1>1, <1>2, <1>5, <1>6, <1>7, <1>10 DEF UnderWay
  <1>15. Tokens'
    BY <1>1, <1>2, <1>3, <1>5, <1>6, <1>7, <1>8, <1>9, <1>10, <1>14 DEF DInv, Tokens
  <1>16. Locks'
    <2>1. /\ ~shuttingDown' /\ thread' = "loop" /\ (activeWrite' # NoTxn => activeReads' = {})
      BY <1>1, <1>2, <1>3, <1>5
    <2>2. ASSUME NEW u \in Txn
          PROVE  /\ u \in Active' <=> frontend'[u] /\ lockAcquired'[u]
                 /\ Pending(u)' => ~lockAcquired'[u] /\ frontend'[u]
                 /\ Waiting(u)' => ~lockAcquired'[u] /\ frontend'[u]
                 /\ u \in unissued' => ~lockAcquired'[u]
      <3>1. /\ u \in Active <=> frontend[u] /\ lockAcquired[u]
            /\ Pending(u) => ~lockAcquired[u] /\ frontend[u] /\ u # t
            /\ Waiting(u) => ~lockAcquired[u] /\ frontend[u] /\ u # t /\ ~Pending(u)
            /\ u \in unissued => ~lockAcquired[u] /\ ~Pending(u)
        BY <1>3 DEF DInv, Locks, Tokens, UnderWay
      <3>2. u \in G => Pending(u) /\ frontend[u] /\ u # t
        BY <1>5, <1>8
      <3> QED
        BY <1>6, <1>10, <3>1, <3>2
    <2> QED
      BY <2>1, <2>2 DEF Locks
  <1>17. Turns'
    <2>1. /\ closing' = NoDb /\ running' = NoTxn /\ thread' = "loop"
      BY <1>1, <1>2
    <2>2. ASSUME NEW u \in Txn
          PROVE  /\ next'[u] \in {"Idle", "End"}
                 /\ frontend'[u] \/ u \in unissued' => next'[u] # "End"
                 /\ Queued(u)' /\ frontend'[u] =>
                       /\ requested'[u] \in BackendState
                       /\ requested'[u] = "AcquireLock" <=> ~lockAcquired'[u]
                 /\ Posted(u)' /\ frontend'[u] => lockAcquired'[u]
                 /\ Waiting(u)' \/ u \in unissued' => requested'[u] = "AcquireLock"
                 /\ ~frontend'[u] /\ (Queued(u)' \/ Posted(u)') => next'[u] = "End" /\ ~Usable(DbOf[u])'
      <3>1. /\ next[u] \in {"Idle", "End"}
            /\ frontend[u] \/ u \in unissued => next[u] # "End"
            /\ Queued(u) /\ frontend[u] =>
                  requested[u] \in BackendState /\ (requested[u] = "AcquireLock" <=> ~lockAcquired[u])
            /\ Posted(u) /\ frontend[u] => lockAcquired[u]
            /\ Waiting(u) \/ u \in unissued => requested[u] = "AcquireLock"
            /\ ~frontend[u] /\ (Queued(u) \/ Posted(u)) => next[u] = "End" /\ ~Usable(DbOf[u])
        BY <1>2 DEF DInv, Turns
      <3>2. /\ u \in G => ~Queued(u) /\ ~Posted(u) /\ ~Waiting(u) /\ u # t /\ u \notin unissued /\ frontend[u]
            /\ u = t => u \notin unissued /\ ~Waiting(u) /\ ~Usable(DbOf[u])
        BY <1>1, <1>3, <1>5, <1>8 DEF DInv, Tokens, UnderWay
      <3>3. "OpenTransactionAndPreflight" \in BackendState /\ unissued' = unissued /\ DbOf[u] \in Db
        BY DEF BackendState
      <3>4. CASE u \in G
        BY <1>6, <1>7, <1>10, <1>12, <3>1, <3>2, <3>3, <3>4
      <3>5. CASE u = t
        BY <1>6, <1>7, <1>10, <1>11, <1>12, <3>2, <3>3, <3>5
      <3>6. CASE u \notin G /\ u # t
        BY <1>6, <1>7, <1>10, <1>11, <1>12, <3>1, <3>3, <3>6
      <3> QED
        BY <3>4, <3>5, <3>6
    <2>3. \A u \in Txn : running' # u
      BY <2>1
    <2> QED
      BY <2>1, <2>2, <2>3 DEF Turns
  <1>18. Handles'
    BY <1>1, <1>6, <1>10 DEF DInv, Handles
  <1>20. AtEnd'
    BY <1>1, <1>2, <1>6, <1>10 DEF DInv, AtEnd
  <1>21. Closes'
    BY <1>1, <1>11 DEF DInv, Closes
  <1>23. Outcomes'
    <2>1. ASSUME NEW u \in Txn, u # t, u \notin G PROVE Outcome(u)'
      BY <1>1, <1>6, <1>10, <1>12, <1>14, <2>1, OutcomeStays
    <2>2. ASSUME NEW u \in Txn, u \in G PROVE Outcome(u)'
      <3>1. Outcome(u) /\ Pending(u) /\ ~lockAcquired[u] /\ u # t
        BY <1>5, <1>8, <2>2 DEF DInv, Outcomes
      <3> QED
        BY <1>6, <1>12, <3>1 DEF Outcome
    <2>3. Outcome(t)'
      <3>1. Outcome(t) /\ UnderWay(t) /\ t \notin G
        BY <1>2, <1>8 DEF DInv, Outcomes, UnderWay
      <3> QED
        BY <1>3, <1>6, <1>10, <1>12, <3>1 DEF Outcome
    <2> QED
      BY <2>1, <2>2, <2>3 DEF Outcomes
  <1> QED
    BY <1>4, <1>13, <1>15, <1>16, <1>17, <1>18, <1>20, <1>21, <1>23, TypesAre DEF DInv

(* acquireLock of a transaction that was not pending.                      *)
LEMMA AcquireIs ==
    ASSUME DInv, NEW t \in Txn, ~Pending(t), CoordinatorAcquireLock(t), NEW g, g = GrantedByAcquire(t)
    PROVE  /\ g \in Seq(Txn) /\ Distinct(g)
           /\ pending' \in Seq(Txn) /\ Distinct(pending')
           /\ \A u \in Txn : Pending(u)' <=> (Pending(u) \/ u = t) /\ u \notin ToSet(g)
           /\ \A u \in ToSet(g) : u \in Txn /\ (Pending(u) \/ u = t)
           /\ activeReads' \subseteq ReadOnly /\ activeWrite' \in (Txn \ ReadOnly) \cup {NoTxn}
           /\ activeWrite' # NoTxn => activeReads' = {}
           /\ Active' = Active \cup ToSet(g)
           /\ activeWrite # NoTxn => activeWrite' = activeWrite
           /\ shuttingDown' = shuttingDown
  <1> USE DatabaseAssumption, ReadOnlyAssumption
  <1> DEFINE p == Append(pending, t)
  <1>1. /\ pending \in Seq(Txn) /\ Distinct(pending) /\ t \notin ToSet(pending)
        /\ activeReads \in SUBSET ReadOnly /\ activeWrite \in (Txn \ ReadOnly) \cup {NoTxn}
        /\ activeWrite # NoTxn => activeReads = {}
    BY DEF DInv, TypeOK, Tokens, Locks, Pending
  <1>2. p \in Seq(Txn) /\ Distinct(p) /\ ToSet(p) = ToSet(pending) \cup {t}
    BY <1>1, AppendIs
  <1>3. ProcessPendingTransactions(p, activeReads, activeWrite) /\ g = Granted(p, activeReads, activeWrite)
    BY DEF CoordinatorAcquireLock, GrantedByAcquire
  <1> HIDE DEF p
  <1>4. /\ g \in Seq(Txn) /\ Distinct(g) /\ ToSet(g) \subseteq ToSet(p)
        /\ pending' \in Seq(Txn) /\ Distinct(pending')
        /\ ToSet(pending') = ToSet(p) \ ToSet(g)
        /\ activeReads' \subseteq ReadOnly /\ activeWrite' \in (Txn \ ReadOnly) \cup {NoTxn}
        /\ activeWrite' # NoTxn => activeReads' = {}
        /\ Active' = activeReads \cup ({activeWrite} \ {NoTxn}) \cup ToSet(g)
        /\ activeWrite # NoTxn => activeWrite' = activeWrite
        /\ shuttingDown' = shuttingDown
    BY <1>1, <1>2, <1>3, ProcessIs
  <1>5. \A u \in ToSet(g) : u \in Txn
    BY <1>4, WiderIs
  <1> QED
    BY <1>2, <1>4, <1>5 DEF Pending, Active

LEMMA AcquireLockKeeps ==
    ASSUME DInv, NEW t \in Txn, AcquireLock(t), UNCHANGED <<scriptVars, contextVars>>
    PROVE  DInv'
  <1> USE DatabaseAssumption, ReadOnlyAssumption
      DEF databaseVars, callbackVars, scriptVars, contextVars, statementVars
  <1>0. ThreadTypes /\ LockTypes /\ HandleTypes /\ MachineTypes /\ WorkTypes /\ ContextTypes
    BY TypesAre DEF DInv
  <1> DEFINE g == GrantedByAcquire(t)
             G == ToSet(g)
  <1>1. /\ running = t /\ next[t] = "AcquireLock" /\ running' = NoTxn /\ next' = [next EXCEPT ![t] = "Idle"]
        /\ queue' = queue \o g
        /\ lockAcquired' = [u \in Txn |-> lockAcquired[u] \/ u \in G]
        /\ requested' = [u \in Txn |-> IF u \in G THEN "OpenTransactionAndPreflight" ELSE requested[u]]
        /\ UNCHANGED <<killed, thread, closing, databaseVars, frontend, originLock, sqlite,
                       statementVars, callbackVars>>
    BY DEF AcquireLock, Runs, Stop, Scheduled, LockAcquired
  <1>2. /\ thread = "loop" /\ closing = NoDb /\ frontend[t] /\ ~lockAcquired[t] /\ t # NoTxn
        /\ ~Queued(t) /\ ~Posted(t) /\ ~Pending(t) /\ ~Waiting(t) /\ t \notin unissued /\ ~shuttingDown
    BY <1>0, <1>1 DEF DInv, Tokens, Turns, UnderWay, WorkTypes, Locks
  <1>3. /\ g \in Seq(Txn) /\ Distinct(g)
        /\ pending' \in Seq(Txn) /\ Distinct(pending')
        /\ \A u \in Txn : Pending(u)' <=> (Pending(u) \/ u = t) /\ u \notin G
        /\ \A u \in G : u \in Txn /\ (Pending(u) \/ u = t)
        /\ activeReads' \subseteq ReadOnly /\ activeWrite' \in (Txn \ ReadOnly) \cup {NoTxn}
        /\ activeWrite' # NoTxn => activeReads' = {}
        /\ Active' = Active \cup G
        /\ activeWrite # NoTxn => activeWrite' = activeWrite
        /\ shuttingDown' = shuttingDown
    <2>1. CoordinatorAcquireLock(t)
      BY DEF AcquireLock
    <2> HIDE DEF g
    <2> QED
      BY <1>2, <2>1, AcquireIs DEF g
  <1> HIDE DEF g, G
  <1>4. \A u \in G : ~lockAcquired[u] /\ frontend[u]
    BY <1>2, <1>3 DEF DInv, Locks
  <1>5. \A u \in Txn : /\ lockAcquired'[u] <=> lockAcquired[u] \/ u \in G
                       /\ requested'[u] = IF u \in G THEN "OpenTransactionAndPreflight" ELSE requested[u]
    BY <1>1
  <1>6. \A u \in G : ~Queued(u) /\ ~Posted(u) /\ ~Waiting(u) /\ u \notin unissued
    BY <1>2, <1>3 DEF DInv, Tokens, UnderWay
  <1>7. /\ queue' \in Seq(Task) /\ Distinct(queue') /\ \A k \in Task : Queued(k)' <=> Queued(k) \/ k \in G
    <2>1. g \in Seq(Task) /\ ToSet(g) = G /\ queue \in Seq(Task) /\ Distinct(queue)
      BY <1>0, <1>3, WiderIs DEF G, DInv, Tokens, ThreadTypes
    <2>2. ToSet(queue) \cap ToSet(g) \cap Txn = {}
      BY <1>6, <2>1 DEF Queued
    <2>3. queue' \in Seq(Task) /\ Distinct(queue') /\ ToSet(queue') = ToSet(queue) \cup G
      BY <1>1, <1>3, <2>1, <2>2, ConcatIs
    <2> QED
      BY <2>3 DEF Queued
  <1>8. \A u \in Txn : /\ Queued(u)' <=> Queued(u) \/ u \in G
                       /\ Posted(u)' <=> Posted(u)
                       /\ Waiting(u)' <=> Waiting(u)
    BY <1>1, <1>7 DEF Waiting, Posted, Task
  <1>9. \A d \in Db : (Usable(d)' <=> Usable(d)) /\ (Queued(d)' <=> Queued(d))
    <2>1. \A d \in Db : d \in Task /\ d \notin G
      BY <1>3 DEF Task
    <2> QED
      BY <1>1, <1>7, <2>1 DEF Usable
  <1>10. /\ next'[t] = "Idle" /\ \A u \in Txn : u # t => next'[u] = next[u]
    BY <1>0, <1>1 DEF MachineTypes
  <1>11. /\ ThreadTypes' /\ LockTypes' /\ HandleTypes' /\ MachineTypes' /\ WorkTypes' /\ ContextTypes'
    <2>1. ThreadTypes' /\ LockTypes' /\ HandleTypes' /\ ContextTypes'
      BY <1>0, <1>1, <1>3, <1>7 DEF ThreadTypes, LockTypes, HandleTypes, ContextTypes
    <2>2. MachineTypes'
      BY <1>0, <1>1 DEF MachineTypes, BackendState
    <2>3. lockAcquired' \in [Txn -> BOOLEAN]
      BY <1>1, Zenon
    <2> QED
      BY <1>0, <1>1, <2>1, <2>2, <2>3 DEF WorkTypes
  <1>12. \A u \in Txn : UnderWay(u)' <=> UnderWay(u)
    BY <1>1, <1>2, <1>3, <1>8 DEF UnderWay
  <1>13. Tokens'
    BY <1>1, <1>2, <1>3, <1>6, <1>7, <1>8, <1>12 DEF DInv, Tokens
  <1>14. Locks'
    <2>1. ~shuttingDown' /\ thread' = "loop" /\ (activeWrite' # NoTxn => activeReads' = {})
      BY <1>1, <1>2, <1>3
    <2>2. ASSUME NEW u \in Txn
          PROVE  /\ u \in Active' <=> frontend'[u] /\ lockAcquired'[u]
                 /\ Pending(u)' => ~lockAcquired'[u] /\ frontend'[u]
                 /\ Waiting(u)' => ~lockAcquired'[u] /\ frontend'[u]
                 /\ u \in unissued' => ~lockAcquired'[u]
      <3>1. /\ u \in Active <=> frontend[u] /\ lockAcquired[u]
            /\ Pending(u) => ~lockAcquired[u] /\ frontend[u]
            /\ Waiting(u) => ~lockAcquired[u] /\ frontend[u]
            /\ u \in unissued => ~lockAcquired[u]
        BY <1>2 DEF DInv, Locks
      <3> QED
        BY <1>1, <1>2, <1>3, <1>4, <1>5, <1>6, <1>8, <3>1
    <2> QED
      BY <2>1, <2>2 DEF Locks
  <1>15. Turns'
    <2>1. closing' = NoDb /\ running' = NoTxn /\ thread' = "loop"
      BY <1>1, <1>2
    <2>2. ASSUME NEW u \in Txn
          PROVE  /\ next'[u] \in {"Idle", "End"}
                 /\ frontend'[u] \/ u \in unissued' => next'[u] # "End"
                 /\ Queued(u)' /\ frontend'[u] =>
                       /\ requested'[u] \in BackendState
                       /\ requested'[u] = "AcquireLock" <=> ~lockAcquired'[u]
                 /\ Posted(u)' /\ frontend'[u] => lockAcquired'[u]
                 /\ Waiting(u)' \/ u \in unissued' => requested'[u] = "AcquireLock"
                 /\ ~frontend'[u] /\ (Queued(u)' \/ Posted(u)') => next'[u] = "End" /\ ~Usable(DbOf[u])'
      <3>1. /\ u # t => next[u] \in {"Idle", "End"}
            /\ frontend[u] \/ u \in unissued => next[u] # "End"
            /\ Queued(u) /\ frontend[u] =>
                  requested[u] \in BackendState /\ (requested[u] = "AcquireLock" <=> ~lockAcquired[u])
            /\ Posted(u) /\ frontend[u] => lockAcquired[u]
            /\ Waiting(u) \/ u \in unissued => requested[u] = "AcquireLock"
            /\ ~frontend[u] /\ (Queued(u) \/ Posted(u)) => next[u] = "End" /\ ~Usable(DbOf[u])
        BY <1>1, <1>2 DEF DInv, Turns
      <3>2. "OpenTransactionAndPreflight" \in BackendState /\ unissued' = unissued /\ DbOf[u] \in Db
            /\ frontend' = frontend
        BY <1>1 DEF BackendState
      <3>3. CASE u \in G
        BY <1>4, <1>5, <1>6, <1>8, <1>10, <3>1, <3>2, <3>3
      <3>4. CASE u \notin G
        BY <1>2, <1>5, <1>8, <1>9, <1>10, <3>1, <3>2, <3>4
      <3> QED
        BY <3>3, <3>4
    <2>3. \A u \in Txn : running' # u
      BY <2>1
    <2> QED
      BY <2>1, <2>2, <2>3 DEF Turns
  <1>16. Handles'
    BY <1>1, <1>8 DEF DInv, Handles
  <1>17. Data'
    BY <1>1, <1>3 DEF DInv, Data
  <1>18. AtEnd'
    BY <1>1, <1>2, <1>5, <1>8 DEF DInv, AtEnd
  <1>19. Closes'
    BY <1>1, <1>2, <1>9 DEF DInv, Closes
  <1>20. Budget'
    BY <1>1 DEF DInv, Budget
  <1>21. Outcomes'
    <2>1. ASSUME NEW u \in Txn, u # t, u \notin G PROVE Outcome(u)'
      BY <1>1, <1>3, <1>5, <1>8, <1>10, <1>12, <2>1, OutcomeStays
    <2>2. ASSUME NEW u \in Txn, u \in G \/ u = t PROVE Outcome(u)'
      <3>1. Outcome(u) /\ ~lockAcquired[u] /\ (Pending(u) \/ next[u] = "AcquireLock")
        BY <1>1, <1>2, <1>3, <1>4, <2>2 DEF DInv, Outcomes
      <3>2. sqlite'[u] # "committed" /\ told'[u] \notin {"success", "error"}
            /\ scriptRequested'[u] # "DeliverSuccessCallback"
            /\ (u \in unissued' => scriptRequested'[u] = "Idle")
        BY <1>1, <3>1 DEF Outcome
      <3> QED
        BY <3>2 DEF Outcome
    <2> QED
      BY <2>1, <2>2 DEF Outcomes
  <1> QED
    BY <1>11, <1>13, <1>14, <1>15, <1>16, <1>17, <1>18, <1>19, <1>20, <1>21, TypesAre DEF DInv

-----------------------------------------------------------------------------
(* scheduleTransaction of handle d, when q waits: s is what becomes a      *)
(* task.                                                                   *)
LEMMA ScheduleIs ==
    ASSUME HandleTypes, NEW d \in Db, NEW q \in Seq(Txn), Distinct(q), ScheduleTransaction(d, q),
           NEW s, s = ScheduledTransaction(d, q)
    PROVE  /\ s \in Seq(Txn) /\ Distinct(s)
           /\ transactionQueue' \in [Db -> Seq(Txn)] /\ inProgress' \in [Db -> BOOLEAN]
           /\ \A e \in Db : e # d => transactionQueue'[e] = transactionQueue[e] /\ inProgress'[e] = inProgress[e]
           /\ Distinct(transactionQueue'[d])
           /\ ToSet(q) = ToSet(s) \cup ToSet(transactionQueue'[d])
           /\ ToSet(s) \cap ToSet(transactionQueue'[d]) = {}
           /\ \/ inProgress'[d] /\ queueEnabled[d] /\ q # <<>> /\ ToSet(s) = {Head(q)}
              \/ ~inProgress'[d] /\ (queueEnabled[d] => q = <<>>) /\ ToSet(s) = {} /\ transactionQueue'[d] = q
  <1> DEFINE r == SubSeq(q, Len(s) + 1, Len(q))
  <1>1. /\ transactionQueue' = [transactionQueue EXCEPT ![d] = r]
        /\ inProgress' = [inProgress EXCEPT ![d] = s # <<>>]
    BY DEF ScheduleTransaction
  <1>2. CASE queueEnabled[d] /\ q # <<>>
    <2>1. s = <<Head(q)>> /\ Head(q) \in Txn /\ Head(q) = q[1] /\ Len(q) \in Nat \ {0}
      BY <1>2 DEF ScheduledTransaction
    <2>2. /\ s \in Seq(Txn) /\ s # <<>> /\ ToSet(s) = {Head(q)} /\ Len(s) <= Len(q)
          /\ \A i \in 1 .. Len(s) : s[i] = q[i]
      BY <2>1, OneIs DEF Task
    <2>3. /\ r \in Seq(Txn) /\ Distinct(r) /\ Distinct(s) /\ ToSet(q) = ToSet(s) \cup ToSet(r)
          /\ ToSet(s) \cap ToSet(r) = {}
      BY <2>2, RestIs
    <2> HIDE DEF r
    <2>4. transactionQueue'[d] = r /\ inProgress'[d]
      BY <1>1, <2>2 DEF HandleTypes
    <2> QED
      BY <1>1, <1>2, <2>2, <2>3, <2>4 DEF HandleTypes
  <1>3. CASE ~(queueEnabled[d] /\ q # <<>>)
    <2>1. s = <<>> /\ s \in Seq(Txn) /\ ToSet(s) = {} /\ Distinct(s)
      BY <1>3, NoneIs DEF ScheduledTransaction
    <2>2. Len(s) = 0 /\ r = q
      BY <2>1
    <2> HIDE DEF r
    <2>3. transactionQueue'[d] = q /\ ~inProgress'[d]
      BY <1>1, <2>1, <2>2 DEF HandleTypes
    <2> QED
      BY <1>1, <1>3, <2>1, <2>2, <2>3 DEF HandleTypes
  <1> QED
    BY <1>2, <1>3

(* A transaction ends: the lock goes to the next ones, and the next one of *)
(* the handle starts.                                                      *)
LEMMA TerminateKeeps ==
    ASSUME DInv, NEW t \in Txn, CleanupAndTerminate(t), UNCHANGED <<scriptVars, contextVars>>
    PROVE  DInv'
  <1> USE DatabaseAssumption DEF callbackVars, scriptVars, contextVars
  <1>0. ThreadTypes /\ LockTypes /\ HandleTypes /\ MachineTypes /\ WorkTypes /\ ContextTypes
    BY TypesAre DEF DInv
  <1> DEFINE d == DbOf[t]
             q == transactionQueue[d]
             g == GrantedByCleanup({t})
             G == ToSet(g)
             s == ScheduledTransaction(d, q)
             S == ToSet(s)
  <1>1. /\ running = t /\ next[t] = "CleanupAndTerminate" /\ running' = NoTxn
        /\ next' = [next EXCEPT ![t] = "End"] /\ queue' = queue \o (g \o s)
        /\ DoCleanup({t}) /\ ScheduleTransaction(d, q)
        /\ UNCHANGED <<killed, thread, closing, opened, interrupted, deleted, queueEnabled,
                       current, retry, posted, scriptRequested>>
    BY DEF CleanupAndTerminate, Runs, Stop, Scheduled
  <1>2. /\ thread = "loop" /\ closing = NoDb /\ frontend[t] /\ lockAcquired[t] /\ t # NoTxn
        /\ ~Queued(t) /\ ~Posted(t) /\ ~Pending(t) /\ ~Waiting(t) /\ t \notin unissued /\ ~shuttingDown
    BY <1>0, <1>1 DEF DInv, Tokens, Turns, UnderWay, WorkTypes, Locks
  <1>3. /\ Cleaned({t}, g) /\ LockTypes' /\ WorkTypes' /\ Data' /\ Budget'
        /\ requested' \in [Txn -> BackendState \cup {"Idle"}]
    BY <1>1, CleanupCleans
  <1>4. d \in Db /\ q \in Seq(Txn) /\ Distinct(q) /\ \A u \in ToSet(q) : u \in Txn /\ DbOf[u] = d /\ Waiting(u)
    <2>1. d \in Db
      OBVIOUS
    <2>2. q \in Seq(Txn) /\ Distinct(q) /\ \A u \in ToSet(q) : DbOf[u] = d
      BY <1>0, <2>1 DEF DInv, Tokens, HandleTypes
    <2>3. \A u \in ToSet(q) : u \in Txn
      BY <2>2, WiderIs
    <2> QED
      BY <2>1, <2>2, <2>3 DEF Waiting
  <1>5. /\ s \in Seq(Txn) /\ Distinct(s)
        /\ transactionQueue' \in [Db -> Seq(Txn)] /\ inProgress' \in [Db -> BOOLEAN]
        /\ \A e \in Db : e # d => transactionQueue'[e] = transactionQueue[e] /\ inProgress'[e] = inProgress[e]
        /\ Distinct(transactionQueue'[d])
        /\ ToSet(q) = S \cup ToSet(transactionQueue'[d])
        /\ S \cap ToSet(transactionQueue'[d]) = {}
        /\ \/ inProgress'[d] /\ queueEnabled[d] /\ q # <<>> /\ S = {Head(q)}
           \/ ~inProgress'[d] /\ (queueEnabled[d] => q = <<>>) /\ S = {} /\ transactionQueue'[d] = q
    <2> HIDE DEF d, q
    <2> QED
      BY <1>0, <1>1, <1>4, ScheduleIs
  <1> HIDE DEF g, s, q
  <1>6. /\ g \in Seq(Txn) /\ Distinct(g) /\ Distinct(pending') /\ shuttingDown' = shuttingDown
        /\ activeWrite' # NoTxn => activeReads' = {}
        /\ \A u \in G : u \in Txn /\ Pending(u) /\ ~lockAcquired[u] /\ frontend[u]
    BY <1>3 DEF Cleaned
  <1>7. \A u \in Txn :
           /\ Pending(u)' <=> Pending(u) /\ u \notin G
           /\ frontend'[u] <=> frontend[u] /\ u # t
           /\ lockAcquired'[u] <=> lockAcquired[u] \/ u \in G
           /\ u \in Active' <=> (u \in Active /\ u # t) \/ u \in G
           /\ requested'[u] = IF u \in G THEN "OpenTransactionAndPreflight" ELSE requested[u]
           /\ sqlite'[u] = "committed" <=> sqlite[u] = "committed"
    BY <1>2, <1>3 DEF Cleaned
  <1>8. \A u \in G : ~Queued(u) /\ ~Posted(u) /\ ~Waiting(u) /\ u # t /\ u \notin unissued
    BY <1>2, <1>6 DEF DInv, Tokens, UnderWay
  <1>9. \A u \in S : /\ u \in Txn /\ DbOf[u] = d /\ Waiting(u) /\ ~lockAcquired[u] /\ frontend[u]
                     /\ requested[u] = "AcquireLock" /\ queueEnabled[d]
                     /\ ~Queued(u) /\ ~Posted(u) /\ ~Pending(u) /\ u # t /\ u \notin unissued
    BY <1>2, <1>4, <1>5 DEF DInv, Tokens, UnderWay, Locks, Turns
  <1> HIDE DEF G, S
  <1>10. \A u \in Txn : Waiting(u)' <=> Waiting(u) /\ u \notin S
    <2>1. ASSUME NEW u \in Txn, DbOf[u] = d PROVE Waiting(u)' <=> Waiting(u) /\ u \notin S
      BY <1>5, <2>1 DEF Waiting, q
    <2>2. ASSUME NEW u \in Txn, DbOf[u] # d PROVE Waiting(u)' <=> Waiting(u) /\ u \notin S
      <3>1. DbOf[u] \in Db /\ u \notin S
        BY <1>9, <2>2
      <3> QED
        BY <1>5, <2>2, <3>1 DEF Waiting
    <2> QED
      BY <2>1, <2>2
  <1>11. /\ queue' \in Seq(Task) /\ Distinct(queue')
         /\ \A k \in Task : Queued(k)' <=> Queued(k) \/ k \in G \/ k \in S
    <2>1. /\ g \in Seq(Task) /\ ToSet(g) = G /\ s \in Seq(Task) /\ ToSet(s) = S
          /\ queue \in Seq(Task) /\ Distinct(queue)
      BY <1>0, <1>5, <1>6, WiderIs DEF G, S, DInv, Tokens, ThreadTypes
    <2>2. G \cap S = {} /\ ToSet(queue) \cap (G \cup S) = {}
      BY <1>6, <1>8, <1>9 DEF Queued
    <2> DEFINE b == g \o s
    <2>3. b \in Seq(Task) /\ Distinct(b) /\ ToSet(b) = G \cup S
      BY <1>5, <1>6, <2>1, <2>2, ConcatIs
    <2>4. queue' = queue \o b
      BY <1>1
    <2> HIDE DEF b
    <2>5. ToSet(queue) \cap ToSet(b) \cap Txn = {}
      BY <2>2, <2>3
    <2>6. queue' \in Seq(Task) /\ Distinct(queue') /\ ToSet(queue') = ToSet(queue) \cup ToSet(b)
      BY <2>1, <2>3, <2>4, <2>5, ConcatIs
    <2> QED
      BY <2>3, <2>6 DEF Queued
  <1>12. \A u \in Txn : /\ Queued(u)' <=> Queued(u) \/ u \in G \/ u \in S
                        /\ Posted(u)' <=> Posted(u)
    BY <1>1, <1>11 DEF Posted, Task
  <1>13. \A e \in Db : (Usable(e)' <=> Usable(e)) /\ (Queued(e)' <=> Queued(e))
    <2>1. \A e \in Db : e \in Task /\ e \notin G /\ e \notin S
      BY <1>6, <1>9 DEF Task
    <2> QED
      BY <1>1, <1>11, <2>1 DEF Usable
  <1>14. /\ next' \in [Txn -> BackendState \cup {"Idle", "End"}] /\ next'[t] = "End"
         /\ \A u \in Txn : u # t => next'[u] = next[u]
    BY <1>0, <1>1 DEF MachineTypes
  <1>15. ThreadTypes' /\ HandleTypes' /\ MachineTypes' /\ ContextTypes'
    BY <1>0, <1>1, <1>3, <1>5, <1>11, <1>14 DEF ThreadTypes, HandleTypes, MachineTypes, ContextTypes
  <1>16. \A u \in Txn : (UnderWay(u)' => UnderWay(u)) /\ (u # t /\ UnderWay(u) => UnderWay(u)')
    BY <1>1, <1>2, <1>6, <1>7, <1>9, <1>10, <1>12 DEF UnderWay
  <1>17. Tokens'
    <2>1. ASSUME NEW e \in Db
          PROVE  /\ Distinct(transactionQueue'[e])
                 /\ \A u \in ToSet(transactionQueue'[e]) : DbOf[u] = e
      <3>1. CASE e = d
        BY <1>4, <1>5, <3>1
      <3>2. CASE e # d
        BY <1>5, <3>2 DEF DInv, Tokens
      <3> QED
        BY <3>1, <3>2
    <2>2. ASSUME NEW u \in Txn
          PROVE  /\ Queued(u)' => ~Posted(u)' /\ ~Pending(u)' /\ ~Waiting(u)' /\ running' # u
                 /\ Posted(u)' => ~Pending(u)' /\ ~Waiting(u)' /\ running' # u
                 /\ Pending(u)' => ~Waiting(u)' /\ running' # u
                 /\ Waiting(u)' => running' # u
                 /\ u \in unissued' => ~frontend'[u] /\ ~UnderWay(u)'
                 /\ frontend'[u] /\ thread' = "loop" => UnderWay(u)'
      <3>1. /\ Queued(u) => ~Posted(u) /\ ~Pending(u) /\ ~Waiting(u)
            /\ Posted(u) => ~Pending(u) /\ ~Waiting(u)
            /\ Pending(u) => ~Waiting(u)
            /\ u \in unissued => ~frontend[u] /\ ~UnderWay(u)
            /\ frontend[u] => UnderWay(u)
        BY <1>2 DEF DInv, Tokens
      <3> QED
        BY <1>1, <1>7, <1>8, <1>9, <1>10, <1>12, <1>16, <3>1
    <2>3. Distinct(posted')
      BY <1>1 DEF DInv, Tokens
    <2> QED
      BY <1>6, <1>11, <2>1, <2>2, <2>3 DEF Tokens
  <1>18. Locks'
    <2>1. ~shuttingDown' /\ thread' = "loop" /\ (activeWrite' # NoTxn => activeReads' = {})
      BY <1>1, <1>2, <1>6
    <2>2. ASSUME NEW u \in Txn
          PROVE  /\ u \in Active' <=> frontend'[u] /\ lockAcquired'[u]
                 /\ Pending(u)' => ~lockAcquired'[u] /\ frontend'[u]
                 /\ Waiting(u)' => ~lockAcquired'[u] /\ frontend'[u]
                 /\ u \in unissued' => ~lockAcquired'[u]
      <3>1. /\ u \in Active <=> frontend[u] /\ lockAcquired[u]
            /\ Pending(u) => ~lockAcquired[u] /\ frontend[u] /\ u # t
            /\ Waiting(u) => ~lockAcquired[u] /\ frontend[u] /\ u # t
            /\ u \in unissued => ~lockAcquired[u]
        BY <1>2 DEF DInv, Locks
      <3> QED
        BY <1>6, <1>7, <1>8, <1>10, <3>1
    <2> QED
      BY <2>1, <2>2 DEF Locks
  <1>19. Turns'
    <2>1. closing' = NoDb /\ running' = NoTxn /\ thread' = "loop"
      BY <1>1, <1>2
    <2>2. ASSUME NEW u \in Txn
          PROVE  /\ next'[u] \in {"Idle", "End"}
                 /\ frontend'[u] \/ u \in unissued' => next'[u] # "End"
                 /\ Queued(u)' /\ frontend'[u] =>
                       /\ requested'[u] \in BackendState
                       /\ requested'[u] = "AcquireLock" <=> ~lockAcquired'[u]
                 /\ Posted(u)' /\ frontend'[u] => lockAcquired'[u]
                 /\ Waiting(u)' \/ u \in unissued' => requested'[u] = "AcquireLock"
                 /\ ~frontend'[u] /\ (Queued(u)' \/ Posted(u)') => next'[u] = "End" /\ ~Usable(DbOf[u])'
      <3>1. /\ u # t => next[u] \in {"Idle", "End"}
            /\ frontend[u] \/ u \in unissued => next[u] # "End"
            /\ Queued(u) /\ frontend[u] =>
                  requested[u] \in BackendState /\ (requested[u] = "AcquireLock" <=> ~lockAcquired[u])
            /\ Posted(u) /\ frontend[u] => lockAcquired[u]
            /\ Waiting(u) \/ u \in unissued => requested[u] = "AcquireLock"
            /\ ~frontend[u] /\ (Queued(u) \/ Posted(u)) => next[u] = "End" /\ ~Usable(DbOf[u])
        BY <1>1, <1>2 DEF DInv, Turns
      <3>2. {"OpenTransactionAndPreflight", "AcquireLock"} \subseteq BackendState
            /\ unissued' = unissued /\ DbOf[u] \in Db
        BY DEF BackendState
      <3>3. CASE u \in G
        BY <1>6, <1>7, <1>8, <1>9, <1>10, <1>12, <1>14, <3>1, <3>2, <3>3
      <3>4. CASE u \in S
        BY <1>7, <1>8, <1>9, <1>10, <1>12, <1>14, <3>1, <3>2, <3>4
      <3>5. CASE u = t
        BY <1>2, <1>7, <1>8, <1>9, <1>10, <1>12, <1>14, <3>2, <3>5
      <3>6. CASE u \notin G /\ u \notin S /\ u # t
        BY <1>7, <1>10, <1>12, <1>13, <1>14, <3>1, <3>2, <3>6
      <3> QED
        BY <3>3, <3>4, <3>5, <3>6
    <2>3. \A u \in Txn : running' # u
      BY <2>1
    <2> QED
      BY <2>1, <2>2, <2>3 DEF Turns
  <1>20. Handles'
    <2>1. ASSUME NEW e \in Db
          PROVE  /\ queueEnabled'[e] => opened'[e] /\ closing' # e
                 /\ ~(queueEnabled'[e] /\ inProgress'[e]) => transactionQueue'[e] = <<>>
      <3>1. queueEnabled[e] => opened[e] /\ closing # e
        BY DEF DInv, Handles
      <3>2. ~(queueEnabled[e] /\ inProgress[e]) => transactionQueue[e] = <<>>
        BY DEF DInv, Handles
      <3>3. CASE e = d
        BY <1>1, <1>5, <3>1, <3>2, <3>3 DEF q
      <3>4. CASE e # d
        BY <1>1, <1>5, <3>1, <3>2, <3>4
      <3> QED
        BY <3>3, <3>4
    <2>2. ASSUME NEW u \in Txn, frontend'[u], ~Waiting(u)', queueEnabled'[DbOf[u]] PROVE inProgress'[DbOf[u]]
      <3>1. frontend[u] /\ u # t /\ DbOf[u] \in Db /\ queueEnabled[DbOf[u]]
        BY <1>1, <1>7, <2>2
      <3>2. CASE DbOf[u] = d
        <4>1. Waiting(u)
          BY <1>2, <3>1, <3>2 DEF DInv, Handles
        <4> QED
          BY <1>5, <1>10, <2>2, <3>2, <4>1
      <3>3. CASE DbOf[u] # d
        <4>1. ~Waiting(u) /\ inProgress'[DbOf[u]] = inProgress[DbOf[u]]
          BY <1>5, <1>9, <1>10, <2>2, <3>1, <3>3
        <4> QED
          BY <3>1, <4>1 DEF DInv, Handles
      <3> QED
        BY <3>2, <3>3
    <2>3. ASSUME NEW u \in Txn, NEW v \in Txn, u # v, DbOf[u] = DbOf[v], frontend'[u], frontend'[v]
          PROVE  Waiting(u)' \/ Waiting(v)'
      <3>1. frontend[u] /\ u # t /\ frontend[v] /\ v # t
        BY <1>7, <2>3
      <3>2. CASE DbOf[u] = d
        <4>1. Waiting(u) /\ Waiting(v)
          BY <1>2, <2>3, <3>1, <3>2 DEF DInv, Handles
        <4>2. S = {} \/ S = {Head(q)}
          BY <1>5
        <4>3. u \notin S \/ v \notin S
          BY <2>3, <4>2
        <4> QED
          BY <1>10, <4>1, <4>3
      <3>3. CASE DbOf[u] # d
        <4>1. Waiting(u) \/ Waiting(v)
          BY <2>3, <3>1 DEF DInv, Handles
        <4>2. u \notin S /\ v \notin S
          BY <1>9, <2>3, <3>3
        <4> QED
          BY <1>10, <4>1, <4>2
      <3> QED
        BY <3>2, <3>3
    <2> QED
      BY <2>1, <2>2, <2>3 DEF Handles
  <1>21. AtEnd'
    <2>1. ASSUME NEW u \in Txn, frontend'[u], Queued(u)', ~lockAcquired'[u] PROVE opened[DbOf[u]]
      <3>1. CASE u \in S
        BY <1>4, <1>9, <3>1 DEF DInv, Handles
      <3>2. CASE u \notin S
        <4>1. frontend[u] /\ Queued(u) /\ ~lockAcquired[u]
          BY <1>7, <1>12, <2>1, <3>2
        <4>2. DbOf[u] \in Db
          OBVIOUS
        <4>3. closing # DbOf[u]
          BY <1>2, <4>2
        <4> QED
          BY <1>2, <4>1, <4>3 DEF DInv, AtEnd
      <3> QED
        BY <3>1, <3>2
    <2> QED
      BY <1>1, <1>2, <2>1 DEF AtEnd
  <1>22. Closes'
    BY <1>1, <1>2, <1>13 DEF DInv, Closes
  <1>23. Outcomes'
    <2>1. ASSUME NEW u \in Txn, u # t, u \notin G PROVE Outcome(u)'
      <3>1. UnderWay(u)' \/ frontend'[u] => UnderWay(u) \/ frontend[u]
        BY <1>7, <1>16
      <3> QED
        BY <1>1, <1>7, <1>10, <1>14, <2>1, <3>1, OutcomeStays
    <2>2. ASSUME NEW u \in Txn, u \in G PROVE Outcome(u)'
      <3>1. Outcome(u) /\ ~lockAcquired[u] /\ Pending(u)
        BY <1>6, <2>2 DEF DInv, Outcomes
      <3>2. sqlite'[u] # "committed" /\ told'[u] \notin {"success", "error"}
            /\ scriptRequested'[u] # "DeliverSuccessCallback"
            /\ (u \in unissued' => scriptRequested'[u] = "Idle")
        BY <1>1, <1>7, <3>1 DEF Outcome
      <3> QED
        BY <3>2 DEF Outcome
    <2>3. Outcome(t)'
      <3>1. Outcome(t) /\ UnderWay(t) /\ t \notin G
        BY <1>1, <1>8 DEF DInv, Outcomes, UnderWay
      <3> QED
        BY <1>1, <1>2, <1>7, <1>10, <1>14, <3>1 DEF Outcome
    <2> QED
      BY <2>1, <2>2, <2>3 DEF Outcomes
  <1> QED
    BY <1>3, <1>15, <1>17, <1>18, <1>19, <1>20, <1>21, <1>22, <1>23, TypesAre DEF DInv

-----------------------------------------------------------------------------
(* close().  First the transactions that wait on the handle end.           *)
LEMMA CloseQueueKeeps ==
    ASSUME DInv, NEW d \in Db, CloseTransactionQueue(d), UNCHANGED <<scriptVars, contextVars>>,
           thread \in {"loop", "shutdown"}, running = NoTxn, closing = NoDb,
           queue' \in Seq(Task), Distinct(queue'), \A u \in Txn : Queued(u)' <=> Queued(u), Closes'
    PROVE  DInv'
  <1> USE DatabaseAssumption DEF callbackVars, scriptVars, contextVars
  <1>0. ThreadTypes /\ LockTypes /\ HandleTypes /\ MachineTypes /\ WorkTypes /\ ContextTypes
    BY TypesAre DEF DInv
  <1> DEFINE T == ToSet(transactionQueue[d])
             g == GrantedByCleanup(T)
  <1>1. /\ DoCleanup(T)
        /\ transactionQueue' = [transactionQueue EXCEPT ![d] = <<>>]
        /\ queueEnabled' = [queueEnabled EXCEPT ![d] = FALSE]
        /\ inProgress' = [inProgress EXCEPT ![d] = FALSE]
        /\ closing' = d
        /\ UNCHANGED <<killed, thread, running, opened, interrupted, deleted, next,
                       current, retry, posted, scriptRequested>>
    BY DEF CloseTransactionQueue
  <1>2. \A u \in Txn : u \in T <=> Waiting(u) /\ DbOf[u] = d
    BY DEF DInv, Tokens, Waiting
  <1>3. T \subseteq Txn
    <2>1. transactionQueue[d] \in Seq(Txn)
      BY <1>0 DEF HandleTypes
    <2> QED
      BY <2>1, WiderIs
  <1>4. \A u \in T : u \in Txn /\ ~lockAcquired[u] /\ frontend[u]
    BY <1>2, <1>3 DEF DInv, Locks
  <1>5. LocksOf(T) = {}
    BY <1>4 DEF LocksOf
  <1>6. g = <<>> /\ UNCHANGED coordinatorVars
    <2> HIDE DEF g, T
    <2> QED
      BY <1>1, <1>3, <1>5, CleanupIs DEF g
  <1>7. /\ Cleaned(T, g) /\ LockTypes' /\ WorkTypes' /\ Data' /\ Budget'
        /\ requested' \in [Txn -> BackendState \cup {"Idle"}]
    <2> HIDE DEF T
    <2> QED
      BY <1>1, <1>3, CleanupCleans
  <1> HIDE DEF g, T
  <1>8. \A u \in Txn :
           /\ frontend'[u] <=> frontend[u] /\ u \notin T
           /\ lockAcquired'[u] <=> lockAcquired[u]
           /\ requested'[u] = requested[u]
           /\ sqlite'[u] = "committed" <=> sqlite[u] = "committed"
    BY <1>6, <1>7, NoneIs DEF Cleaned
  <1>9. Active' = Active /\ pending' = pending /\ shuttingDown' = shuttingDown
        /\ activeWrite' = activeWrite /\ activeReads' = activeReads
    BY <1>6 DEF Active, coordinatorVars
  <1>10. \A u \in Txn : /\ Posted(u)' <=> Posted(u)
                        /\ Pending(u)' <=> Pending(u)
                        /\ Waiting(u)' <=> Waiting(u) /\ u \notin T
    <2>1. ASSUME NEW u \in Txn, DbOf[u] = d PROVE ~Waiting(u)' /\ (Waiting(u) => u \in T)
      <3>1. transactionQueue'[DbOf[u]] = <<>>
        BY <1>0, <1>1, <2>1 DEF HandleTypes
      <3> QED
        BY <1>2, <2>1, <3>1, NoneIs DEF Waiting
    <2>2. ASSUME NEW u \in Txn, DbOf[u] # d PROVE u \notin T /\ (Waiting(u)' <=> Waiting(u))
      <3>1. DbOf[u] \in Db
        OBVIOUS
      <3>2. transactionQueue'[DbOf[u]] = transactionQueue[DbOf[u]]
        BY <1>0, <1>1, <2>2, <3>1 DEF HandleTypes
      <3> QED
        BY <1>2, <2>2, <3>2 DEF Waiting
    <2>3. \A u \in Txn : (Posted(u)' <=> Posted(u)) /\ (Pending(u)' <=> Pending(u))
      BY <1>1, <1>9 DEF Posted, Pending
    <2> QED
      BY <2>1, <2>2, <2>3
  <1>11. /\ \A e \in Db : Usable(e)' <=> Usable(e)
         /\ \A e \in Db : e # d => /\ transactionQueue'[e] = transactionQueue[e]
                                   /\ queueEnabled'[e] = queueEnabled[e] /\ inProgress'[e] = inProgress[e]
         /\ transactionQueue'[d] = <<>> /\ ~queueEnabled'[d]
    BY <1>0, <1>1 DEF Usable, HandleTypes
  <1>12. ThreadTypes' /\ HandleTypes' /\ MachineTypes' /\ ContextTypes'
    BY <1>0, <1>1, <1>7, NoneIs DEF ThreadTypes, HandleTypes, MachineTypes, ContextTypes
  <1>13. \A u \in Txn : (UnderWay(u)' => UnderWay(u)) /\ (u \notin T /\ UnderWay(u) => UnderWay(u)')
    BY <1>1, <1>10 DEF UnderWay
  <1>14. \A u \in T : ~Queued(u) /\ ~Posted(u) /\ ~Pending(u) /\ Waiting(u) /\ u \notin unissued
    BY <1>2, <1>3 DEF DInv, Tokens, UnderWay
  <1>15. Tokens'
    <2>1. \A e \in Db : /\ Distinct(transactionQueue'[e])
                        /\ \A u \in ToSet(transactionQueue'[e]) : DbOf[u] = e
      BY <1>11, NoneIs DEF DInv, Tokens
    <2>2. Distinct(posted') /\ Distinct(pending')
      BY <1>1, <1>9 DEF DInv, Tokens
    <2>3. ASSUME NEW u \in Txn
          PROVE  /\ Queued(u)' => ~Posted(u)' /\ ~Pending(u)' /\ ~Waiting(u)' /\ running' # u
                 /\ Posted(u)' => ~Pending(u)' /\ ~Waiting(u)' /\ running' # u
                 /\ Pending(u)' => ~Waiting(u)' /\ running' # u
                 /\ Waiting(u)' => running' # u
                 /\ u \in unissued' => ~frontend'[u] /\ ~UnderWay(u)'
                 /\ frontend'[u] /\ thread' = "loop" => UnderWay(u)'
      <3>1. /\ Queued(u) => ~Posted(u) /\ ~Pending(u) /\ ~Waiting(u)
            /\ Posted(u) => ~Pending(u) /\ ~Waiting(u)
            /\ Pending(u) => ~Waiting(u)
            /\ u \in unissued => ~frontend[u] /\ ~UnderWay(u)
            /\ frontend[u] /\ thread = "loop" => UnderWay(u)
        BY DEF DInv, Tokens
      <3> QED
        BY <1>1, <1>8, <1>10, <1>13, <3>1
    <2> QED
      BY <2>1, <2>2, <2>3 DEF Tokens
  <1>16. Locks'
    <2>1. ASSUME NEW u \in Txn
          PROVE  /\ ~shuttingDown' => (u \in Active' <=> frontend'[u] /\ lockAcquired'[u])
                 /\ Pending(u)' => ~lockAcquired'[u] /\ (~shuttingDown' => frontend'[u])
                 /\ Waiting(u)' => ~lockAcquired'[u] /\ frontend'[u]
                 /\ u \in unissued' => ~lockAcquired'[u]
      <3>1. /\ ~shuttingDown => (u \in Active <=> frontend[u] /\ lockAcquired[u])
            /\ Pending(u) => ~lockAcquired[u] /\ (~shuttingDown => frontend[u])
            /\ Waiting(u) => ~lockAcquired[u] /\ frontend[u]
            /\ u \in unissued => ~lockAcquired[u]
        BY DEF DInv, Locks
      <3> QED
        BY <1>4, <1>8, <1>9, <1>10, <1>14, <3>1
    <2> QED
      BY <1>1, <1>9, <2>1 DEF DInv, Locks
  <1>17. Turns'
    <2>1. ASSUME NEW u \in Txn
          PROVE  /\ running' # u => next'[u] \in {"Idle", "End"}
                 /\ frontend'[u] \/ u \in unissued' => next'[u] # "End"
                 /\ Queued(u)' /\ frontend'[u] =>
                       /\ requested'[u] \in BackendState
                       /\ requested'[u] = "AcquireLock" <=> ~lockAcquired'[u]
                 /\ Posted(u)' /\ frontend'[u] => lockAcquired'[u]
                 /\ Waiting(u)' \/ u \in unissued' => requested'[u] = "AcquireLock"
                 /\ ~frontend'[u] /\ (Queued(u)' \/ Posted(u)') /\ thread' \in {"loop", "selfLocked"}
                       => next'[u] = "End" /\ ~Usable(DbOf[u])'
      <3>1. /\ running # u => next[u] \in {"Idle", "End"}
            /\ frontend[u] \/ u \in unissued => next[u] # "End"
            /\ Queued(u) /\ frontend[u] =>
                  requested[u] \in BackendState /\ (requested[u] = "AcquireLock" <=> ~lockAcquired[u])
            /\ Posted(u) /\ frontend[u] => lockAcquired[u]
            /\ Waiting(u) \/ u \in unissued => requested[u] = "AcquireLock"
            /\ ~frontend[u] /\ (Queued(u) \/ Posted(u)) /\ thread \in {"loop", "selfLocked"}
                  => next[u] = "End" /\ ~Usable(DbOf[u])
        BY DEF DInv, Turns
      <3>2. u \in T => ~Queued(u) /\ ~Posted(u)
        BY <1>14
      <3>3. DbOf[u] \in Db
        OBVIOUS
      <3> QED
        BY <1>1, <1>8, <1>10, <1>11, <3>1, <3>2, <3>3
    <2>2. running' = NoTxn /\ thread' \in {"loop", "shutdown"} /\ \A u \in Txn : running' # u
      BY <1>1
    <2> QED
      BY <2>1, <2>2 DEF Turns
  <1>18. Handles'
    <2>1. ASSUME NEW e \in Db
          PROVE  /\ queueEnabled'[e] => opened'[e] /\ closing' # e
                 /\ ~(queueEnabled'[e] /\ inProgress'[e]) => transactionQueue'[e] = <<>>
      BY <1>1, <1>11 DEF DInv, Handles
    <2>2. ASSUME NEW u \in Txn, frontend'[u], ~Waiting(u)', queueEnabled'[DbOf[u]] PROVE inProgress'[DbOf[u]]
      <3>1. frontend[u] /\ u \notin T /\ ~Waiting(u) /\ DbOf[u] \in Db
        BY <1>8, <1>10, <2>2
      <3>2. DbOf[u] # d
        BY <1>11, <2>2
      <3> QED
        BY <1>11, <2>2, <3>1, <3>2 DEF DInv, Handles
    <2>3. ASSUME NEW u \in Txn, NEW v \in Txn, u # v, DbOf[u] = DbOf[v], frontend'[u], frontend'[v]
          PROVE  Waiting(u)' \/ Waiting(v)'
      <3>1. frontend[u] /\ u \notin T /\ frontend[v] /\ v \notin T
        BY <1>8, <2>3
      <3>2. Waiting(u) \/ Waiting(v)
        BY <2>3, <3>1 DEF DInv, Handles
      <3> QED
        BY <1>10, <3>1, <3>2
    <2> QED
      BY <2>1, <2>2, <2>3 DEF Handles
  <1>19. AtEnd'
    <2>1. ASSUME NEW u \in Txn, frontend'[u]
          PROVE  /\ thread' \in {"shutdown", "ended"} => (Queued(u)' \/ Waiting(u)') /\ ~lockAcquired'[u]
                 /\ Queued(u)' /\ ~lockAcquired'[u] => opened'[DbOf[u]] \/ closing' = DbOf[u]
      <3>1. frontend[u] /\ u \notin T
        BY <1>8, <2>1
      <3>2. DbOf[u] \in Db
        OBVIOUS
      <3>3. closing # DbOf[u]
        BY <3>2
      <3>4. /\ thread = "shutdown" => (Queued(u) \/ Waiting(u)) /\ ~lockAcquired[u]
            /\ Queued(u) /\ ~lockAcquired[u] => opened[DbOf[u]]
        BY <3>1, <3>3 DEF DInv, AtEnd
      <3> QED
        BY <1>1, <1>8, <1>10, <3>1, <3>4
    <2> QED
      BY <1>1, <2>1 DEF AtEnd
  <1>20. Outcomes'
    <2> SUFFICES ASSUME NEW u \in Txn PROVE Outcome(u)'
      BY DEF Outcomes
    <2>1. UnderWay(u)' \/ frontend'[u] => UnderWay(u) \/ frontend[u]
      BY <1>8, <1>13
    <2> QED
      BY <1>1, <1>8, <1>10, <2>1, OutcomeStays
  <1> QED
    BY <1>7, <1>12, <1>15, <1>16, <1>17, <1>18, <1>19, <1>20, TypesAre DEF DInv

LEMMA PerformCloseKeeps ==
    ASSUME DInv, NEW d \in Db, PerformCloseTask(d), UNCHANGED <<scriptVars, contextVars>>
    PROVE  DInv'
  <1> USE DatabaseAssumption
  <1>1. Performs(d) /\ queue' = Tail(queue) /\ CloseTransactionQueue(d)
    BY DEF PerformCloseTask
  <1>2. /\ thread = "loop" /\ ~killed /\ running = NoTxn /\ closing = NoDb
        /\ Queued(d) /\ Tail(queue) \in Seq(Task) /\ Distinct(Tail(queue))
        /\ \A j \in Task : j # d => (j \in ToSet(Tail(queue)) <=> Queued(j))
    BY <1>1, TaskTaken DEF Task
  <1>3. /\ queue' \in Seq(Task) /\ Distinct(queue') /\ \A u \in Txn : Queued(u)' <=> Queued(u)
        /\ \A e \in Db : Queued(e)' => Queued(e)
    BY <1>1, <1>2 DEF Queued, Task
  <1>4. Closes'
    <2>1. closing' = d /\ thread' = "loop" /\ killed' = killed /\ UNCHANGED contextVars
      BY <1>1, <1>2 DEF CloseTransactionQueue
    <2> QED
      BY <1>2, <1>3, <2>1 DEF DInv, Closes, contextVars
  <1> QED
    BY <1>1, <1>2, <1>3, <1>4, CloseQueueKeeps

LEMMA CloseOpenKeeps ==
    ASSUME DInv, NEW d \in Db, CloseOpenDatabase(d), UNCHANGED <<scriptVars, contextVars>>
    PROVE  DInv'
  <1> USE DatabaseAssumption
  <1>1. thread = "shutdown" /\ closing = NoDb /\ CloseTransactionQueue(d) /\ queue' = queue
    BY DEF CloseOpenDatabase
  <1>2. queue \in Seq(Task) /\ Distinct(queue) /\ running = NoTxn
    BY <1>1, TypesAre DEF DInv, ThreadTypes, Tokens, Turns
  <1>3. queue' \in Seq(Task) /\ Distinct(queue') /\ \A k \in Task : Queued(k)' <=> Queued(k)
    BY <1>1, <1>2 DEF Queued
  <1>4. Closes'
    <2>1. closing' = d /\ thread' = "shutdown" /\ killed' = killed /\ UNCHANGED contextVars
      BY <1>1 DEF CloseTransactionQueue
    <2> QED
      BY <1>1, <1>3, <2>1 DEF DInv, Closes, contextVars, Task
  <1> QED
    BY <1>1, <1>2, <1>3, <1>4, CloseQueueKeeps DEF Task

(* Then SQLite is closed, ...                                              *)
LEMMA CloseDatabaseKeeps ==
    ASSUME DInv, NEW d \in Db, CloseDatabase(d), UNCHANGED <<scriptVars, contextVars>>
    PROVE  DInv'
  <1> USE DatabaseAssumption
      DEF threadVars, coordinatorVars, callbackVars, scriptVars, contextVars, statementVars, backendVars, machineVars
  <1>0. ThreadTypes /\ LockTypes /\ HandleTypes /\ MachineTypes /\ WorkTypes /\ ContextTypes
    BY TypesAre DEF DInv
  <1>1. /\ closing = d /\ opened[d] /\ opened' = [opened EXCEPT ![d] = FALSE]
        /\ UNCHANGED <<threadVars, coordinatorVars, backendVars, callbackVars, interrupted, deleted,
                       transactionQueue, queueEnabled, inProgress>>
    BY DEF CloseDatabase
  <1>2. ~opened'[d] /\ \A e \in Db : e # d => opened'[e] = opened[e]
    BY <1>0, <1>1 DEF HandleTypes
  <1>3. \A u \in Txn : /\ Queued(u)' = Queued(u) /\ Posted(u)' = Posted(u)
                       /\ Pending(u)' = Pending(u) /\ Waiting(u)' = Waiting(u) /\ UnderWay(u)' = UnderWay(u)
    BY <1>1 DEF Queued, Posted, Pending, Waiting, UnderWay
  <1>4. Active' = Active /\ \A e \in Db : Usable(e)' => Usable(e)
    BY <1>1, <1>2 DEF Active, Usable
  <1>5. thread # "ended" /\ ~queueEnabled[d] /\ d # NoDb
    BY <1>1 DEF DInv, AtEnd, Handles
  <1>6. ThreadTypes' /\ LockTypes' /\ HandleTypes' /\ MachineTypes' /\ WorkTypes' /\ ContextTypes'
    BY <1>0, <1>1 DEF ThreadTypes, LockTypes, HandleTypes, MachineTypes, WorkTypes, ContextTypes
  <1>7. Tokens'
    BY <1>1, <1>3 DEF DInv, Tokens
  <1>8. Locks'
    BY <1>1, <1>3, <1>4 DEF DInv, Locks
  <1>9. Turns'
    BY <1>1, <1>3, <1>4 DEF DInv, Turns
  <1>10. Handles'
    BY <1>1, <1>2, <1>3, <1>5 DEF DInv, Handles
  <1>11. Data'
    BY <1>1, <1>4 DEF DInv, Data
  <1>12. AtEnd'
    BY <1>1, <1>2, <1>3, <1>5 DEF DInv, AtEnd
  <1>13. Closes'
    BY <1>1 DEF DInv, Closes, Queued
  <1>14. Budget'
    BY <1>1 DEF DInv, Budget
  <1>15. Outcomes'
    <2> SUFFICES ASSUME NEW u \in Txn PROVE Outcome(u)'
      BY DEF Outcomes
    <2> QED
      BY <1>1, <1>3, OutcomeStays
  <1> QED
    BY <1>6, <1>7, <1>8, <1>9, <1>10, <1>11, <1>12, <1>13, <1>14, <1>15, TypesAre DEF DInv

(* ... and then the tasks of the handle are destroyed.  A transaction that *)
(* gets the lock by that is in no place any more: the thread has locked    *)
(* itself out.                                                             *)
LEMMA FinishCloseKeeps == ASSUME DInv, NEW d \in Db, FinishClose(d) PROVE DInv'
  <1> USE DatabaseAssumption DEF databaseVars, callbackVars, scriptVars
  <1>0. ThreadTypes /\ LockTypes /\ HandleTypes /\ MachineTypes /\ WorkTypes /\ ContextTypes
    BY TypesAre DEF DInv
  <1> DEFINE T == TasksOf(d) \cap Txn
             g == GrantedByCleanup(T)
             G == ToSet(g)
  <1>1. /\ thread # "selfLocked" /\ closing = d /\ ~opened[d] /\ DoCleanup(T) /\ queue' = UnscheduleTasks(d)
        /\ UNCHANGED <<killed, running, databaseVars, next, current, retry, callbackVars, scriptVars,
                       worker, unissued>>
    BY DEF FinishClose, UnscheduleDatabaseTasks, QueueFree
  <1>2. \/ g # <<>> /\ thread' = "selfLocked" /\ closing' = closing
        \/ g = <<>> /\ thread' = thread /\ closing' = NoDb
    BY DEF FinishClose, UnscheduleDatabaseTasks, SelfLocked
  <1>3. \/ thread = "loop" /\ g = <<>> /\ deleteStep' = "idle" /\ deleting' = NoDb
        \/ (thread # "loop" \/ g # <<>>) /\ deleteStep' = deleteStep /\ deleting' = deleting
    BY DEF FinishClose, SelfLocked
  <1>4. T \subseteq Txn /\ \A u \in Txn : u \in T <=> Queued(u) /\ DbOf[u] = d
    BY DEF TasksOf, TaskDatabase, Task, Queued, ToSet
  <1>5. /\ Cleaned(T, g) /\ LockTypes' /\ WorkTypes' /\ Data' /\ Budget'
        /\ requested' \in [Txn -> BackendState \cup {"Idle"}]
    <2> HIDE DEF T
    <2> QED
      BY <1>1, <1>4, CleanupCleans
  <1> HIDE DEF g, T
  <1>6. /\ Distinct(pending') /\ shuttingDown' = shuttingDown
        /\ shuttingDown => Active' = Active /\ G = {} /\ pending' = pending
        /\ activeWrite' # NoTxn => activeReads' = {}
        /\ \A u \in G : u \in Txn /\ Pending(u) /\ ~lockAcquired[u] /\ frontend[u] /\ ~shuttingDown
    BY <1>5 DEF Cleaned
  <1>7. \A u \in Txn :
           /\ Pending(u)' <=> Pending(u) /\ u \notin G
           /\ frontend'[u] <=> frontend[u] /\ u \notin T
           /\ lockAcquired'[u] <=> lockAcquired[u] \/ u \in G
           /\ ~shuttingDown => (u \in Active' <=> (u \in Active /\ ~(u \in T /\ frontend[u])) \/ u \in G)
           /\ requested'[u] = IF u \in G THEN "OpenTransactionAndPreflight" ELSE requested[u]
           /\ sqlite'[u] = "committed" <=> sqlite[u] = "committed"
    BY <1>5 DEF Cleaned
  <1>8. g = <<>> => G = {}
    BY NoneIs
  <1>9. g # <<>> => ~shuttingDown
    <2>1. g \in Seq(Txn)
      BY <1>5 DEF Cleaned
    <2>2. g # <<>> => G # {}
      BY <2>1, TailIs
    <2> QED
      BY <1>6, <2>2
  <1> HIDE DEF G
  <1>10. \A u \in G : ~Queued(u) /\ ~Posted(u) /\ ~Waiting(u) /\ u \notin unissued /\ u \notin T
    BY <1>4, <1>6 DEF DInv, Tokens, UnderWay
  <1>11. \A u \in T : u \in Txn /\ ~Posted(u) /\ ~Waiting(u) /\ ~Pending(u) /\ u \notin unissued
    BY <1>4 DEF DInv, Tokens, UnderWay
  <1>12. /\ queue' \in Seq(Task) /\ Distinct(queue')
         /\ \A u \in Txn : Queued(u)' <=> Queued(u) /\ u \notin T
         /\ \A e \in Db : Queued(e)' <=> Queued(e) /\ e # d
    <2>1. /\ UnscheduleTasks(d) \in Seq(Task) /\ Distinct(UnscheduleTasks(d))
          /\ ToSet(UnscheduleTasks(d)) = {k \in ToSet(queue) : TaskDatabase(k) # d}
      BY <1>0, UnscheduleIs DEF ThreadTypes, DInv, Tokens
    <2>2. \A k \in Task : Queued(k)' <=> Queued(k) /\ TaskDatabase(k) # d
      BY <1>1, <2>1 DEF Queued
    <2>3. \A u \in Txn : Queued(u)' <=> Queued(u) /\ u \notin T
      BY <1>4, <2>2 DEF Task, TaskDatabase
    <2>4. \A e \in Db : Queued(e)' <=> Queued(e) /\ e # d
      BY <2>2 DEF Task, TaskDatabase
    <2> QED
      BY <1>1, <2>1, <2>3, <2>4
  <1>13. \A u \in Txn : (Posted(u)' <=> Posted(u)) /\ (Waiting(u)' <=> Waiting(u))
    BY <1>1 DEF Posted, Waiting
  <1>14. /\ running = NoTxn /\ d # NoDb /\ thread \in {"loop", "shutdown"}
         /\ (thread = "loop" <=> ~shuttingDown) /\ (g # <<>> => thread = "loop")
    BY <1>1, <1>9 DEF DInv, Turns, Locks
  <1>15. ThreadTypes' /\ HandleTypes' /\ MachineTypes' /\ ContextTypes'
    BY <1>0, <1>1, <1>2, <1>3, <1>5, <1>12 DEF ThreadTypes, HandleTypes, MachineTypes, ContextTypes
  <1>16. \A u \in Txn : /\ UnderWay(u)' => UnderWay(u)
                        /\ UnderWay(u) /\ u \notin T /\ u \notin G => UnderWay(u)'
    BY <1>1, <1>7, <1>12, <1>13 DEF UnderWay
  <1>17. Tokens'
    <2>1. ASSUME NEW u \in Txn
          PROVE  /\ Queued(u)' => ~Posted(u)' /\ ~Pending(u)' /\ ~Waiting(u)' /\ running' # u
                 /\ Posted(u)' => ~Pending(u)' /\ ~Waiting(u)' /\ running' # u
                 /\ Pending(u)' => ~Waiting(u)' /\ running' # u
                 /\ Waiting(u)' => running' # u
                 /\ u \in unissued' => ~frontend'[u] /\ ~UnderWay(u)'
                 /\ frontend'[u] /\ thread' = "loop" => UnderWay(u)'
      <3>1. /\ Queued(u) => ~Posted(u) /\ ~Pending(u) /\ ~Waiting(u)
            /\ Posted(u) => ~Pending(u) /\ ~Waiting(u)
            /\ Pending(u) => ~Waiting(u)
            /\ u \in unissued => ~frontend[u] /\ ~UnderWay(u)
            /\ frontend[u] /\ thread = "loop" => UnderWay(u)
        BY DEF DInv, Tokens
      <3>2. thread' = "loop" => thread = "loop" /\ u \notin G
        BY <1>2, <1>8
      <3>3. running' # u /\ unissued' = unissued
        BY <1>1, <1>14
      <3> QED
        BY <1>7, <1>12, <1>13, <1>16, <3>1, <3>2, <3>3
    <2>2. Distinct(posted') /\ \A e \in Db : /\ Distinct(transactionQueue'[e])
                                             /\ \A u \in ToSet(transactionQueue'[e]) : DbOf[u] = e
      BY <1>1 DEF DInv, Tokens
    <2> QED
      BY <1>6, <1>12, <2>1, <2>2 DEF Tokens
  <1>18. Locks'
    <2>1. ASSUME NEW u \in Txn
          PROVE  /\ ~shuttingDown' => (u \in Active' <=> frontend'[u] /\ lockAcquired'[u])
                 /\ Pending(u)' => ~lockAcquired'[u] /\ (~shuttingDown' => frontend'[u])
                 /\ Waiting(u)' => ~lockAcquired'[u] /\ frontend'[u]
                 /\ u \in unissued' => ~lockAcquired'[u]
      <3>1. /\ ~shuttingDown => (u \in Active <=> frontend[u] /\ lockAcquired[u])
            /\ Pending(u) => ~lockAcquired[u] /\ (~shuttingDown => frontend[u])
            /\ Waiting(u) => ~lockAcquired[u] /\ frontend[u]
            /\ u \in unissued => ~lockAcquired[u]
        BY DEF DInv, Locks
      <3>2. unissued' = unissued
        BY <1>1
      <3> QED
        BY <1>6, <1>7, <1>10, <1>11, <1>13, <3>1, <3>2
    <2>2. shuttingDown' <=> thread' \in {"shutdown", "spinning", "ended"}
      BY <1>2, <1>6, <1>14
    <2>3. thread' \in {"shutdown", "ended"} => Active' = {} /\ pending' = <<>>
      BY <1>2, <1>6, <1>14 DEF DInv, Locks
    <2> QED
      BY <1>6, <2>1, <2>2, <2>3 DEF Locks
  <1>19. Turns'
    <2>1. ASSUME NEW u \in Txn
          PROVE  /\ running' # u => next'[u] \in {"Idle", "End"}
                 /\ frontend'[u] \/ u \in unissued' => next'[u] # "End"
                 /\ Queued(u)' /\ frontend'[u] =>
                       /\ requested'[u] \in BackendState
                       /\ requested'[u] = "AcquireLock" <=> ~lockAcquired'[u]
                 /\ Posted(u)' /\ frontend'[u] => lockAcquired'[u]
                 /\ Waiting(u)' \/ u \in unissued' => requested'[u] = "AcquireLock"
                 /\ ~frontend'[u] /\ (Queued(u)' \/ Posted(u)') /\ thread' \in {"loop", "selfLocked"}
                       => next'[u] = "End" /\ ~Usable(DbOf[u])'
      <3>1. /\ running # u => next[u] \in {"Idle", "End"}
            /\ frontend[u] \/ u \in unissued => next[u] # "End"
            /\ Queued(u) /\ frontend[u] =>
                  requested[u] \in BackendState /\ (requested[u] = "AcquireLock" <=> ~lockAcquired[u])
            /\ Posted(u) /\ frontend[u] => lockAcquired[u]
            /\ Waiting(u) \/ u \in unissued => requested[u] = "AcquireLock"
            /\ ~frontend[u] /\ (Queued(u) \/ Posted(u)) /\ thread \in {"loop", "selfLocked"}
                  => next[u] = "End" /\ ~Usable(DbOf[u])
        BY DEF DInv, Turns
      <3>2. /\ u \in G => ~Queued(u) /\ ~Posted(u) /\ ~Waiting(u) /\ u \notin unissued
            /\ u \in T => ~Posted(u)
        BY <1>10, <1>11
      <3>3. /\ Usable(DbOf[u])' = Usable(DbOf[u]) /\ unissued' = unissued /\ next' = next
            /\ running' = running /\ (thread' \in {"loop", "selfLocked"} => thread = "loop")
        BY <1>1, <1>2, <1>14 DEF Usable
      <3> QED
        BY <1>7, <1>12, <1>13, <3>1, <3>2, <3>3
    <2>2. running' = NoTxn /\ thread' \in {"loop", "shutdown", "selfLocked"} /\ \A u \in Txn : running' # u
      BY <1>1, <1>2, <1>14
    <2> QED
      BY <2>1, <2>2 DEF Turns
  <1>20. Handles'
    <2>1. ASSUME NEW e \in Db
          PROVE  /\ queueEnabled'[e] => opened'[e] /\ closing' # e
                 /\ ~(queueEnabled'[e] /\ inProgress'[e]) => transactionQueue'[e] = <<>>
      BY <1>1, <1>2 DEF DInv, Handles
    <2>2. \A u \in Txn : frontend'[u] => frontend[u]
      BY <1>7
    <2>3. queueEnabled' = queueEnabled /\ inProgress' = inProgress
      BY <1>1
    <2> QED
      BY <1>13, <2>1, <2>2, <2>3 DEF DInv, Handles
  <1>21. AtEnd'
    <2>1. ASSUME NEW u \in Txn, frontend'[u]
          PROVE  /\ thread' = "shutdown" => (Queued(u)' \/ Waiting(u)') /\ ~lockAcquired'[u]
                 /\ Queued(u)' /\ ~lockAcquired'[u] /\ thread' \in {"loop", "shutdown"}
                       => opened'[DbOf[u]] \/ closing' = DbOf[u]
      <3>1. frontend[u] /\ u \notin T
        BY <1>7, <2>1
      <3>2. /\ thread = "shutdown" => (Queued(u) \/ Waiting(u)) /\ ~lockAcquired[u]
            /\ Queued(u) /\ ~lockAcquired[u] => opened[DbOf[u]] \/ closing = DbOf[u]
        BY <1>14, <3>1 DEF DInv, AtEnd
      <3>3. Queued(u) => DbOf[u] # closing
        BY <1>1, <1>4, <3>1
      <3>4. opened' = opened /\ (thread' \in {"loop", "shutdown"} => thread' = thread /\ u \notin G)
        BY <1>1, <1>2, <1>8
      <3> QED
        BY <1>7, <1>12, <1>13, <3>1, <3>2, <3>3, <3>4
    <2>2. thread' # "ended"
      BY <1>2, <1>14
    <2> QED
      BY <2>1, <2>2 DEF AtEnd
  <1>22. Closes'
    <2>1. /\ killed' = killed /\ worker' = worker /\ closing = d
      BY <1>1
    <2>2. CASE thread = "loop" /\ g = <<>> /\ deleteStep' = "idle" /\ deleting' = NoDb
      BY <1>2, <1>12, <1>14, <2>1, <2>2 DEF DInv, Closes
    <2>3. CASE thread = "loop" /\ g # <<>> /\ deleteStep' = deleteStep /\ deleting' = deleting
      BY <1>2, <1>12, <1>14, <2>1, <2>3 DEF DInv, Closes
    <2>4. CASE thread = "shutdown" /\ deleteStep' = deleteStep /\ deleting' = deleting
      BY <1>2, <1>12, <1>14, <2>1, <2>4 DEF DInv, Closes
    <2> QED
      BY <1>3, <1>14, <2>2, <2>3, <2>4
  <1>23. Outcomes'
    <2>1. ASSUME NEW u \in Txn, u \notin G PROVE Outcome(u)'
      <3>1. UnderWay(u)' \/ frontend'[u] => UnderWay(u) \/ frontend[u]
        BY <1>7, <1>16
      <3> QED
        BY <1>1, <1>7, <1>13, <2>1, <3>1, OutcomeStays
    <2>2. ASSUME NEW u \in Txn, u \in G PROVE Outcome(u)'
      <3>1. Outcome(u) /\ ~lockAcquired[u] /\ Pending(u)
        BY <1>6, <2>2 DEF DInv, Outcomes
      <3>2. sqlite'[u] # "committed" /\ told'[u] \notin {"success", "error"}
            /\ scriptRequested'[u] # "DeliverSuccessCallback"
            /\ (u \in unissued' => scriptRequested'[u] = "Idle")
        BY <1>1, <1>7, <3>1 DEF Outcome
      <3> QED
        BY <3>2 DEF Outcome
    <2> QED
      BY <2>1, <2>2 DEF Outcomes
  <1> QED
    BY <1>5, <1>15, <1>17, <1>18, <1>19, <1>20, <1>21, <1>22, <1>23, TypesAre DEF DInv

(* The thread ends.                                                        *)
LEMMA EndThreadKeeps ==
    ASSUME DInv, EndThread, UNCHANGED <<scriptVars, contextVars>>
    PROVE  DInv'
  <1> USE DatabaseAssumption
      DEF threadVars, coordinatorVars, databaseVars, callbackVars, scriptVars, contextVars, statementVars,
          backendVars, machineVars
  <1>0. ThreadTypes /\ LockTypes /\ HandleTypes /\ MachineTypes /\ WorkTypes /\ ContextTypes
    BY TypesAre DEF DInv
  <1>1. /\ thread = "shutdown" /\ closing = NoDb /\ thread' = "ended" /\ \A d \in Db : ~opened[d]
        /\ UNCHANGED <<queue, killed, running, closing, coordinatorVars, databaseVars, backendVars,
                       callbackVars, scriptVars, contextVars>>
    BY DEF EndThread
  <1>3. \A u \in Txn : /\ Queued(u)' = Queued(u) /\ Posted(u)' = Posted(u)
                       /\ Pending(u)' = Pending(u) /\ Waiting(u)' = Waiting(u) /\ UnderWay(u)' = UnderWay(u)
    BY <1>1 DEF Queued, Posted, Pending, Waiting, UnderWay
  <1>4. Active' = Active /\ \A e \in Db : Usable(e)' => Usable(e)
    BY <1>1 DEF Active, Usable
  <1>6. ThreadTypes' /\ LockTypes' /\ HandleTypes' /\ MachineTypes' /\ WorkTypes' /\ ContextTypes'
    BY <1>0, <1>1 DEF ThreadTypes, LockTypes, HandleTypes, MachineTypes, WorkTypes, ContextTypes
  <1>7. Tokens'
    BY <1>1, <1>3 DEF DInv, Tokens
  <1>8. Locks'
    BY <1>1, <1>3, <1>4 DEF DInv, Locks
  <1>9. Turns'
    BY <1>1, <1>3, <1>4 DEF DInv, Turns
  <1>10. Handles'
    BY <1>1, <1>3 DEF DInv, Handles
  <1>11. Data'
    BY <1>1, <1>4 DEF DInv, Data
  <1>12. AtEnd'
    BY <1>1, <1>3 DEF DInv, AtEnd
  <1>13. Closes'
    BY <1>1 DEF DInv, Closes, Queued
  <1>14. Budget'
    BY <1>1 DEF DInv, Budget
  <1>15. Outcomes'
    <2> SUFFICES ASSUME NEW u \in Txn PROVE Outcome(u)'
      BY DEF Outcomes
    <2> QED
      BY <1>1, <1>3, OutcomeStays
  <1> QED
    BY <1>6, <1>7, <1>8, <1>9, <1>10, <1>11, <1>12, <1>13, <1>14, <1>15, TypesAre DEF DInv

(* The main thread.                                                        *)
LEMMA MarkAsDeletedKeeps ==
    ASSUME DInv, NEW d \in Db, MarkAsDeleted(d)
    PROVE  DInv'
  <1> USE DatabaseAssumption
      DEF threadVars, coordinatorVars, databaseVars, callbackVars, scriptVars, contextVars, statementVars,
          backendVars, machineVars
  <1>0. ThreadTypes /\ LockTypes /\ HandleTypes /\ MachineTypes /\ WorkTypes /\ ContextTypes
    BY TypesAre DEF DInv
  <1>1. /\ deleteStep = "idle" /\ deleted' = [deleted EXCEPT ![d] = TRUE]
        /\ UNCHANGED <<threadVars, coordinatorVars, opened, interrupted, transactionQueue, queueEnabled,
                       inProgress, backendVars, callbackVars, scriptVars, worker, unissued>>
    BY DEF MarkAsDeleted
  <1>2. \/ killed /\ deleting' = deleting /\ deleteStep' = deleteStep
        \/ ~killed /\ deleting' = d /\ deleteStep' = "checked"
    BY DEF MarkAsDeleted
  <1>3. \A u \in Txn : /\ Queued(u)' = Queued(u) /\ Posted(u)' = Posted(u)
                       /\ Pending(u)' = Pending(u) /\ Waiting(u)' = Waiting(u) /\ UnderWay(u)' = UnderWay(u)
    BY <1>1 DEF Queued, Posted, Pending, Waiting, UnderWay
  <1>4. Active' = Active /\ \A e \in Db : Usable(e)' => Usable(e)
    BY <1>1 DEF Active, Usable
  <1>6. ThreadTypes' /\ LockTypes' /\ HandleTypes' /\ MachineTypes' /\ WorkTypes' /\ ContextTypes'
    BY <1>0, <1>1, <1>2 DEF ThreadTypes, LockTypes, HandleTypes, MachineTypes, WorkTypes, ContextTypes
  <1>7. Tokens'
    BY <1>1, <1>3 DEF DInv, Tokens
  <1>8. Locks'
    BY <1>1, <1>3, <1>4 DEF DInv, Locks
  <1>9. Turns'
    BY <1>1, <1>3, <1>4 DEF DInv, Turns
  <1>10. Handles'
    BY <1>1, <1>3 DEF DInv, Handles
  <1>11. Data'
    BY <1>1, <1>4 DEF DInv, Data
  <1>12. AtEnd'
    BY <1>1, <1>3 DEF DInv, AtEnd
  <1>13. Closes'
    BY <1>0, <1>1, <1>2 DEF DInv, Closes, Queued, ThreadTypes
  <1>14. Budget'
    BY <1>1 DEF DInv, Budget
  <1>15. Outcomes'
    <2> SUFFICES ASSUME NEW u \in Txn PROVE Outcome(u)'
      BY DEF Outcomes
    <2> QED
      BY <1>1, <1>3, OutcomeStays
  <1> QED
    BY <1>6, <1>7, <1>8, <1>9, <1>10, <1>11, <1>12, <1>13, <1>14, <1>15, TypesAre DEF DInv

LEMMA InterruptKeeps ==
    ASSUME DInv, NEW d \in Db, InterruptDatabase(d)
    PROVE  DInv'
  <1> USE DatabaseAssumption
      DEF threadVars, coordinatorVars, databaseVars, callbackVars, scriptVars, contextVars, statementVars,
          backendVars, machineVars
  <1>0. ThreadTypes /\ LockTypes /\ HandleTypes /\ MachineTypes /\ WorkTypes /\ ContextTypes
    BY TypesAre DEF DInv
  <1>1. /\ interrupted' = [interrupted EXCEPT ![d] = TRUE]
        /\ UNCHANGED <<threadVars, coordinatorVars, opened, deleted, transactionQueue, queueEnabled,
                       inProgress, backendVars, callbackVars, scriptVars, contextVars>>
    BY DEF InterruptDatabase
  <1>3. \A u \in Txn : /\ Queued(u)' = Queued(u) /\ Posted(u)' = Posted(u)
                       /\ Pending(u)' = Pending(u) /\ Waiting(u)' = Waiting(u) /\ UnderWay(u)' = UnderWay(u)
    BY <1>1 DEF Queued, Posted, Pending, Waiting, UnderWay
  <1>4. Active' = Active /\ \A e \in Db : Usable(e)' => Usable(e)
    BY <1>1 DEF Active, Usable
  <1>6. ThreadTypes' /\ LockTypes' /\ HandleTypes' /\ MachineTypes' /\ WorkTypes' /\ ContextTypes'
    BY <1>0, <1>1 DEF ThreadTypes, LockTypes, HandleTypes, MachineTypes, WorkTypes, ContextTypes
  <1>7. Tokens'
    BY <1>1, <1>3 DEF DInv, Tokens
  <1>8. Locks'
    BY <1>1, <1>3, <1>4 DEF DInv, Locks
  <1>9. Turns'
    BY <1>1, <1>3, <1>4 DEF DInv, Turns
  <1>10. Handles'
    BY <1>1, <1>3 DEF DInv, Handles
  <1>11. Data'
    BY <1>1, <1>4 DEF DInv, Data
  <1>12. AtEnd'
    BY <1>1, <1>3 DEF DInv, AtEnd
  <1>13. Closes'
    BY <1>1 DEF DInv, Closes, Queued
  <1>14. Budget'
    BY <1>1 DEF DInv, Budget
  <1>15. Outcomes'
    <2> SUFFICES ASSUME NEW u \in Txn PROVE Outcome(u)'
      BY DEF Outcomes
    <2> QED
      BY <1>1, <1>3, OutcomeStays
  <1> QED
    BY <1>6, <1>7, <1>8, <1>9, <1>10, <1>11, <1>12, <1>13, <1>14, <1>15, TypesAre DEF DInv

LEMMA StopKeeps ==
    ASSUME DInv, StopDatabases
    PROVE  DInv'
  <1> USE DatabaseAssumption
      DEF threadVars, coordinatorVars, databaseVars, callbackVars, scriptVars, contextVars, statementVars,
          backendVars, machineVars
  <1>0. ThreadTypes /\ LockTypes /\ HandleTypes /\ MachineTypes /\ WorkTypes /\ ContextTypes
    BY TypesAre DEF DInv
  <1>1. /\ killed' = TRUE /\ (~worker => deleteStep = "idle")
        /\ UNCHANGED <<queue, thread, running, closing, coordinatorVars, databaseVars, backendVars,
                       callbackVars, scriptVars, contextVars>>
    BY DEF StopDatabases
  <1>3. \A u \in Txn : /\ Queued(u)' = Queued(u) /\ Posted(u)' = Posted(u)
                       /\ Pending(u)' = Pending(u) /\ Waiting(u)' = Waiting(u) /\ UnderWay(u)' = UnderWay(u)
    BY <1>1 DEF Queued, Posted, Pending, Waiting, UnderWay
  <1>4. Active' = Active /\ \A e \in Db : Usable(e)' => Usable(e)
    BY <1>1 DEF Active, Usable
  <1>6. ThreadTypes' /\ LockTypes' /\ HandleTypes' /\ MachineTypes' /\ WorkTypes' /\ ContextTypes'
    BY <1>0, <1>1 DEF ThreadTypes, LockTypes, HandleTypes, MachineTypes, WorkTypes, ContextTypes
  <1>7. Tokens'
    BY <1>1, <1>3 DEF DInv, Tokens
  <1>8. Locks'
    BY <1>1, <1>3, <1>4 DEF DInv, Locks
  <1>9. Turns'
    BY <1>1, <1>3, <1>4 DEF DInv, Turns
  <1>10. Handles'
    BY <1>1, <1>3 DEF DInv, Handles
  <1>11. Data'
    BY <1>1, <1>4 DEF DInv, Data
  <1>12. AtEnd'
    BY <1>1, <1>3 DEF DInv, AtEnd
  <1>13. Closes'
    BY <1>1 DEF DInv, Closes, Queued
  <1>14. Budget'
    BY <1>1 DEF DInv, Budget
  <1>15. Outcomes'
    <2> SUFFICES ASSUME NEW u \in Txn PROVE Outcome(u)'
      BY DEF Outcomes
    <2> QED
      BY <1>1, <1>3, OutcomeStays
  <1> QED
    BY <1>6, <1>7, <1>8, <1>9, <1>10, <1>11, <1>12, <1>13, <1>14, <1>15, TypesAre DEF DInv

LEMMA ScheduleCloseKeeps ==
    ASSUME DInv, ScheduleClose
    PROVE  DInv'
  <1> USE DatabaseAssumption
      DEF threadVars, coordinatorVars, databaseVars, callbackVars, scriptVars, contextVars, statementVars,
          backendVars, machineVars
  <1>0. ThreadTypes /\ LockTypes /\ HandleTypes /\ MachineTypes /\ WorkTypes /\ ContextTypes
    BY TypesAre DEF DInv
  <1>1. /\ deleteStep = "checked" /\ queue' = <<deleting>> \o queue /\ deleteStep' = "waiting"
        /\ UNCHANGED <<killed, thread, running, closing, coordinatorVars, databaseVars, backendVars,
                       callbackVars, scriptVars, worker, unissued, deleting>>
    BY DEF ScheduleClose, ScheduledImmediately
  <1>2. /\ deleting \in Db /\ queue' \in Seq(Task) /\ Distinct(queue')
        /\ \A k \in Task : k \in ToSet(queue') <=> k \in ToSet(queue) \/ k = deleting
    <2>1. deleting \in Db /\ deleting \in Task /\ deleting \notin Txn /\ queue \in Seq(Task) /\ Distinct(queue)
      BY <1>0, <1>1 DEF DInv, Closes, Task, ThreadTypes, Tokens
    <2>2. <<deleting>> \in Seq(Task) /\ ToSet(<<deleting>>) = {deleting} /\ Distinct(<<deleting>>)
      BY <2>1, OneIs
    <2> DEFINE one == <<deleting>>
    <2>3. one \in Seq(Task) /\ ToSet(one) = {deleting} /\ Distinct(one) /\ queue' = one \o queue
      BY <1>1, <2>2
    <2> HIDE DEF one
    <2>4. /\ one \o queue \in Seq(Task) /\ ToSet(one \o queue) = {deleting} \cup ToSet(queue)
          /\ Distinct(one \o queue)
      BY <2>1, <2>3, ConcatIs
    <2> QED
      BY <2>1, <2>3, <2>4
  <1>5. \A e \in Db : Queued(e)' <=> Queued(e) \/ e = deleting
    BY <1>2 DEF Queued, Task
  <1>3. \A u \in Txn : /\ Queued(u)' = Queued(u) /\ Posted(u)' = Posted(u)
                       /\ Pending(u)' = Pending(u) /\ Waiting(u)' = Waiting(u) /\ UnderWay(u)' = UnderWay(u)
    <2>1. \A u \in Txn : Queued(u)' = Queued(u)
      BY <1>2 DEF Queued, Task
    <2> QED
      BY <1>1, <2>1 DEF Posted, Pending, Waiting, UnderWay
  <1>4. Active' = Active /\ \A e \in Db : Usable(e)' => Usable(e)
    BY <1>1 DEF Active, Usable
  <1>6. ThreadTypes' /\ LockTypes' /\ HandleTypes' /\ MachineTypes' /\ WorkTypes' /\ ContextTypes'
    BY <1>0, <1>1, <1>2 DEF ThreadTypes, LockTypes, HandleTypes, MachineTypes, WorkTypes, ContextTypes
  <1>7. Tokens'
    BY <1>1, <1>2, <1>3 DEF DInv, Tokens
  <1>8. Locks'
    BY <1>1, <1>3, <1>4 DEF DInv, Locks
  <1>9. Turns'
    BY <1>1, <1>3, <1>4 DEF DInv, Turns
  <1>10. Handles'
    BY <1>1, <1>3 DEF DInv, Handles
  <1>11. Data'
    BY <1>1, <1>4 DEF DInv, Data
  <1>12. AtEnd'
    BY <1>1, <1>3 DEF DInv, AtEnd
  <1>13. Closes'
    BY <1>1, <1>2, <1>5 DEF DInv, Closes
  <1>14. Budget'
    BY <1>1 DEF DInv, Budget
  <1>15. Outcomes'
    <2> SUFFICES ASSUME NEW u \in Txn PROVE Outcome(u)'
      BY DEF Outcomes
    <2> QED
      BY <1>1, <1>3, OutcomeStays
  <1> QED
    BY <1>6, <1>7, <1>8, <1>9, <1>10, <1>11, <1>12, <1>13, <1>14, <1>15, TypesAre DEF DInv

(* The coordinator shuts down.  Nobody has the lock afterwards, and if     *)
(* nothing is pending the transactions that are left wait for a handle or  *)
(* for their first step.                                                   *)
LEMMA ShutdownKeeps ==
    ASSUME DInv, Shutdown, UNCHANGED <<scriptVars, contextVars>>
    PROVE  DInv'
  <1> USE DatabaseAssumption, ReadOnlyAssumption
      DEF databaseVars, callbackVars, scriptVars, contextVars, machineVars
  <1>0. ThreadTypes /\ LockTypes /\ HandleTypes /\ MachineTypes /\ WorkTypes /\ ContextTypes
    BY TypesAre DEF DInv
  <1> DEFINE F == Active \cup (IF ShutdownReturns THEN {} ELSE {Head(pending)})
  <1>1. /\ thread = "loop" /\ killed /\ running = NoTxn /\ closing = NoDb
        /\ shuttingDown' = TRUE /\ pending' = pending /\ Forget(F)
        /\ UNCHANGED <<queue, killed, running, closing, databaseVars, machineVars, lockAcquired,
                       current, retry, callbackVars, scriptVars, contextVars>>
    BY DEF Shutdown, Exits, CoordinatorShutdown
  <1>2. \/ pending = <<>> /\ thread' = "shutdown" /\ activeReads' = {} /\ activeWrite' = NoTxn
        \/ pending # <<>> /\ thread' = "spinning" /\ activeReads' = activeReads /\ activeWrite' = activeWrite
    BY DEF Shutdown, CoordinatorShutdown, ShutdownReturns
  <1>3. \A u \in F : u \in Active \/ Pending(u)
    <2>1. pending # <<>> => Head(pending) \in ToSet(pending)
      BY <1>0, TailIs DEF LockTypes
    <2> QED
      BY <2>1 DEF ShutdownReturns, Pending
  <1>4. Active \subseteq F
    OBVIOUS
  <1> HIDE DEF F
  <1>5. /\ frontend' = [u \in Txn |-> frontend[u] /\ u \notin F]
        /\ originLock' = IF originLock \in F THEN NoTxn ELSE originLock
        /\ statements' = [u \in Txn |-> IF u \in F THEN 0 ELSE statements[u]]
        /\ sqlite' = [u \in Txn |-> IF u \in F /\ sqlite[u] = "open" THEN "none" ELSE sqlite[u]]
    BY <1>1 DEF Forget, OriginLockWithout
  <1>6. ~shuttingDown
    BY <1>1 DEF DInv, Locks
  <1>7. \A u \in Txn : /\ frontend'[u] <=> frontend[u] /\ u \notin F
                       /\ sqlite'[u] = "committed" <=> sqlite[u] = "committed"
                       /\ sqlite'[u] = "open" => sqlite[u] = "open" /\ u \notin F
    BY <1>5
  <1>8. \A u \in Txn : /\ Queued(u)' = Queued(u) /\ Posted(u)' = Posted(u)
                       /\ Pending(u)' = Pending(u) /\ Waiting(u)' = Waiting(u) /\ UnderWay(u)' = UnderWay(u)
    BY <1>1 DEF Queued, Posted, Pending, Waiting, UnderWay
  <1>9. ThreadTypes' /\ LockTypes' /\ HandleTypes' /\ MachineTypes' /\ ContextTypes'
    BY <1>0, <1>1, <1>2 DEF ThreadTypes, LockTypes, HandleTypes, MachineTypes, ContextTypes
  <1>10. WorkTypes'
    <2>1. frontend' \in [Txn -> BOOLEAN]
      BY <1>5, Zenon
    <2>2. sqlite' \in [Txn -> {"none", "open", "committed"}]
      BY <1>0, <1>5 DEF WorkTypes
    <2>3. statements' \in [Txn -> 0 .. MaxStatements]
      BY <1>0, <1>5, StatementAssumption DEF WorkTypes
    <2> QED
      BY <1>0, <1>1, <1>5, <2>1, <2>2, <2>3 DEF WorkTypes
  <1>11. Tokens'
    BY <1>1, <1>2, <1>7, <1>8 DEF DInv, Tokens
  <1>12. Locks'
    <2>1. ASSUME NEW u \in Txn, Waiting(u) PROVE ~lockAcquired[u] /\ frontend[u] /\ u \notin F
      <3>1. ~lockAcquired[u] /\ frontend[u] /\ (u \in Active <=> frontend[u] /\ lockAcquired[u])
        BY <1>6, <2>1 DEF DInv, Locks
      <3>2. ~Pending(u)
        BY <2>1 DEF DInv, Tokens
      <3> QED
        BY <1>3, <3>1, <3>2
    <2>2. /\ thread' \in {"shutdown", "spinning"}
          /\ thread' = "shutdown" => Active' = {} /\ pending' = <<>>
          /\ activeWrite' # NoTxn => activeReads' = {}
      BY <1>1, <1>2 DEF DInv, Locks, Active
    <2>3. ASSUME NEW u \in Txn
          PROVE  /\ Pending(u)' => ~lockAcquired'[u]
                 /\ Waiting(u)' => ~lockAcquired'[u] /\ frontend'[u]
                 /\ u \in unissued' => ~lockAcquired'[u]
      <3>1. (Pending(u) => ~lockAcquired[u]) /\ (u \in unissued => ~lockAcquired[u])
        BY DEF DInv, Locks
      <3>2. lockAcquired' = lockAcquired /\ unissued' = unissued
        BY <1>1
      <3> QED
        BY <1>7, <1>8, <2>1, <3>1, <3>2
    <2> QED
      BY <1>1, <2>2, <2>3 DEF Locks
  <1>13. Turns'
    BY <1>1, <1>2, <1>7, <1>8 DEF DInv, Turns
  <1>14. Handles'
    BY <1>1, <1>7, <1>8 DEF DInv, Handles
  <1>15. Data'
    <2>1. originLock # NoTxn => originLock \in F
      BY <1>4 DEF DInv, Data, Active
    <2>2. \A u \in Txn : sqlite[u] = "open" => u \in F
      BY <1>4 DEF DInv, Data
    <2> QED
      BY <1>5, <1>7, <2>1, <2>2 DEF Data
  <1>16. AtEnd'
    <2>1. ASSUME NEW u \in Txn, frontend'[u]
          PROVE  /\ thread' = "shutdown" => (Queued(u)' \/ Waiting(u)') /\ ~lockAcquired'[u]
                 /\ Queued(u)' /\ ~lockAcquired'[u] => opened'[DbOf[u]] \/ closing' = DbOf[u]
      <3>1. frontend[u] /\ u \notin F /\ u \notin Active
        BY <1>4, <1>7, <2>1
      <3>2. ~lockAcquired[u]
        BY <1>6, <3>1 DEF DInv, Locks
      <3>3. UnderWay(u) /\ ~Posted(u)
        BY <1>1, <3>1, <3>2 DEF DInv, Tokens, Turns
      <3>4. pending = <<>> => ~Pending(u)
        BY NoneIs DEF Pending
      <3>5. Queued(u) => opened[DbOf[u]] \/ closing = DbOf[u]
        BY <1>1, <3>1, <3>2 DEF DInv, AtEnd
      <3>6. thread' = "shutdown" => Queued(u) \/ Waiting(u)
        BY <1>1, <1>2, <3>3, <3>4 DEF UnderWay
      <3> QED
        BY <1>1, <1>8, <3>2, <3>5, <3>6
    <2> QED
      BY <1>2, <2>1 DEF AtEnd
  <1>17. Closes'
    BY <1>1, <1>2 DEF DInv, Closes, Queued
  <1>18. Budget'
    <2> SUFFICES ASSUME NEW u \in Txn PROVE statements'[u] + allowance[u] <= MaxStatements
      BY <1>1 DEF Budget
    <2>1. /\ statements[u] \in Nat /\ allowance[u] \in Nat /\ MaxStatements \in Nat
          /\ statements[u] + allowance[u] <= MaxStatements
      BY <1>0, StatementAssumption DEF DInv, Budget, WorkTypes, ContextTypes
    <2>2. statements'[u] = 0 \/ statements'[u] = statements[u]
      BY <1>5
    <2> QED
      BY <2>1, <2>2
  <1>19. Outcomes'
    <2> SUFFICES ASSUME NEW u \in Txn PROVE Outcome(u)'
      BY DEF Outcomes
    <2> QED
      BY <1>1, <1>7, <1>8, OutcomeStays
  <1> QED
    BY <1>9, <1>10, <1>11, <1>12, <1>13, <1>14, <1>15, <1>16, <1>17, <1>18, <1>19, TypesAre DEF DInv

-----------------------------------------------------------------------------
(* Script starts a transaction.                                            *)

(* Where runTransaction puts it: on the thread's queue if the handle is    *)
(* idle, behind the others of the handle if it is not.                     *)
LEMMA AddIs ==
    ASSUME DInv, NEW t \in Txn, t \in unissued, queueEnabled[DbOf[t]], AddTransaction(t)
    PROVE  /\ queue' \in Seq(Task) /\ Distinct(queue')
           /\ transactionQueue' \in [Db -> Seq(Txn)] /\ inProgress' \in [Db -> BOOLEAN]
           /\ \A e \in Db : e # DbOf[t] => transactionQueue'[e] = transactionQueue[e] /\ inProgress'[e] = inProgress[e]
           /\ Distinct(transactionQueue'[DbOf[t]])
           /\ \A u \in ToSet(transactionQueue'[DbOf[t]]) : DbOf[u] = DbOf[t]
           /\ inProgress'[DbOf[t]]
           /\ ~inProgress[DbOf[t]] => transactionQueue[DbOf[t]] = <<>>
           /\ \A k \in Task : Queued(k)' <=> Queued(k) \/ (k = t /\ ~inProgress[DbOf[t]])
           /\ \A u \in Txn : Waiting(u)' <=> Waiting(u) \/ (u = t /\ inProgress[DbOf[t]])
  <1> DEFINE d == DbOf[t]
             p == transactionQueue[d]
             q == Append(p, t)
             s == ScheduledTransaction(d, q)
  <1> USE DatabaseAssumption
  <1>0. ThreadTypes /\ HandleTypes
    BY TypesAre DEF DInv
  <1>1. d \in Db
    OBVIOUS
  <1>2. /\ p \in Seq(Txn) /\ Distinct(p) /\ t \notin ToSet(p) /\ ~Queued(t)
        /\ \A u \in ToSet(p) : DbOf[u] = d
        /\ queue \in Seq(Task) /\ Distinct(queue)
    BY <1>0, <1>1 DEF HandleTypes, ThreadTypes, DInv, Tokens, UnderWay, Waiting
  <1>3. q \in Seq(Txn) /\ q # <<>> /\ Distinct(q) /\ ToSet(q) = ToSet(p) \cup {t}
    BY <1>2, AppendIs
  <1>4. ~inProgress[d] => p = <<>>
    BY <1>1 DEF DInv, Handles
  <1>5. CASE inProgress[d]
    <2>1. transactionQueue' = [transactionQueue EXCEPT ![d] = q] /\ inProgress' = inProgress /\ queue' = queue
      BY <1>5 DEF AddTransaction
    <2> HIDE DEF q
    <2>2. /\ transactionQueue' \in [Db -> Seq(Txn)] /\ transactionQueue'[d] = q
          /\ \A e \in Db : e # d => transactionQueue'[e] = transactionQueue[e]
      BY <1>0, <1>1, <1>3, <2>1 DEF HandleTypes
    <2>3. \A u \in Txn : Waiting(u)' <=> Waiting(u) \/ u = t
      <3> SUFFICES ASSUME NEW u \in Txn PROVE Waiting(u)' <=> Waiting(u) \/ u = t
        OBVIOUS
      <3>1. DbOf[u] \in Db
        OBVIOUS
      <3>2. CASE DbOf[u] = d
        BY <1>3, <2>2, <3>2 DEF Waiting
      <3>3. CASE DbOf[u] # d
        BY <2>2, <3>1, <3>3 DEF Waiting
      <3> QED
        BY <3>2, <3>3
    <2>4. \A k \in Task : Queued(k)' <=> Queued(k)
      BY <2>1 DEF Queued
    <2> QED
      BY <1>0, <1>2, <1>3, <1>5, <2>1, <2>2, <2>3, <2>4 DEF HandleTypes
  <1>6. CASE ~inProgress[d]
    <2>1. ScheduleTransaction(d, q) /\ queue' = queue \o s
      BY <1>6 DEF AddTransaction, Scheduled
    <2>2. p = <<>> /\ ToSet(p) = {} /\ ToSet(q) = {t}
      BY <1>3, <1>4, <1>6, NoneIs
    <2>3. Head(q) = t
      BY <1>3, <2>2, TailIs
    <2> HIDE DEF q
    <2>4. /\ s \in Seq(Txn) /\ Distinct(s)
          /\ transactionQueue' \in [Db -> Seq(Txn)] /\ inProgress' \in [Db -> BOOLEAN]
          /\ \A e \in Db : e # d => transactionQueue'[e] = transactionQueue[e] /\ inProgress'[e] = inProgress[e]
          /\ Distinct(transactionQueue'[d])
          /\ ToSet(q) = ToSet(s) \cup ToSet(transactionQueue'[d])
          /\ ToSet(s) \cap ToSet(transactionQueue'[d]) = {}
          /\ \/ inProgress'[d] /\ queueEnabled[d] /\ q # <<>> /\ ToSet(s) = {Head(q)}
             \/ ~inProgress'[d] /\ (queueEnabled[d] => q = <<>>) /\ ToSet(s) = {} /\ transactionQueue'[d] = q
      BY <1>0, <1>1, <1>3, <2>1, ScheduleIs
    <2> HIDE DEF s
    <2>5. inProgress'[d] /\ ToSet(s) = {t} /\ ToSet(transactionQueue'[d]) = {}
      BY <1>3, <2>2, <2>3, <2>4
    <2>6. s \in Seq(Task)
      BY <2>4, WiderIs
    <2>7. /\ queue \o s \in Seq(Task) /\ ToSet(queue \o s) = ToSet(queue) \cup {t}
          /\ Distinct(queue \o s)
      BY <1>2, <2>4, <2>5, <2>6, ConcatIs DEF Queued
    <2>8. \A k \in Task : Queued(k)' <=> Queued(k) \/ k = t
      BY <2>1, <2>7 DEF Queued
    <2>9. \A u \in Txn : Waiting(u)' <=> Waiting(u)
      <3> SUFFICES ASSUME NEW u \in Txn PROVE Waiting(u)' <=> Waiting(u)
        OBVIOUS
      <3>1. DbOf[u] \in Db
        OBVIOUS
      <3>2. CASE DbOf[u] = d
        BY <2>2, <2>5, <3>2 DEF Waiting
      <3>3. CASE DbOf[u] # d
        BY <2>4, <3>1, <3>3 DEF Waiting
      <3> QED
        BY <3>2, <3>3
    <2> QED
      BY <1>6, <2>1, <2>2, <2>4, <2>5, <2>7, <2>8, <2>9
  <1> QED
    BY <1>5, <1>6

LEMMA RunTransactionKeeps ==
    ASSUME DInv, NEW t \in Txn, RunTransaction(t), queueEnabled[DbOf[t]]
    PROVE  DInv'
  <1> USE DatabaseAssumption
      DEF coordinatorVars, callbackVars, machineVars, statementVars
  <1>0. ThreadTypes /\ LockTypes /\ HandleTypes /\ MachineTypes /\ WorkTypes /\ ContextTypes
    BY TypesAre DEF DInv
  <1> DEFINE d == DbOf[t]
  <1>1. /\ thread # "selfLocked" /\ t \in unissued /\ unissued' = unissued \ {t} /\ AddTransaction(t)
        /\ frontend' = [frontend EXCEPT ![t] = TRUE]
        /\ wrappers' = wrappers \cup {t}
        /\ UNCHANGED <<killed, thread, running, closing, coordinatorVars, opened, interrupted, deleted,
                       queueEnabled, machineVars, lockAcquired, originLock, sqlite, statementVars,
                       callbackVars, told, allowance, worker, deleting, deleteStep>>
    BY DEF RunTransaction, ScriptRuns, QueueFree
  <1>2. /\ queue' \in Seq(Task) /\ Distinct(queue')
        /\ transactionQueue' \in [Db -> Seq(Txn)] /\ inProgress' \in [Db -> BOOLEAN]
        /\ \A e \in Db : e # d => transactionQueue'[e] = transactionQueue[e] /\ inProgress'[e] = inProgress[e]
        /\ Distinct(transactionQueue'[d])
        /\ \A u \in ToSet(transactionQueue'[d]) : DbOf[u] = d
        /\ inProgress'[d]
        /\ ~inProgress[d] => transactionQueue[d] = <<>>
        /\ \A k \in Task : Queued(k)' <=> Queued(k) \/ (k = t /\ ~inProgress[d])
        /\ \A u \in Txn : Waiting(u)' <=> Waiting(u) \/ (u = t /\ inProgress[d])
    BY <1>1, AddIs
  <1>3. /\ d \in Db /\ opened[d] /\ closing # d /\ queueEnabled[d]
    BY DEF DInv, Handles
  <1>4. /\ ~frontend[t] /\ ~Queued(t) /\ ~Posted(t) /\ ~Pending(t) /\ ~Waiting(t) /\ running # t
        /\ ~lockAcquired[t] /\ next[t] \in {"Idle", "End"} /\ next[t] # "End" /\ requested[t] = "AcquireLock"
        /\ scriptRequested[t] = "Idle"
    BY <1>1 DEF DInv, Tokens, Locks, Turns, Outcomes, Outcome, UnderWay
  <1> HIDE DEF d
  <1>5. \A u \in Txn : /\ Queued(u)' <=> Queued(u) \/ (u = t /\ ~inProgress[d])
                       /\ Posted(u)' <=> Posted(u)
                       /\ Pending(u)' <=> Pending(u)
                       /\ Waiting(u)' <=> Waiting(u) \/ (u = t /\ inProgress[d])
                       /\ UnderWay(u)' <=> UnderWay(u) \/ u = t
                       /\ frontend'[u] <=> frontend[u] \/ u = t
    <2>1. \A u \in Txn : Queued(u)' <=> Queued(u) \/ (u = t /\ ~inProgress[d])
      BY <1>2 DEF Task
    <2>2. \A u \in Txn : (Posted(u)' <=> Posted(u)) /\ (Pending(u)' <=> Pending(u))
      BY <1>1 DEF Posted, Pending
    <2>3. \A u \in Txn : frontend'[u] <=> frontend[u] \/ u = t
      BY <1>0, <1>1 DEF WorkTypes
    <2>4. running' = running
      BY <1>1
    <2> QED
      BY <1>2, <2>1, <2>2, <2>3, <2>4 DEF UnderWay
  <1>6. /\ Active' = Active /\ \A e \in Db : (Usable(e)' <=> Usable(e)) /\ (Queued(e)' <=> Queued(e))
    BY <1>1, <1>2 DEF Active, Usable, Task
  <1>7. ThreadTypes' /\ LockTypes' /\ HandleTypes' /\ MachineTypes' /\ WorkTypes' /\ ContextTypes'
    <2>1. frontend' \in [Txn -> BOOLEAN]
      BY <1>0, <1>1 DEF WorkTypes
    <2>2. ThreadTypes' /\ HandleTypes'
      BY <1>0, <1>1, <1>2 DEF ThreadTypes, HandleTypes
    <2>3. LockTypes' /\ MachineTypes' /\ ContextTypes'
      BY <1>0, <1>1 DEF LockTypes, MachineTypes, ContextTypes
    <2>4. WorkTypes'
      BY <1>0, <1>1, <2>1 DEF WorkTypes
    <2> QED
      BY <2>2, <2>3, <2>4
  <1>8. Tokens'
    <2>1. ASSUME NEW u \in Txn
          PROVE  /\ Queued(u)' => ~Posted(u)' /\ ~Pending(u)' /\ ~Waiting(u)' /\ running' # u
                 /\ Posted(u)' => ~Pending(u)' /\ ~Waiting(u)' /\ running' # u
                 /\ Pending(u)' => ~Waiting(u)' /\ running' # u
                 /\ Waiting(u)' => running' # u
                 /\ u \in unissued' => ~frontend'[u] /\ ~UnderWay(u)'
                 /\ frontend'[u] /\ thread' = "loop" => UnderWay(u)'
      <3>1. /\ Queued(u) => ~Posted(u) /\ ~Pending(u) /\ ~Waiting(u) /\ running # u
            /\ Posted(u) => ~Pending(u) /\ ~Waiting(u) /\ running # u
            /\ Pending(u) => ~Waiting(u) /\ running # u
            /\ Waiting(u) => running # u
            /\ u \in unissued => ~frontend[u] /\ ~UnderWay(u)
            /\ frontend[u] /\ thread = "loop" => UnderWay(u)
        BY DEF DInv, Tokens
      <3>2. running' = running /\ thread' = thread /\ (u \in unissued' <=> u \in unissued /\ u # t)
        BY <1>1
      <3> QED
        BY <1>4, <1>5, <3>1, <3>2
    <2>2. \A e \in Db : /\ Distinct(transactionQueue'[e])
                        /\ \A u \in ToSet(transactionQueue'[e]) : DbOf[u] = e
      BY <1>2 DEF DInv, Tokens
    <2>3. Distinct(posted') /\ Distinct(pending')
      BY <1>1 DEF DInv, Tokens
    <2> QED
      BY <1>2, <2>1, <2>2, <2>3 DEF Tokens
  <1>9. Locks'
    <2>1. ASSUME NEW u \in Txn
          PROVE  /\ ~shuttingDown' => (u \in Active' <=> frontend'[u] /\ lockAcquired'[u])
                 /\ Pending(u)' => ~lockAcquired'[u] /\ (~shuttingDown' => frontend'[u])
                 /\ Waiting(u)' => ~lockAcquired'[u] /\ frontend'[u]
                 /\ u \in unissued' => ~lockAcquired'[u]
      <3>1. /\ ~shuttingDown => (u \in Active <=> frontend[u] /\ lockAcquired[u])
            /\ Pending(u) => ~lockAcquired[u] /\ (~shuttingDown => frontend[u])
            /\ Waiting(u) => ~lockAcquired[u] /\ frontend[u]
            /\ u \in unissued => ~lockAcquired[u]
        BY DEF DInv, Locks
      <3>2. /\ shuttingDown' = shuttingDown /\ lockAcquired' = lockAcquired
            /\ (u \in unissued' => u \in unissued)
        BY <1>1
      <3> QED
        BY <1>4, <1>5, <1>6, <3>1, <3>2
    <2>2. UNCHANGED <<shuttingDown, thread, pending, activeWrite, activeReads>>
      BY <1>1
    <2> QED
      BY <1>6, <2>1, <2>2 DEF DInv, Locks
  <1>10. Turns'
    <2>1. ASSUME NEW u \in Txn
          PROVE  /\ running' # u => next'[u] \in {"Idle", "End"}
                 /\ frontend'[u] \/ u \in unissued' => next'[u] # "End"
                 /\ running' = u => next'[u] \in BackendState /\ (next'[u] = "AcquireLock" <=> ~lockAcquired'[u])
                 /\ Queued(u)' /\ frontend'[u] =>
                       requested'[u] \in BackendState /\ (requested'[u] = "AcquireLock" <=> ~lockAcquired'[u])
                 /\ Posted(u)' /\ frontend'[u] => lockAcquired'[u]
                 /\ Waiting(u)' \/ u \in unissued' => requested'[u] = "AcquireLock"
                 /\ /\ ~frontend'[u] /\ (Queued(u)' \/ Posted(u)') /\ thread' \in {"loop", "selfLocked"}
                    => next'[u] = "End" /\ ~Usable(DbOf[u])'
      <3>1. /\ running # u => next[u] \in {"Idle", "End"}
            /\ frontend[u] \/ u \in unissued => next[u] # "End"
            /\ running = u => next[u] \in BackendState /\ (next[u] = "AcquireLock" <=> ~lockAcquired[u])
            /\ Queued(u) /\ frontend[u] =>
                  requested[u] \in BackendState /\ (requested[u] = "AcquireLock" <=> ~lockAcquired[u])
            /\ Posted(u) /\ frontend[u] => lockAcquired[u]
            /\ Waiting(u) \/ u \in unissued => requested[u] = "AcquireLock"
            /\ /\ ~frontend[u] /\ (Queued(u) \/ Posted(u)) /\ thread \in {"loop", "selfLocked"}
               => next[u] = "End" /\ ~Usable(DbOf[u])
        BY DEF DInv, Turns
      <3>2. DbOf[u] \in Db
        OBVIOUS
      <3>3. /\ UNCHANGED <<running, next, requested, lockAcquired, thread>>
            /\ (u \in unissued' <=> u \in unissued /\ u # t)
        BY <1>1
      <3>4. Usable(DbOf[u])' <=> Usable(DbOf[u])
        BY <1>6, <3>2
      <3>5. "AcquireLock" \in BackendState
        BY DEF BackendState
      <3>6. CASE u = t
        BY <1>4, <1>5, <3>1, <3>3, <3>5, <3>6
      <3>7. CASE u # t
        BY <1>5, <3>1, <3>3, <3>4, <3>7
      <3> QED
        BY <3>6, <3>7
    <2>2. /\ closing' # NoDb => running' = NoTxn /\ thread' \in {"loop", "shutdown", "selfLocked"}
          /\ running' # NoTxn => thread' = "loop" /\ frontend'[running'] /\ requested'[running'] = "Idle"
      BY <1>0, <1>1, <1>5 DEF DInv, Turns, ThreadTypes
    <2> QED
      BY <2>1, <2>2 DEF Turns
  <1>11. Handles'
    <2>1. \A e \in Db : /\ queueEnabled'[e] => opened'[e] /\ closing' # e
                        /\ ~(queueEnabled'[e] /\ inProgress'[e]) => transactionQueue'[e] = <<>>
      BY <1>1, <1>2, <1>3 DEF DInv, Handles
    <2>2. ASSUME NEW u \in Txn, frontend'[u], ~Waiting(u)', queueEnabled'[DbOf[u]] PROVE inProgress'[DbOf[u]]
      <3>1. DbOf[u] \in Db
        OBVIOUS
      <3>2. CASE DbOf[u] = d
        BY <1>2, <3>2
      <3>3. CASE DbOf[u] # d
        <4>1. u # t
          BY <3>3 DEF d
        <4>2. frontend[u] /\ ~Waiting(u) /\ queueEnabled[DbOf[u]]
          BY <1>1, <1>5, <2>2, <4>1
        <4> QED
          BY <1>2, <3>1, <3>3, <4>2 DEF DInv, Handles
      <3> QED
        BY <3>2, <3>3
    <2>3. ASSUME NEW u \in Txn, u # t, DbOf[u] = d, frontend[u], ~inProgress[d] PROVE FALSE
      <3>1. Waiting(u)
        BY <1>3, <2>3 DEF DInv, Handles
      <3> QED
        BY <1>2, <2>3, <3>1, NoneIs DEF Waiting
    <2>4. ASSUME NEW r \in Txn, NEW u \in Txn, r # u, DbOf[r] = DbOf[u], frontend'[r], frontend'[u]
          PROVE  Waiting(r)' \/ Waiting(u)'
      <3>1. CASE r = t
        <4>1. DbOf[u] = d /\ frontend[u] /\ u # t
          BY <1>5, <2>4, <3>1 DEF d
        <4> QED
          BY <1>5, <2>3, <3>1, <4>1
      <3>2. CASE u = t
        <4>1. DbOf[r] = d /\ frontend[r] /\ r # t
          BY <1>5, <2>4, <3>2 DEF d
        <4> QED
          BY <1>5, <2>3, <3>2, <4>1
      <3>3. CASE r # t /\ u # t
        BY <1>5, <2>4, <3>3 DEF DInv, Handles
      <3> QED
        BY <3>1, <3>2, <3>3
    <2> QED
      BY <2>1, <2>2, <2>4 DEF Handles
  <1>12. Data'
    <2>1. UNCHANGED <<originLock, activeWrite, sqlite, lockAcquired>>
      BY <1>1
    <2> QED
      BY <1>0, <1>5, <1>6, <2>1 DEF DInv, Data, WorkTypes
  <1>13. AtEnd'
    <2>1. UNCHANGED <<thread, closing, opened, lockAcquired>>
      BY <1>1
    <2>2. thread # "ended"
      BY <1>3 DEF DInv, AtEnd
    <2>3. ASSUME NEW u \in Txn, frontend'[u]
          PROVE  /\ thread = "shutdown" => (Queued(u)' \/ Waiting(u)') /\ ~lockAcquired[u]
                 /\ Queued(u)' /\ ~lockAcquired[u] /\ thread \in {"loop", "shutdown"} =>
                       opened[DbOf[u]] \/ closing = DbOf[u]
      <3>1. CASE u = t
        BY <1>3, <1>4, <1>5, <3>1 DEF d
      <3>2. CASE u # t
        <4>1. frontend[u]
          BY <1>5, <2>3, <3>2
        <4> QED
          BY <1>5, <3>2, <4>1 DEF DInv, AtEnd
      <3> QED
        BY <3>1, <3>2
    <2> QED
      BY <2>1, <2>2, <2>3 DEF AtEnd
  <1>14. Closes'
    <2>1. UNCHANGED <<thread, closing, killed, worker, deleting, deleteStep>>
      BY <1>1
    <2> QED
      BY <1>6, <2>1 DEF DInv, Closes
  <1>15. Budget'
    BY <1>1 DEF DInv, Budget
  <1>16. Outcomes'
    <2>1. ASSUME NEW u \in Txn, u # t PROVE Outcome(u)'
      BY <1>1, <1>5, <2>1, OutcomeStays
    <2>2. Outcome(t)'
      <3>1. Outcome(t)
        BY DEF DInv, Outcomes
      <3>2. told[t] \notin {"success", "error"} /\ sqlite[t] # "committed"
        BY <1>1, <1>4, <3>1 DEF Outcome
      <3>3. UNCHANGED <<told, sqlite, scriptRequested>> /\ t \notin unissued'
        BY <1>1
      <3> QED
        BY <1>4, <3>2, <3>3 DEF Outcome
    <2> QED
      BY <2>1, <2>2 DEF Outcomes
  <1> QED
    BY <1>7, <1>8, <1>9, <1>10, <1>11, <1>12, <1>13, <1>14, <1>15, <1>16, TypesAre DEF DInv

(* On a closed handle it only calls the error callback.                    *)
LEMMA RefuseTransactionKeeps ==
    ASSUME DInv, NEW t \in Txn, RunTransaction(t), ~queueEnabled[DbOf[t]]
    PROVE  DInv'
  <1> USE DatabaseAssumption
      DEF coordinatorVars, callbackVars, machineVars, statementVars
  <1>0. ThreadTypes /\ LockTypes /\ HandleTypes /\ MachineTypes /\ WorkTypes /\ ContextTypes
    BY TypesAre DEF DInv
  <1>1. /\ t \in unissued /\ unissued' = unissued \ {t}
        /\ UNCHANGED <<queue, killed, thread, running, closing, coordinatorVars, opened, interrupted, deleted,
                       transactionQueue, inProgress, frontend, wrappers,
                       queueEnabled, machineVars, lockAcquired, originLock, sqlite, statementVars,
                       callbackVars, allowance, worker, deleting, deleteStep>>
    BY DEF RunTransaction
  <1>2. told' = [told EXCEPT ![t] = "error"] \/ told' = told
    BY DEF RunTransaction
  <1>3. \A u \in Txn : /\ Queued(u)' = Queued(u) /\ Posted(u)' = Posted(u)
                       /\ Pending(u)' = Pending(u) /\ Waiting(u)' = Waiting(u) /\ UnderWay(u)' = UnderWay(u)
    BY <1>1 DEF Queued, Posted, Pending, Waiting, UnderWay
  <1>4. Active' = Active /\ \A e \in Db : Usable(e)' <=> Usable(e)
    BY <1>1 DEF Active, Usable
  <1>5. unissued' \subseteq unissued
    BY <1>1
  <1>6. ThreadTypes' /\ LockTypes' /\ HandleTypes' /\ MachineTypes' /\ WorkTypes' /\ ContextTypes'
    <2>1. told' \in [Txn -> {"nothing", "success", "error"}]
      BY <1>0, <1>2 DEF ContextTypes
    <2>2. ContextTypes'
      BY <1>0, <1>1, <1>5, <2>1 DEF ContextTypes
    <2> QED
      BY <1>0, <1>1, <2>2 DEF ThreadTypes, LockTypes, HandleTypes, MachineTypes, WorkTypes
  <1>7. Tokens'
    BY <1>1, <1>3, <1>5 DEF DInv, Tokens
  <1>8. Locks'
    BY <1>1, <1>3, <1>4, <1>5 DEF DInv, Locks
  <1>9. Turns'
    BY <1>1, <1>3, <1>4, <1>5 DEF DInv, Turns
  <1>10. Handles'
    BY <1>1, <1>3 DEF DInv, Handles
  <1>11. Data'
    BY <1>1, <1>4 DEF DInv, Data
  <1>12. AtEnd'
    BY <1>1, <1>3 DEF DInv, AtEnd
  <1>13. Closes'
    BY <1>1 DEF DInv, Closes, Queued
  <1>14. Budget'
    BY <1>1 DEF DInv, Budget
  <1>15. Outcomes'
    <2>1. ASSUME NEW u \in Txn, u # t PROVE Outcome(u)'
      <3>1. told'[u] = told[u]
        BY <1>0, <1>2, <2>1 DEF ContextTypes
      <3> QED
        BY <1>1, <1>3, <1>5, <3>1, OutcomeStays
    <2>2. Outcome(t)'
      <3>1. /\ Outcome(t) /\ ~lockAcquired[t] /\ ~UnderWay(t) /\ ~frontend[t] /\ next[t] \in {"Idle", "End"}
        BY <1>1 DEF DInv, Outcomes, Locks, Tokens, Turns, UnderWay
      <3>2. /\ told[t] # "success" /\ sqlite[t] # "committed" /\ scriptRequested[t] = "Idle"
        BY <1>1, <3>1 DEF Outcome
      <3>3. told'[t] # "success"
        BY <1>0, <1>2, <3>2 DEF ContextTypes
      <3>4. ~Pending(t)' /\ ~Waiting(t)' /\ ~UnderWay(t)' /\ t \notin unissued'
        BY <1>1, <1>3, <3>1 DEF UnderWay
      <3> QED
        BY <1>1, <3>1, <3>2, <3>3, <3>4 DEF Outcome
    <2> QED
      BY <2>1, <2>2 DEF Outcomes
  <1> QED
    BY <1>6, <1>7, <1>8, <1>9, <1>10, <1>11, <1>12, <1>13, <1>14, <1>15, TypesAre DEF DInv

-----------------------------------------------------------------------------
LEMMA DInvInit == Init => DInv
  <1> USE DatabaseAssumption, ReadOnlyAssumption, StatementAssumption
  <1> SUFFICES ASSUME Init PROVE DInv
    OBVIOUS
  <1>1. /\ queue = <<>> /\ killed = FALSE /\ thread = "loop" /\ running = NoTxn /\ closing = NoDb
        /\ pending = <<>> /\ activeReads = {} /\ activeWrite = NoTxn /\ shuttingDown = FALSE
        /\ posted = <<>> /\ unissued = Txn /\ deleting = NoDb /\ deleteStep = "idle"
        /\ originLock = NoTxn /\ wrappers = {} /\ worker \in BOOLEAN
    BY DEF Init, DatabaseThreadInit, CoordinatorInit, BackendInit, SQLTransactionInit
  <1>2. /\ opened = [d \in Db |-> TRUE] /\ interrupted = [d \in Db |-> FALSE] /\ deleted = [d \in Db |-> FALSE]
        /\ transactionQueue = [d \in Db |-> <<>>]
        /\ queueEnabled = [d \in Db |-> TRUE] /\ inProgress = [d \in Db |-> FALSE]
    BY DEF Init, BackendInit
  <1>3. /\ requested = [t \in Txn |-> "AcquireLock"] /\ next = [t \in Txn |-> "Idle"]
        /\ frontend = [t \in Txn |-> FALSE] /\ lockAcquired = [t \in Txn |-> FALSE]
        /\ sqlite = [t \in Txn |-> "none"] /\ statements = [t \in Txn |-> 0]
        /\ current = [t \in Txn |-> "none"] /\ retry = [t \in Txn |-> FALSE]
        /\ scriptRequested = [t \in Txn |-> "Idle"]
        /\ told = [t \in Txn |-> "nothing"] /\ allowance = [t \in Txn |-> MaxStatements]
    BY DEF Init, BackendInit, SQLTransactionInit
  <1>4. \A t \in Txn : /\ requested[t] = "AcquireLock" /\ next[t] = "Idle" /\ ~frontend[t] /\ ~lockAcquired[t]
                       /\ sqlite[t] = "none" /\ scriptRequested[t] = "Idle" /\ told[t] = "nothing"
                       /\ statements[t] = 0 /\ allowance[t] = MaxStatements
    BY <1>3
  <1>5. \A d \in Db : opened[d] /\ transactionQueue[d] = <<>> /\ queueEnabled[d] /\ ~inProgress[d]
    BY <1>2
  <1>6. /\ <<>> \in Seq(Txn) /\ <<>> \in Seq(Task) /\ ToSet(<<>>) = {} /\ Distinct(<<>>)
    BY NoneIs
  <1>7. ThreadTypes /\ LockTypes
    BY <1>1, <1>6 DEF ThreadTypes, LockTypes
  <1>8. HandleTypes
    BY <1>2, <1>6 DEF HandleTypes
  <1>9. MachineTypes
    BY <1>1, <1>3, <1>6 DEF MachineTypes, BackendState
  <1>10. WorkTypes
    BY <1>1, <1>3 DEF WorkTypes
  <1>11. ContextTypes
    BY <1>1, <1>3 DEF ContextTypes
  <1>12. \A t \in Txn : /\ ~Queued(t) /\ ~Posted(t) /\ ~Pending(t) /\ ~Waiting(t) /\ running # t /\ ~UnderWay(t)
    BY <1>1, <1>5, <1>6 DEF Queued, Posted, Pending, Waiting, UnderWay
  <1>13. Tokens
    BY <1>1, <1>4, <1>5, <1>6, <1>12 DEF Tokens
  <1>14. Active = {}
    BY <1>1 DEF Active
  <1>15. Locks
    BY <1>1, <1>4, <1>12, <1>14 DEF Locks
  <1>16. Turns
    BY <1>1, <1>4, <1>12 DEF Turns
  <1>17. Handles
    BY <1>1, <1>4, <1>5 DEF Handles
  <1>18. Data
    BY <1>1, <1>4 DEF Data
  <1>19. Outcomes
    BY <1>4 DEF Outcomes, Outcome
  <1>20. AtEnd
    BY <1>1, <1>4 DEF AtEnd
  <1>21. Closes
    <2>1. \A d \in Db : ~Queued(d)
      BY <1>1, <1>6 DEF Queued
    <2> QED
      BY <1>1, <2>1 DEF Closes
  <1>22. Budget
    BY <1>4 DEF Budget
  <1> QED
    BY <1>7, <1>8, <1>9, <1>10, <1>11, <1>13, <1>15, <1>16, <1>17, <1>18, <1>19, <1>20, <1>21, <1>22, TypesAre
    DEF DInv

LEMMA AbandonStepKeeps ==
    ASSUME DInv, NEW t \in Txn, AbandonStep(t), UNCHANGED <<scriptVars, contextVars>>
    PROVE  DInv'
  <1>1. CASE next[t] = "End"
    <2>1. /\ Performs(t) /\ queue' = Tail(queue)
          /\ UNCHANGED <<running, coordinatorVars, backendVars, callbackVars, killed, thread, closing,
                         databaseVars, scriptVars, contextVars>>
      BY <1>1 DEF AbandonStep
    <2> QED
      BY <1>1, <2>1, DropKeeps
  <1>2. CASE next[t] # "End"
    BY <1>2, AbandonKeeps
  <1> QED
    BY <1>1, <1>2

LEMMA DInvStays == DInv /\ [Next]_vars => DInv'
  <1> SUFFICES ASSUME DInv, [Next]_vars PROVE DInv'
    OBVIOUS
  <1>1. CASE UNCHANGED vars
    <2>1. UNCHANGED <<queue, killed, thread, running, closing, pending, activeReads, activeWrite, shuttingDown,
                      opened, interrupted, deleted, transactionQueue, queueEnabled, inProgress,
                      requested, next, frontend, lockAcquired, originLock, sqlite, statements, current, retry,
                      posted, scriptRequested, wrappers, told, allowance, worker, unissued, deleting, deleteStep>>
      BY <1>1 DEF vars, threadVars, coordinatorVars, databaseVars, backendVars, machineVars, statementVars,
                  callbackVars, scriptVars, contextVars
    <2>2. TypeOK' /\ Budget'
      BY <2>1 DEF DInv, TypeOK, Budget
    <2>3. \A t \in Txn : /\ Queued(t)' = Queued(t) /\ Posted(t)' = Posted(t) /\ Pending(t)' = Pending(t)
                         /\ Waiting(t)' = Waiting(t) /\ UnderWay(t)' = UnderWay(t)
      BY <2>1 DEF Queued, Posted, Pending, Waiting, UnderWay
    <2>4. Tokens' /\ Handles' /\ AtEnd'
      BY <2>1, <2>3 DEF DInv, Tokens, Handles, AtEnd
    <2>5. Active' = Active /\ \A d \in Db : Usable(d)' = Usable(d)
      BY <2>1 DEF Active, Usable
    <2>6. Locks' /\ Data' /\ Turns'
      BY <2>1, <2>3, <2>5, DatabaseAssumption DEF DInv, Locks, Data, Turns
    <2>7. Closes'
      BY <2>1 DEF DInv, Closes, Queued
    <2>8. Outcomes'
      BY <2>1, <2>3, OutcomeStays DEF Outcomes
    <2> QED
      BY <2>2, <2>4, <2>6, <2>7, <2>8 DEF DInv
  <1>2. CASE ThreadStep
    <2>1. ASSUME UNCHANGED <<scriptVars, contextVars>>, NEW t \in Txn,
                 \/ StartStep(t) \/ AbandonStep(t) \/ AcquireLock(t) \/ OpenTransactionAndPreflight(t)
                 \/ RunStatements(t) \/ PostflightAndCommit(t) \/ CleanupAfterTransactionErrorCallback(t)
                 \/ CleanupAndTerminate(t)
          PROVE  DInv'
      BY <2>1, StartStepKeeps, AbandonStepKeeps, AcquireLockKeeps, OpenTransactionKeeps, RunStatementsKeeps,
         CommitKeeps, CleanupAfterErrorKeeps, TerminateKeeps
    <2>2. ASSUME UNCHANGED <<scriptVars, contextVars>>, NEW d \in Db,
                 PerformCloseTask(d) \/ CloseDatabase(d) \/ CloseOpenDatabase(d)
          PROVE  DInv'
      BY <2>2, PerformCloseKeeps, CloseDatabaseKeeps, CloseOpenKeeps
    <2>3. ASSUME UNCHANGED <<scriptVars, contextVars>>, Shutdown \/ EndThread PROVE DInv'
      BY <2>3, ShutdownKeeps, EndThreadKeeps
    <2>4. ASSUME NEW d \in Db, FinishClose(d) PROVE DInv'
      BY <2>4, FinishCloseKeeps
    <2> QED
      BY <1>2, <2>1, <2>2, <2>3, <2>4 DEF ThreadStep
  <1>3. CASE ScriptStep
    BY <1>3, RunTransactionKeeps, RefuseTransactionKeeps, CallbackKeeps DEF ScriptStep
  <1>4. CASE MainStep
    BY <1>4, InterruptKeeps, StopKeeps, MarkAsDeletedKeeps DEF MainStep
  <1>5. CASE ScheduleClose
    BY <1>5, ScheduleCloseKeeps
  <1> QED
    BY <1>1, <1>2, <1>3, <1>4, <1>5 DEF Next

(* DInv holds throughout.                                                  *)
THEOREM DInvHolds == Spec => []DInv
  BY DInvInit, DInvStays, PTL DEF Spec

(* Every variable of the Web SQL threads stays in its type; in particular  *)
(* the coordinator's readers are read-only transactions and its writer is  *)
(* none (SQLTransactionCoordinator.cpp).                                   *)
THEOREM DatabaseTypes == Spec => []TypeOK
  <1>1. DInv => TypeOK
    BY DEF DInv
  <1> QED
    BY <1>1, DInvHolds, PTL

(* SQLite works for a writer alone, and for one transaction of a handle,   *)
(* however many transactions and handles there are: the lock of the origin *)
(* is held by whoever works, and a handle runs one transaction at a time.  *)
THEOREM WritersWorkAlone == Spec => []WritersAlone
  <1>1. DInv => WritersAlone
    <2> SUFFICES ASSUME DInv, NEW s \in Txn, NEW t \in Txn, s # t, sqlite[s] = "open", sqlite[t] = "open"
                 PROVE  s \in ReadOnly /\ t \in ReadOnly /\ DbOf[s] # DbOf[t]
      BY DEF WritersAlone
    <2>1. /\ frontend[s] /\ s \in Active /\ frontend[t] /\ t \in Active
      BY DEF DInv, Data
    <2>2. activeReads \subseteq ReadOnly /\ (activeWrite # NoTxn => activeReads = {})
      BY TypesAre DEF DInv, LockTypes, Locks
    <2>3. s \in ReadOnly /\ t \in ReadOnly
      BY <2>1, <2>2 DEF Active
    <2>4. ~Waiting(s) /\ ~Waiting(t)
      BY DEF DInv, Data, Locks
    <2> QED
      BY <2>1, <2>3, <2>4 DEF DInv, Handles
  <1> QED
    BY <1>1, DInvHolds, PTL

(* How often a transaction is in a queue that holds none twice.            *)
LEMMA CountIs ==
    ASSUME NEW q, Distinct(q), NEW t \in Txn
    PROVE  Count(q, t) = IF t \in ToSet(q) THEN 1 ELSE 0
  <1>1. CASE t \in ToSet(q)
    <2>1. PICK i \in DOMAIN q : q[i] = t
      BY <1>1 DEF ToSet
    <2>2. {j \in DOMAIN q : q[j] = t} = {i}
      BY <2>1 DEF Distinct
    <2> QED
      BY <1>1, <2>2, FS_Singleton DEF Count
  <1>2. CASE t \notin ToSet(q)
    <2>1. {j \in DOMAIN q : q[j] = t} = {}
      BY <1>2 DEF ToSet
    <2> QED
      BY <1>2, <2>1, FS_EmptySet DEF Count
  <1> QED
    BY <1>1, <1>2

(* A transaction that has not ended is in exactly one place as long as the *)
(* database thread runs: on its queue, posted to script, pending in the    *)
(* coordinator, waiting on its handle or running.  So neither half ever    *)
(* overwrites a state that was requested of the other and not taken yet    *)
(* (SQLTransactionStateMachine.h).                                         *)
THEOREM StepsAreSingle == Spec => []OneStepPerTransaction
  <1>1. DInv => OneStepPerTransaction
    <2> SUFFICES ASSUME DInv, NEW t \in Txn, frontend[t], thread = "loop" PROVE Steps(t) = 1
      BY DEF OneStepPerTransaction
    <2>0. DbOf[t] \in Db
      BY DatabaseAssumption
    <2>1. /\ Count(queue, t) = (IF Queued(t) THEN 1 ELSE 0)
          /\ Count(posted, t) = (IF Posted(t) THEN 1 ELSE 0)
          /\ Count(pending, t) = (IF Pending(t) THEN 1 ELSE 0)
          /\ Count(transactionQueue[DbOf[t]], t) = (IF Waiting(t) THEN 1 ELSE 0)
      <3>1. /\ Distinct(queue) /\ Distinct(posted) /\ Distinct(pending) /\ Distinct(transactionQueue[DbOf[t]])
        BY <2>0 DEF DInv, Tokens
      <3> QED
        BY <3>1, CountIs DEF Queued, Posted, Pending, Waiting
    <2>2. /\ Queued(t) => ~Posted(t) /\ ~Pending(t) /\ ~Waiting(t) /\ running # t
          /\ Posted(t) => ~Pending(t) /\ ~Waiting(t) /\ running # t
          /\ Pending(t) => ~Waiting(t) /\ running # t
          /\ Waiting(t) => running # t
          /\ Queued(t) \/ Posted(t) \/ Pending(t) \/ Waiting(t) \/ running = t
      BY DEF DInv, Tokens, UnderWay
    <2> QED
      BY <2>1, <2>2 DEF Steps
  <1> QED
    BY <1>1, DInvHolds, PTL

(* A task that the thread performs for a transaction that was cleaned up   *)
(* finds its backend at the end and does nothing, so m_frontend is never   *)
(* used after doCleanup cleared it (SQLTransactionBackend.cpp).            *)
THEOREM CleanedUpIsOver == Spec => []NoStepAfterCleanup
  <1>1. DInv => NoStepAfterCleanup
    <2> SUFFICES ASSUME DInv, NEW t \in Txn, ~frontend[t], Performs(t) PROVE next[t] = "End"
      BY DEF NoStepAfterCleanup
    <2>1. Queued(t) /\ thread = "loop"
      BY TaskTaken DEF Task
    <2> QED
      BY <2>1 DEF DInv, Turns
  <1> QED
    BY <1>1, DInvHolds, PTL

(* Whatever way a transaction ends (the last step, a closed handle, a      *)
(* destroyed task, the shutdown), it gives back the lock of the origin,    *)
(* m_originLock and its SQLite transaction.                                *)
THEOREM LocksAreReturned == Spec => []LocksReturned
  <1>1. DInv => LocksReturned
    <2> SUFFICES ASSUME DInv PROVE LocksReturned
      OBVIOUS
    <2>1. ASSUME NEW t \in Txn, ~frontend[t]
          PROVE  /\ sqlite[t] # "open" /\ originLock # t
                 /\ ~shuttingDown => t \notin Active \cup ToSet(pending)
      <3>1. originLock # NoTxn => frontend[originLock]
        BY DEF DInv, Data
      <3>2. sqlite[t] # "open" /\ originLock # t
        BY <2>1, <3>1, DatabaseAssumption DEF DInv, Data
      <3>3. ~shuttingDown => t \notin Active /\ ~Pending(t)
        BY <2>1 DEF DInv, Locks
      <3> QED
        BY <3>2, <3>3 DEF Pending
    <2>2. originLock # NoTxn => originLock = activeWrite
      BY DEF DInv, Data
    <2> QED
      BY <2>1, <2>2 DEF LocksReturned
  <1> QED
    BY <1>1, DInvHolds, PTL

(* Script hears of success only after the commit and of an error only if   *)
(* there was none, however the two halves, a close and an interruption     *)
(* interleave (SQLTransaction.cpp, deliverSuccessCallback and              *)
(* deliverTransactionErrorCallback).                                       *)
THEOREM ScriptHearsTheTruth == Spec => []ReportsAreTrue
  <1>1. DInv => ReportsAreTrue
    BY DEF DInv, Outcomes, Outcome, ReportsAreTrue
  <1> QED
    BY <1>1, DInvHolds, PTL

(* When the database thread has ended, every transaction that was started  *)
(* was cleaned up on it (DatabaseThread::databaseThread).                  *)
THEOREM NothingIsLeft == Spec => []NothingLeftAtEnd
  <1>1. DInv => NothingLeftAtEnd
    <2> SUFFICES ASSUME DInv, thread = "ended", NEW t \in Txn, frontend[t] PROVE FALSE
      BY DEF NothingLeftAtEnd
    <2>0. DbOf[t] \in Db /\ DbOf[t] # NoDb
      BY DatabaseAssumption
    <2>1. (Queued(t) \/ Waiting(t)) /\ ~lockAcquired[t] /\ closing = NoDb /\ ~opened[DbOf[t]]
      BY <2>0 DEF DInv, AtEnd
    <2>2. ~Queued(t)
      BY <2>0, <2>1 DEF DInv, AtEnd
    <2>3. transactionQueue[DbOf[t]] = <<>>
      BY <2>0, <2>1 DEF DInv, Handles
    <2> QED
      BY <2>1, <2>2, <2>3, NoneIs DEF Waiting
  <1> QED
    BY <1>1, DInvHolds, PTL

(* When the main thread of a document waits for a database to be closed,   *)
(* the close task is on the thread's queue or being performed              *)
(* (Database::markAsDeletedAndClose): it does not wait for nothing.        *)
THEOREM CloseWillBePerformed == Spec => []CloseIsPerformed
  <1>1. DInv => CloseIsPerformed
    BY DEF DInv, Closes, CloseIsPerformed, Queued
  <1> QED
    BY <1>1, DInvHolds, PTL
=============================================================================
