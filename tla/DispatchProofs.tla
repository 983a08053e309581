--------------------------- MODULE DispatchProofs ---------------------------
(***************************************************************************)
(* No message that is to be dispatched while waiting for a sync reply is   *)
(* stranded, no message that is not marked overtakes an earlier one, and   *)
(* the stack of pending replies of a connection is the stack of its calls, *)
(* for any number of processes and connections and any depth of nested     *)
(* synchronous calls.                                                      *)
(*                                                                         *)
(* The invariant, on top of IInv of ConnectionProofs, has two parts.  LInv *)
(* follows the messages of a connection from the sender's queue to the     *)
(* incoming ones: they stay in the order of their numbers.  DInv says of a *)
(* process that every message set aside or queued for dispatchMessages is  *)
(* Ready: its connection is scheduled, and the dispatchMessages that will  *)
(* dispatch it is on the run loop before the dispatchOneMessage of every   *)
(* message that was sent later.  A message stops being Ready only when its *)
(* dispatchMessages is called; the stack is empty then, so nothing of this *)
(* connection is set aside.                                                *)
(***************************************************************************)
EXTENDS ConnectionProofs

(* The functions of dispatchOneMessage on the run loop.                    *)
OneTasks(c) == {[kind |-> "one", conn |-> c]}

(* A dispatchMessages of c comes before the j-th dispatchOneMessage of c.  *)
Behind(r, c, j) ==
    \E i \in DOMAIN r : r[i] = SyncTask(c) /\ Number(SubSeq(r, 1, i), OneTasks(c)) < j

(* The run loop dispatches x before every later message of incoming.       *)
InTurn(x, r, in) == \A j \in DOMAIN in : x.msg.n > in[j].n \/ Behind(r, x.conn, j)

(* The messages that the run loop of p will dispatch in their turn.        *)
Ready(p) == {x \in HomeItem(p) : x.conn \in scheduled[p] /\ InTurn(x, runq[p], incoming[x.conn])}

(* A dispatchMessages has set aside only messages in X.                    *)
Safe(f, X) ==
    /\ \A i \in DOMAIN f.held : f.held[i] \in X
    /\ f.conn # NoConn => \A i \in DOMAIN f.rest :
           f.rest[i].conn # f.conn => f.rest[i] \in X

Kept(s, X) == \A k \in DOMAIN s : Safe(s[k], X)

Taken(s, c) == AtTop(s, "batch", "swap") /\ Last(s).conn = c

Offered(s, X, q) == \A i \in DOMAIN q : q[i] \in X \/ Taken(s, q[i].conn)

Tasked(S, r) == \A c \in S : \E i \in DOMAIN r : r[i] = SyncTask(c)

(* The call in frame k of s is the Depth-th call on c.                     *)
Depth(s, c, k) == Cardinality({j \in DOMAIN s : s[j] \in SyncFrame(c) /\ j <= k})

(* w is the stack of the pending replies of c.                             *)
Matches(s, c, w) ==
    /\ Len(w) = Number(s, SyncFrame(c))
    /\ \A k \in DOMAIN s : s[k] \in SyncFrame(c) => s[k].msg.id = w[Depth(s, c, k)].id

Attended(p) == /\ Tasked(scheduled[p], runq[p])
               /\ Offered(stack[p], Ready(p), toDispatch[p])
               /\ Kept(stack[p], Ready(p))

Matched(p) == \A c \in Home(p) : Matches(stack[p], c, pending[c])

(* A dispatchOneMessage for every incoming message.                        *)
Tallied(p) == \A c \in Home(p) : Len(incoming[c]) = Number(runq[p], OneTasks(c))

DInv == \A p \in Proc : Attended(p) /\ Matched(p) /\ Tallied(p)

(* The numbers of the messages (a reply has none) from one end of a        *)
(* connection to the other: in has been received, w is on the wire, out is *)
(* still to be written and n is the last number that was given.            *)
Numbered(m) == m.kind # "reply" \/ m.marked

Sorted(s) == \A i, j \in DOMAIN s : i < j /\ Numbered(s[i]) /\ Numbered(s[j]) => s[i].n < s[j].n

Before(s, t) == \A i \in DOMAIN s, j \in DOMAIN t : Numbered(s[i]) /\ Numbered(t[j]) => s[i].n < t[j].n

UpTo(s, n) == \A i \in DOMAIN s : Numbered(s[i]) => s[i].n <= n

Line(in, w, out, n) ==
    /\ \A i \in DOMAIN in : Numbered(in[i])
    /\ Sorted(w) /\ Sorted(out)
    /\ Before(in, w) /\ Before(in, out) /\ Before(w, out)
    /\ UpTo(in, n) /\ UpTo(w, n) /\ UpTo(out, n)

LInv == \A c \in Conn : Line(incoming[c], wire[c], outgoing[Peer[c]], sent[Peer[c]])

-----------------------------------------------------------------------------
(* The scheduled messages, as a stack, a queue or the run loop changes.    *)
LEMMA AllOffered ==
    ASSUME NEW s, NEW S, NEW q, Offered(s, S, q), ~AtTop(s, "batch", "swap"),
           NEW i \in DOMAIN q
    PROVE  q[i] \in S
  BY DEF Offered, Taken

LEMMA OfferedToAll ==
    ASSUME NEW s, NEW t, NEW S, NEW q, Offered(s, S, q), ~AtTop(s, "batch", "swap")
    PROVE  Offered(t, S, q)
  BY DEF Offered, Taken

LEMMA KeptPop ==
    ASSUME NEW p, NEW s, GoodStack(p, s), s # <<>>, NEW S, Kept(s, S)
    PROVE  Kept(Front(s), S) /\ Safe(Last(s), S)
  <1>1. s \in Seq(Frame)
    BY StackType
  <1>2. /\ Len(s) \in Nat \ {0} /\ Len(Front(s)) = Len(s) - 1 /\ Front(s) \in Seq(Frame)
        /\ \A k \in 1..Len(s) - 1 : Front(s)[k] = s[k]
        /\ Last(s) = s[Len(s)]
    BY <1>1, FrontFacts
  <1>3. DOMAIN s = 1..Len(s) /\ DOMAIN Front(s) = 1..Len(s) - 1
    BY <1>1, <1>2, LenProperties
  <1>4. Len(s) \in DOMAIN s /\ \A k \in 1..Len(s) - 1 : k \in DOMAIN s
    BY <1>2, <1>3
  <1> QED
    BY <1>2, <1>3, <1>4 DEF Kept

LEMMA KeptPush ==
    ASSUME NEW p, NEW s, GoodStack(p, s), NEW f \in GoodFrame(p), NEW S, Kept(s, S), Safe(f, S)
    PROVE  Kept(Append(s, f), S)
  <1>1. s \in Seq(Frame) /\ f \in Frame
    BY StackType DEF GoodFrame
  <1>2. /\ Len(s) \in Nat /\ DOMAIN s = 1..Len(s) /\ DOMAIN Append(s, f) = 1..Len(s) + 1
        /\ \A k \in 1..Len(s) : Append(s, f)[k] = s[k]
        /\ Append(s, f)[Len(s) + 1] = f
    BY <1>1, AppendProperties, LenProperties
  <1> SUFFICES ASSUME NEW k \in 1..Len(s) + 1 PROVE Safe(Append(s, f)[k], S)
    BY <1>2 DEF Kept
  <1>3. CASE k \in 1..Len(s)
    <2>1. Safe(s[k], S)
      BY <1>2, <1>3 DEF Kept
    <2> QED
      BY <1>2, <1>3, <2>1, Zenon
  <1>4. CASE k = Len(s) + 1
    BY <1>2, <1>4, Zenon
  <1> QED
    BY <1>2, <1>3, <1>4

LEMMA KeptEmpty == ASSUME NEW S PROVE Kept(<<>>, S) /\ \A q : Tasked({}, q)
  BY DEF Kept, Tasked

LEMMA SafeEmpty ==
    ASSUME NEW f, f.rest = <<>>, f.held = <<>>, NEW S PROVE Safe(f, S)
  BY DEF Safe

LEMMA SafeGrows == ASSUME NEW f, NEW S, NEW T, Safe(f, S), S \subseteq T PROVE Safe(f, T)
  BY DEF Safe

LEMMA KeptGrows == ASSUME NEW s, NEW S, NEW T, Kept(s, S), S \subseteq T PROVE Kept(s, T)
  BY SafeGrows DEF Kept

LEMMA TaskedAppend ==
    ASSUME NEW S, NEW R, NEW r \in Seq(R), Tasked(S, r), NEW t \in R
    PROVE  /\ Tasked(S, Append(r, t))
           /\ \A c : t = SyncTask(c) => Tasked(S \cup {c}, Append(r, t))
  <1>1. /\ Len(r) \in Nat /\ DOMAIN r = 1..Len(r) /\ DOMAIN Append(r, t) = 1..Len(r) + 1
        /\ \A k \in 1..Len(r) : Append(r, t)[k] = r[k]
        /\ Append(r, t)[Len(r) + 1] = t
    BY AppendProperties, LenProperties
  <1>2. /\ \A k \in 1..Len(r) : k \in 1..Len(r) + 1
        /\ Len(r) + 1 \in 1..Len(r) + 1
    BY <1>1
  <1>3. Tasked(S, Append(r, t))
    <2> SUFFICES ASSUME NEW c \in S
                 PROVE  \E i \in DOMAIN Append(r, t) : Append(r, t)[i] = SyncTask(c)
      BY DEF Tasked
    <2>1. PICK i \in 1..Len(r) : r[i] = SyncTask(c)
      BY <1>1 DEF Tasked
    <2> QED
      BY <1>1, <1>2, <2>1
  <1>4. ASSUME NEW c, t = SyncTask(c) PROVE Tasked(S \cup {c}, Append(r, t))
    <2>1. \E i \in DOMAIN Append(r, t) : Append(r, t)[i] = SyncTask(c)
      BY <1>1, <1>2, <1>4
    <2> QED
      BY <1>3, <2>1 DEF Tasked
  <1> QED
    BY <1>3, <1>4

LEMMA TaskedTail ==
    ASSUME NEW S, NEW T, T \subseteq S, NEW R, NEW r \in Seq(R), r # <<>>, Tasked(S, r),
           \A c \in T : Head(r) # SyncTask(c)
    PROVE  Tasked(T, Tail(r))
  <1>1. /\ Len(r) \in Nat \ {0} /\ DOMAIN r = 1..Len(r) /\ Head(r) = r[1]
        /\ Len(Tail(r)) = Len(r) - 1 /\ Tail(r) \in Seq(R)
        /\ \A k \in 1..Len(r) - 1 : Tail(r)[k] = r[k + 1]
    BY HeadTailProperties, LenProperties, EmptySeq
  <1>2. DOMAIN Tail(r) = 1..Len(r) - 1
    BY <1>1, LenProperties
  <1> SUFFICES ASSUME NEW c \in T PROVE \E i \in DOMAIN Tail(r) : Tail(r)[i] = SyncTask(c)
    BY DEF Tasked
  <1>3. PICK i \in 1..Len(r) : r[i] = SyncTask(c)
    BY <1>1 DEF Tasked
  <1>4. i # 1
    BY <1>1, <1>3
  <1>5. i - 1 \in 1..Len(r) - 1 /\ (i - 1) + 1 = i
    BY <1>1, <1>3, <1>4
  <1>6. Tail(r)[i - 1] = SyncTask(c)
    BY <1>1, <1>3, <1>5
  <1> QED
    BY <1>2, <1>5, <1>6

-----------------------------------------------------------------------------
(* The order of the functions on the run loop.                             *)
LEMMA NumberTail ==
    ASSUME NEW R, NEW r \in Seq(R), r # <<>>, NEW P
    PROVE  /\ Number(Tail(r), P) \in Nat
           /\ Number(r, P) = Number(Tail(r), P) + IF Head(r) \in P THEN 1 ELSE 0
  <1> DEFINE n == Len(r)
             A == {k \in DOMAIN r : r[k] \in P}
             C == {k \in DOMAIN r : r[k] \in P /\ k # 1}
             B == {k \in DOMAIN Tail(r) : Tail(r)[k] \in P}
             g == [k \in B |-> k + 1]
  <1>1. /\ n \in Nat \ {0} /\ DOMAIN r = 1..n /\ Head(r) = r[1]
        /\ Len(Tail(r)) = n - 1 /\ Tail(r) \in Seq(R)
        /\ \A k \in 1..n - 1 : Tail(r)[k] = r[k + 1]
    BY HeadTailProperties, LenProperties, EmptySeq
  <1>2. DOMAIN Tail(r) = 1..n - 1
    BY <1>1, LenProperties
  <1>3. IsFiniteSet(B)
    <2>1. n - 1 \in Int /\ 1 \in Int
      BY <1>1
    <2>2. IsFiniteSet(1..n - 1) /\ B \in SUBSET (1..n - 1)
      BY <1>2, <2>1, FS_Interval
    <2> QED
      BY <2>2, FS_Subset
  <1> HIDE DEF n
  <1>4. \A k \in B : k + 1 \in C
    BY <1>1, <1>2
  <1>5. \A k \in C : k - 1 \in B /\ (k - 1) + 1 = k
    <2> SUFFICES ASSUME NEW k \in C PROVE k - 1 \in B /\ (k - 1) + 1 = k
      OBVIOUS
    <2>1. k \in 1..n /\ k # 1 /\ r[k] \in P
      BY <1>1
    <2>2. k - 1 \in 1..n - 1 /\ (k - 1) + 1 = k
      BY <1>1, <2>1
    <2> QED
      BY <1>1, <1>2, <2>1, <2>2
  <1>6. \A j, k \in B : j + 1 = k + 1 => j = k
    BY <1>1, <1>2
  <1>7. ExistsBijection(B, C)
    <2> HIDE DEF B, C
    <2>1. g \in [B -> C]
      BY <1>4
    <2>2. g \in Injection(B, C)
      BY <1>6, <2>1 DEF Injection, IsInjective
    <2>3. g \in Surjection(B, C)
      <3>1. \A k \in C : \E j \in B : g[j] = k
        BY <1>5
      <3> QED
        BY <2>1, <3>1 DEF Surjection
    <2> QED
      BY <2>2, <2>3 DEF ExistsBijection, Bijection
  <1>8. IsFiniteSet(C) /\ Cardinality(C) = Cardinality(B) /\ Cardinality(B) \in Nat
    BY <1>3, <1>7, FS_Bijection, FS_CardinalityType
  <1>9. 1 \in DOMAIN r
    BY <1>1
  <1>10. /\ Head(r) \in P => A = C \cup {1} /\ 1 \notin C
         /\ Head(r) \notin P => A = C
    BY <1>1, <1>9
  <1>11. Number(r, P) = Cardinality(A) /\ Number(Tail(r), P) = Cardinality(B)
    BY DEF Number
  <1> HIDE DEF A, B, C
  <1>12. CASE Head(r) \in P
    <2>1. Cardinality(A) = Cardinality(C) + 1
      BY <1>8, <1>10, <1>12, FS_AddElement
    <2> QED
      BY <1>8, <1>11, <1>12, <2>1
  <1>13. CASE Head(r) \notin P
    BY <1>8, <1>10, <1>11, <1>13
  <1> QED
    BY <1>12, <1>13

LEMMA PrefixFacts ==
    ASSUME NEW R, NEW r \in Seq(R), NEW i \in DOMAIN r
    PROVE  /\ SubSeq(r, 1, i) \in Seq(R) /\ Len(SubSeq(r, 1, i)) = i
           /\ \A k \in 1..i : SubSeq(r, 1, i)[k] = r[k]
           /\ i \in Nat \ {0} /\ i <= Len(r) /\ Len(r) \in Nat /\ DOMAIN r = 1..Len(r)
           /\ DOMAIN SubSeq(r, 1, i) = 1..i
  <1>1. Len(r) \in Nat /\ DOMAIN r = 1..Len(r) /\ \A k \in 1..Len(r) : r[k] \in R
    BY LenProperties, ElementOfSeq
  <1>2. i \in Int /\ 1 \in Int /\ i \in Nat \ {0} /\ i <= Len(r) /\ i - 1 + 1 = i
        /\ \A k \in 1..i : r[k] \in R /\ 1 + k - 1 = k
    BY <1>1
  <1>3. /\ SubSeq(r, 1, i) \in Seq(R)
        /\ Len(SubSeq(r, 1, i)) = IF 1 <= i THEN i - 1 + 1 ELSE 0
        /\ \A k \in 1..i - 1 + 1 : SubSeq(r, 1, i)[k] = r[1 + k - 1]
    BY <1>2, SubSeqProperties
  <1>4. Len(SubSeq(r, 1, i)) = i /\ \A k \in 1..i : SubSeq(r, 1, i)[k] = r[k]
    BY <1>2, <1>3
  <1>5. DOMAIN SubSeq(r, 1, i) = 1..i
    BY <1>3, <1>4, LenProperties
  <1> QED
    BY <1>1, <1>2, <1>3, <1>4, <1>5

(* A function is added at the end of the run loop.                         *)
LEMMA BehindAppend ==
    ASSUME NEW R, NEW r \in Seq(R), NEW t \in R, NEW c, NEW j, Behind(r, c, j)
    PROVE  Behind(Append(r, t), c, j)
  <1> DEFINE q == Append(r, t)
  <1>1. PICK i \in DOMAIN r : r[i] = SyncTask(c) /\ Number(SubSeq(r, 1, i), OneTasks(c)) < j
    BY DEF Behind
  <1>2. /\ Len(r) \in Nat /\ DOMAIN r = 1..Len(r) /\ DOMAIN q = 1..Len(r) + 1
        /\ q \in Seq(R) /\ \A k \in 1..Len(r) : q[k] = r[k]
    BY AppendProperties, LenProperties
  <1> HIDE DEF q
  <1>3. i \in DOMAIN q /\ q[i] = r[i] /\ i \in 1..Len(r)
    BY <1>2
  <1>4. SubSeq(q, 1, i) = SubSeq(r, 1, i)
    <2>1. /\ SubSeq(r, 1, i) \in Seq(R) /\ Len(SubSeq(r, 1, i)) = i
          /\ \A k \in 1..i : SubSeq(r, 1, i)[k] = r[k]
      BY PrefixFacts
    <2>2. /\ SubSeq(q, 1, i) \in Seq(R) /\ Len(SubSeq(q, 1, i)) = i
          /\ \A k \in 1..i : SubSeq(q, 1, i)[k] = q[k]
      BY <1>2, <1>3, PrefixFacts
    <2>3. \A k \in 1..i : q[k] = r[k]
      BY <1>2, <1>3
    <2>4. \A k \in 1..Len(SubSeq(q, 1, i)) : SubSeq(q, 1, i)[k] = SubSeq(r, 1, i)[k]
      BY <2>1, <2>2, <2>3
    <2> QED
      BY <2>1, <2>2, <2>4, SeqEqual
  <1> QED
    BY <1>1, <1>3, <1>4 DEF Behind, q

(* With a dispatchMessages on the run loop, a function that is not there   *)
(* yet comes after it.                                                     *)
LEMMA BehindAll ==
    ASSUME NEW R, NEW r \in Seq(R), NEW c, NEW i \in DOMAIN r, r[i] = SyncTask(c),
           NEW j \in Nat, Number(r, OneTasks(c)) < j
    PROVE  Behind(r, c, j)
  <1> DEFINE P == OneTasks(c)
             A == {k \in DOMAIN r : r[k] \in P}
             B == {k \in DOMAIN SubSeq(r, 1, i) : SubSeq(r, 1, i)[k] \in P}
  <1>1. /\ DOMAIN SubSeq(r, 1, i) = 1..i /\ \A k \in 1..i : SubSeq(r, 1, i)[k] = r[k]
        /\ i \in Nat /\ i <= Len(r) /\ Len(r) \in Nat /\ DOMAIN r = 1..Len(r)
    BY PrefixFacts
  <1>2. IsFiniteSet(A)
    <2>1. IsFiniteSet(1..Len(r)) /\ A \in SUBSET (1..Len(r))
      BY <1>1, FS_Interval
    <2> QED
      BY <2>1, FS_Subset
  <1>3. B \in SUBSET A
    BY <1>1
  <1>4. IsFiniteSet(B) /\ Cardinality(B) <= Cardinality(A)
    BY <1>2, <1>3, FS_Subset
  <1>5. Cardinality(A) \in Nat /\ Cardinality(B) \in Nat
    BY <1>2, <1>4, FS_CardinalityType
  <1>6. Number(SubSeq(r, 1, i), P) = Cardinality(B) /\ Number(r, P) = Cardinality(A)
    BY DEF Number
  <1> HIDE DEF A, B, P
  <1>7. Number(SubSeq(r, 1, i), P) < j
    BY <1>4, <1>5, <1>6 DEF P
  <1> QED
    BY <1>7 DEF Behind, P

(* A function is taken off the run loop: a dispatchOneMessage of c with    *)
(* its message.                                                            *)
LEMMA BehindTail ==
    ASSUME NEW R, NEW r \in Seq(R), r # <<>>, NEW c, Head(r) # SyncTask(c), NEW j \in Nat,
           Behind(r, c, IF Head(r) \in OneTasks(c) THEN j + 1 ELSE j)
    PROVE  Behind(Tail(r), c, j)
  <1> DEFINE q == Tail(r)
             P == OneTasks(c)
  <1>1. PICK i \in DOMAIN r : /\ r[i] = SyncTask(c)
                              /\ Number(SubSeq(r, 1, i), P) < IF Head(r) \in P THEN j + 1 ELSE j
    BY DEF Behind
  <1>2. /\ Len(r) \in Nat \ {0} /\ DOMAIN r = 1..Len(r) /\ Head(r) = r[1]
        /\ q \in Seq(R) /\ Len(q) = Len(r) - 1 /\ \A k \in 1..Len(r) - 1 : q[k] = r[k + 1]
    BY HeadTailProperties, LenProperties, EmptySeq
  <1>3. DOMAIN q = 1..Len(r) - 1
    BY <1>2, LenProperties
  <1> HIDE DEF q, P
  <1>4. i # 1
    BY <1>1, <1>2
  <1>5. i - 1 \in DOMAIN q /\ (i - 1) + 1 = i /\ i - 1 \in 1..Len(r) - 1
    BY <1>2, <1>3, <1>4
  <1>6. q[i - 1] = SyncTask(c)
    BY <1>1, <1>2, <1>5
  <1> DEFINE u == SubSeq(r, 1, i)
             v == SubSeq(q, 1, i - 1)
  <1>7. u \in Seq(R) /\ Len(u) = i /\ i \in Nat \ {0} /\ \A k \in 1..i : u[k] = r[k]
    BY PrefixFacts
  <1>8. v \in Seq(R) /\ Len(v) = i - 1 /\ \A k \in 1..i - 1 : v[k] = q[k]
    BY <1>2, <1>5, PrefixFacts
  <1> HIDE DEF u, v
  <1>9. u # <<>>
    BY <1>7, EmptySeq
  <1>10. /\ Head(u) = u[1] /\ Tail(u) \in Seq(R) /\ Len(Tail(u)) = i - 1
         /\ \A k \in 1..i - 1 : Tail(u)[k] = u[k + 1]
    BY <1>7, <1>9, HeadTailProperties
  <1>11. \A k \in 1..i - 1 : v[k] = Tail(u)[k]
    <2> SUFFICES ASSUME NEW k \in 1..i - 1 PROVE v[k] = Tail(u)[k]
      OBVIOUS
    <2>1. k \in 1..Len(r) - 1 /\ k + 1 \in 1..i
      BY <1>2, <1>5, <1>7
    <2>2. v[k] = r[k + 1] /\ Tail(u)[k] = r[k + 1]
      BY <1>2, <1>7, <1>8, <1>10, <2>1
    <2> QED
      BY <2>2
  <1>12. v = Tail(u)
    <2>1. \A k \in 1..Len(v) : v[k] = Tail(u)[k]
      BY <1>8, <1>11
    <2> QED
      BY <1>8, <1>10, <2>1, SeqEqual
  <1>13. Head(u) = Head(r)
    BY <1>2, <1>7, <1>10
  <1>14. Number(v, P) \in Nat /\ Number(u, P) = Number(v, P) + IF Head(r) \in P THEN 1 ELSE 0
    BY <1>7, <1>9, <1>12, <1>13, NumberTail
  <1>15. Number(v, P) < j
    <2>1. Number(u, P) < IF Head(r) \in P THEN j + 1 ELSE j
      BY <1>1 DEF u
    <2> QED
      BY <1>14, <2>1
  <1> QED
    BY <1>5, <1>6, <1>15 DEF Behind, q, v, P

(* The messages in turn, as a function leaves or joins the run loop and    *)
(* a message leaves or joins the incoming ones.                            *)
LEMMA TurnTail ==
    ASSUME NEW x, NEW R, NEW r \in Seq(R), r # <<>>, Head(r) # SyncTask(x.conn),
           NEW M, NEW in \in Seq(M), InTurn(x, r, in)
    PROVE  /\ Head(r) \notin OneTasks(x.conn) => InTurn(x, Tail(r), in)
           /\ Head(r) \in OneTasks(x.conn) /\ in # <<>> => InTurn(x, Tail(r), Tail(in))
  <1>1. Len(in) \in Nat /\ DOMAIN in = 1..Len(in)
    BY LenProperties
  <1>2. ASSUME Head(r) \notin OneTasks(x.conn) PROVE InTurn(x, Tail(r), in)
    <2> SUFFICES ASSUME NEW j \in DOMAIN in, Behind(r, x.conn, j)
                 PROVE  Behind(Tail(r), x.conn, j)
      BY DEF InTurn
    <2>1. j \in Nat
      BY <1>1
    <2> QED
      BY <1>2, <2>1, BehindTail
  <1>3. ASSUME Head(r) \in OneTasks(x.conn), in # <<>> PROVE InTurn(x, Tail(r), Tail(in))
    <2>1. /\ Tail(in) \in Seq(M) /\ Len(Tail(in)) = Len(in) - 1
          /\ \A j \in 1..Len(in) - 1 : Tail(in)[j] = in[j + 1]
      BY <1>3, HeadTailProperties
    <2>2. DOMAIN Tail(in) = 1..Len(in) - 1
      BY <2>1, LenProperties
    <2> SUFFICES ASSUME NEW j \in 1..Len(in) - 1
                 PROVE  x.msg.n > Tail(in)[j].n \/ Behind(Tail(r), x.conn, j)
      BY <2>2 DEF InTurn
    <2>3. j + 1 \in DOMAIN in /\ j \in Nat /\ Tail(in)[j] = in[j + 1]
      BY <1>1, <2>1
    <2>4. CASE x.msg.n > in[j + 1].n
      BY <2>3, <2>4
    <2>5. CASE Behind(r, x.conn, j + 1)
      BY <1>3, <2>3, <2>5, BehindTail
    <2> QED
      BY <2>3, <2>4, <2>5 DEF InTurn
  <1> QED
    BY <1>2, <1>3

LEMMA TurnAppend ==
    ASSUME NEW x, NEW R, NEW r \in Seq(R), NEW t \in R, NEW in, InTurn(x, r, in)
    PROVE  InTurn(x, Append(r, t), in)
  BY BehindAppend DEF InTurn

(* The new incoming message comes after the dispatchMessages.              *)
LEMMA TurnMore ==
    ASSUME NEW x, NEW S, x.conn \in S, NEW R, NEW r \in Seq(R), Tasked(S, r), NEW t \in R,
           NEW M, NEW in \in Seq(M), NEW m \in M, Len(in) = Number(r, OneTasks(x.conn)),
           InTurn(x, r, in)
    PROVE  InTurn(x, Append(r, t), Append(in, m))
  <1> DEFINE q == Append(in, m)
  <1>1. /\ Len(in) \in Nat /\ DOMAIN in = 1..Len(in) /\ DOMAIN q = 1..Len(in) + 1
        /\ \A j \in 1..Len(in) : q[j] = in[j]
    BY AppendProperties, LenProperties
  <1> HIDE DEF q
  <1>2. InTurn(x, Append(r, t), in)
    BY TurnAppend
  <1>3. Behind(Append(r, t), x.conn, Len(in) + 1)
    <2>1. PICK i \in DOMAIN r : r[i] = SyncTask(x.conn)
      BY DEF Tasked
    <2>2. Len(in) + 1 \in Nat /\ Number(r, OneTasks(x.conn)) < Len(in) + 1
      BY <1>1
    <2>3. Behind(r, x.conn, Len(in) + 1)
      BY <2>1, <2>2, BehindAll
    <2> QED
      BY <2>3, BehindAppend
  <1> SUFFICES ASSUME NEW j \in 1..Len(in) + 1
               PROVE  x.msg.n > q[j].n \/ Behind(Append(r, t), x.conn, j)
    BY <1>1 DEF InTurn, q
  <1>4. CASE j \in 1..Len(in)
    BY <1>1, <1>2, <1>4 DEF InTurn
  <1>5. CASE j = Len(in) + 1
    BY <1>3, <1>5
  <1> QED
    BY <1>1, <1>4, <1>5

(* With a dispatchOneMessage next, nothing is behind a dispatchMessages.   *)
LEMMA NothingBehind ==
    ASSUME NEW R, NEW r \in Seq(R), r # <<>>, NEW c, Head(r) \in OneTasks(c)
    PROVE  ~Behind(r, c, 1)
  <1> SUFFICES ASSUME NEW i \in DOMAIN r, Number(SubSeq(r, 1, i), OneTasks(c)) < 1
               PROVE  FALSE
    BY DEF Behind
  <1> DEFINE u == SubSeq(r, 1, i)
  <1>1. u \in Seq(R) /\ Len(u) = i /\ i \in Nat \ {0} /\ \A k \in 1..i : u[k] = r[k]
    BY PrefixFacts
  <1> HIDE DEF u
  <1>2. u # <<>>
    BY <1>1, EmptySeq
  <1>3. Head(u) = u[1] /\ Head(r) = r[1] /\ 1 \in 1..i
    BY <1>1, <1>2, HeadTailProperties
  <1>4. Head(u) \in OneTasks(c)
    BY <1>1, <1>3
  <1>5. Number(Tail(u), OneTasks(c)) \in Nat /\ Number(u, OneTasks(c)) = Number(Tail(u), OneTasks(c)) + 1
    BY <1>1, <1>2, <1>4, NumberTail
  <1> QED
    BY <1>5 DEF u

-----------------------------------------------------------------------------
(* The calls of a connection, as its stacks change.                        *)
LEMMA DepthFacts ==
    ASSUME NEW p, NEW s, GoodStack(p, s), NEW c, NEW k \in DOMAIN s, s[k] \in SyncFrame(c)
    PROVE  Depth(s, c, k) \in 1..Number(s, SyncFrame(c))
  <1> DEFINE A == {j \in DOMAIN s : s[j] \in SyncFrame(c)}
             B == {j \in DOMAIN s : s[j] \in SyncFrame(c) /\ j <= k}
  <1>1. Len(s) \in Nat /\ DOMAIN s = 1..Len(s)
    BY StackType, LenProperties
  <1>2. IsFiniteSet(A)
    <2>1. IsFiniteSet(1..Len(s)) /\ A \in SUBSET (1..Len(s))
      BY <1>1, FS_Interval
    <2> QED
      BY <2>1, FS_Subset
  <1>3. B \in SUBSET A /\ k \in B
    BY <1>1
  <1>4. IsFiniteSet(B) /\ Cardinality(B) <= Cardinality(A)
    BY <1>2, <1>3, FS_Subset
  <1>5. Cardinality(A) \in Nat /\ Cardinality(B) \in Nat
    BY <1>2, <1>4, FS_CardinalityType
  <1>6. Cardinality(B) # 0
    BY <1>3, <1>4, FS_EmptySet
  <1>7. Depth(s, c, k) = Cardinality(B) /\ Number(s, SyncFrame(c)) = Cardinality(A)
    BY DEF Depth, Number
  <1> HIDE DEF A, B
  <1> QED
    BY <1>4, <1>5, <1>6, <1>7

LEMMA DepthAppend ==
    ASSUME NEW p, NEW s, GoodStack(p, s), NEW f \in GoodFrame(p), NEW c
    PROVE  /\ \A k \in DOMAIN s : Depth(Append(s, f), c, k) = Depth(s, c, k)
           /\ Depth(Append(s, f), c, Len(s) + 1) = Number(Append(s, f), SyncFrame(c))
  <1> DEFINE t == Append(s, f)
  <1>1. s \in Seq(Frame) /\ f \in Frame
    BY StackType DEF GoodFrame
  <1>2. /\ Len(s) \in Nat /\ DOMAIN s = 1..Len(s) /\ DOMAIN t = 1..Len(s) + 1
        /\ \A k \in 1..Len(s) : t[k] = s[k]
    BY <1>1, AppendProperties, LenProperties
  <1> HIDE DEF t
  <1>3. ASSUME NEW k \in DOMAIN s PROVE Depth(t, c, k) = Depth(s, c, k)
    <2>1. {j \in DOMAIN t : t[j] \in SyncFrame(c) /\ j <= k}
              = {j \in DOMAIN s : s[j] \in SyncFrame(c) /\ j <= k}
      BY <1>2
    <2> QED
      BY <2>1 DEF Depth
  <1>4. Depth(t, c, Len(s) + 1) = Number(t, SyncFrame(c))
    <2>1. {j \in DOMAIN t : t[j] \in SyncFrame(c) /\ j <= Len(s) + 1}
              = {j \in DOMAIN t : t[j] \in SyncFrame(c)}
      BY <1>2
    <2> QED
      BY <2>1 DEF Depth, Number
  <1> QED
    BY <1>3, <1>4 DEF t

LEMMA MatchPush ==
    ASSUME NEW p, NEW s, GoodStack(p, s), NEW f \in GoodFrame(p), NEW c,
           f \notin SyncFrame(c), NEW w, Matches(s, c, w)
    PROVE  Matches(Append(s, f), c, w)
  <1> DEFINE t == Append(s, f)
  <1>1. s \in Seq(Frame) /\ f \in Frame
    BY StackType DEF GoodFrame
  <1>2. /\ Len(s) \in Nat /\ DOMAIN s = 1..Len(s) /\ DOMAIN t = 1..Len(s) + 1
        /\ \A k \in 1..Len(s) : t[k] = s[k]
        /\ t[Len(s) + 1] = f
    BY <1>1, AppendProperties, LenProperties
  <1>3. Number(s, SyncFrame(c)) \in Nat /\ Number(t, SyncFrame(c)) = Number(s, SyncFrame(c)) + 0
    BY <1>1, PushNumber
  <1>4. \A k \in DOMAIN s : Depth(t, c, k) = Depth(s, c, k)
    BY DepthAppend
  <1> HIDE DEF t
  <1>5. \A k \in DOMAIN t : t[k] \in SyncFrame(c) => k \in DOMAIN s
    BY <1>1, <1>2
  <1>6. \A k \in DOMAIN t : t[k] \in SyncFrame(c) => t[k].msg.id = w[Depth(t, c, k)].id
    BY <1>2, <1>4, <1>5 DEF Matches
  <1>7. Len(w) = Number(t, SyncFrame(c))
    BY <1>3 DEF Matches
  <1> QED
    BY <1>6, <1>7 DEF Matches, t

LEMMA MatchCall ==
    ASSUME NEW p, NEW s, GoodStack(p, s), NEW f \in GoodFrame(p), NEW c, f \in SyncFrame(c),
           NEW w \in Seq(PendingReply), Matches(s, c, w), NEW r \in PendingReply,
           f.msg.id = r.id
    PROVE  Matches(Append(s, f), c, Append(w, r))
  <1> DEFINE t == Append(s, f)
             v == Append(w, r)
             n == Number(s, SyncFrame(c))
  <1>1. s \in Seq(Frame) /\ f \in Frame
    BY StackType DEF GoodFrame
  <1>2. /\ Len(s) \in Nat /\ DOMAIN s = 1..Len(s) /\ DOMAIN t = 1..Len(s) + 1
        /\ \A k \in 1..Len(s) : t[k] = s[k]
        /\ t[Len(s) + 1] = f
    BY <1>1, AppendProperties, LenProperties
  <1>3. n \in Nat /\ Number(t, SyncFrame(c)) = n + 1
    BY <1>1, PushNumber
  <1>4. /\ \A k \in DOMAIN s : Depth(t, c, k) = Depth(s, c, k)
        /\ Depth(t, c, Len(s) + 1) = Number(t, SyncFrame(c))
    BY DepthAppend
  <1>5. \A k \in DOMAIN s : s[k] \in SyncFrame(c) => Depth(s, c, k) \in 1..n
    BY DepthFacts
  <1>6. Len(w) = n /\ \A k \in DOMAIN s : s[k] \in SyncFrame(c) => s[k].msg.id = w[Depth(s, c, k)].id
    BY DEF Matches
  <1>7. Len(v) = Len(w) + 1 /\ v[Len(w) + 1] = r /\ \A j \in 1..Len(w) : v[j] = w[j]
    BY AppendProperties
  <1> HIDE DEF t, v, n
  <1>8. ASSUME NEW k \in DOMAIN t, t[k] \in SyncFrame(c) PROVE t[k].msg.id = v[Depth(t, c, k)].id
    <2>1. CASE k \in 1..Len(s)
      <3>1. t[k] = s[k] /\ Depth(t, c, k) = Depth(s, c, k) /\ k \in DOMAIN s
        BY <1>2, <1>4, <2>1
      <3>2. Depth(s, c, k) \in 1..Len(w) /\ s[k].msg.id = w[Depth(s, c, k)].id
        BY <1>5, <1>6, <1>8, <3>1
      <3> QED
        BY <1>7, <3>1, <3>2
    <2>2. CASE k = Len(s) + 1
      <3>1. t[k] = f /\ Depth(t, c, k) = Len(w) + 1
        BY <1>2, <1>3, <1>4, <1>6, <2>2
      <3> QED
        BY <1>7, <3>1
    <2> QED
      BY <1>2, <2>1, <2>2
  <1>9. Len(v) = Number(t, SyncFrame(c))
    BY <1>3, <1>6, <1>7
  <1> QED
    BY <1>8, <1>9 DEF Matches, t, v

(* The frame on top of the stack is popped: a call with its pending reply. *)
LEMMA MatchPop ==
    ASSUME NEW p, NEW s, GoodStack(p, s), s # <<>>, NEW c,
           NEW w \in Seq(PendingReply), Matches(s, c, w)
    PROVE  /\ Last(s) \notin SyncFrame(c) => Matches(Front(s), c, w)
           /\ Last(s) \in SyncFrame(c) =>
                  /\ w # <<>> /\ Last(s).msg.id = Last(w).id
                  /\ Matches(Front(s), c, Front(w))
  <1> DEFINE b == Front(s)
             f == Last(s)
             n == Number(b, SyncFrame(c))
  <1>1. GoodStack(p, b) /\ f \in GoodFrame(p) /\ b \in Seq(Frame) /\ s \in Seq(Frame)
    BY GoodTop, StackType
  <1>2. /\ Len(s) \in Nat \ {0} /\ Len(b) = Len(s) - 1 /\ s = Append(b, f) /\ f = s[Len(s)]
        /\ \A k \in 1..Len(s) - 1 : b[k] = s[k]
        /\ DOMAIN s = 1..Len(s) /\ DOMAIN b = 1..Len(s) - 1
    BY <1>1, FrontFacts, AppendFront, LenProperties
  <1>3. n \in Nat /\ Number(s, SyncFrame(c)) = n + IF f \in SyncFrame(c) THEN 1 ELSE 0
    BY PopNumber
  <1>4. /\ \A k \in DOMAIN b : Depth(s, c, k) = Depth(b, c, k)
        /\ Depth(s, c, Len(b) + 1) = Number(s, SyncFrame(c))
    <2>1. /\ \A k \in DOMAIN b : Depth(Append(b, f), c, k) = Depth(b, c, k)
          /\ Depth(Append(b, f), c, Len(b) + 1) = Number(Append(b, f), SyncFrame(c))
      BY <1>1, DepthAppend
    <2> QED
      BY <1>2, <2>1, Zenon
  <1>5. \A k \in DOMAIN b : b[k] \in SyncFrame(c) => Depth(b, c, k) \in 1..n
    BY <1>1, DepthFacts
  <1>6. /\ Len(w) = Number(s, SyncFrame(c))
        /\ \A k \in DOMAIN s : s[k] \in SyncFrame(c) => s[k].msg.id = w[Depth(s, c, k)].id
    BY DEF Matches
  <1> HIDE DEF b, f, n
  <1>7. \A k \in DOMAIN b : b[k] \in SyncFrame(c) => b[k].msg.id = w[Depth(b, c, k)].id
    <2> SUFFICES ASSUME NEW k \in DOMAIN b, b[k] \in SyncFrame(c)
                 PROVE  b[k].msg.id = w[Depth(b, c, k)].id
      OBVIOUS
    <2>1. k \in DOMAIN s /\ b[k] = s[k] /\ Depth(s, c, k) = Depth(b, c, k)
      BY <1>2, <1>4
    <2> QED
      BY <1>6, <2>1
  <1>8. ASSUME f \notin SyncFrame(c) PROVE Matches(b, c, w)
    <2>1. Len(w) = n
      BY <1>3, <1>6, <1>8
    <2> QED
      BY <1>7, <2>1 DEF Matches, n
  <1>9. ASSUME f \in SyncFrame(c)
        PROVE  w # <<>> /\ f.msg.id = Last(w).id /\ Matches(b, c, Front(w))
    <2>1. Len(w) = n + 1
      BY <1>3, <1>6, <1>9
    <2>2. w # <<>>
      BY <1>3, <2>1, EmptySeq
    <2>3. /\ Len(Front(w)) = n /\ \A j \in 1..n : Front(w)[j] = w[j]
          /\ Last(w) = w[n + 1]
      BY <1>3, <2>1, <2>2, FrontFacts
    <2>4. Len(s) \in DOMAIN s /\ Depth(s, c, Len(s)) = n + 1
      <3>1. Len(b) + 1 = Len(s) /\ Len(s) \in DOMAIN s
        BY <1>2
      <3> QED
        BY <1>4, <1>6, <2>1, <3>1
    <2>5. f.msg.id = Last(w).id
      BY <1>2, <1>6, <1>9, <2>3, <2>4
    <2>6. \A k \in DOMAIN b : b[k] \in SyncFrame(c) => b[k].msg.id = Front(w)[Depth(b, c, k)].id
      BY <1>5, <1>7, <2>3
    <2>7. Len(Front(w)) = Number(b, SyncFrame(c))
      BY <2>3 DEF n
    <2> QED
      BY <2>2, <2>5, <2>6, <2>7 DEF Matches
  <1> QED
    BY <1>8, <1>9 DEF b, f

(* The frame on top of the stack goes on.                                  *)
LEMMA MatchReplace ==
    ASSUME NEW p, NEW s, GoodStack(p, s), s # <<>>, NEW f \in GoodFrame(p),
           f.kind = Last(s).kind, f.conn = Last(s).conn, f.msg.id = Last(s).msg.id,
           NEW c, NEW w \in Seq(PendingReply), Matches(s, c, w)
    PROVE  Matches(Append(Front(s), f), c, w)
  <1>1. GoodStack(p, Front(s)) /\ Last(s) \in Frame /\ f \in Frame
    BY GoodTop DEF GoodFrame
  <1>2. f \in SyncFrame(c) <=> Last(s) \in SyncFrame(c)
    BY <1>1 DEF SyncFrame
  <1>3. CASE f \in SyncFrame(c)
    <2>1. /\ w # <<>> /\ Last(s).msg.id = Last(w).id /\ Matches(Front(s), c, Front(w))
      BY <1>2, <1>3, MatchPop
    <2>2. Front(w) \in Seq(PendingReply) /\ Last(w) \in PendingReply /\ w = Append(Front(w), Last(w))
      BY <2>1, FrontFacts, AppendFront
    <2>3. f.msg.id = Last(w).id
      BY <2>1
    <2>4. Matches(Append(Front(s), f), c, Append(Front(w), Last(w)))
      BY <1>1, <1>3, <2>1, <2>2, <2>3, MatchCall
    <2> QED
      BY <2>2, <2>4, Zenon
  <1>4. CASE f \notin SyncFrame(c)
    <2>1. Matches(Front(s), c, w)
      BY <1>2, <1>4, MatchPop
    <2> QED
      BY <1>1, <1>4, <2>1, MatchPush
  <1> QED
    BY <1>3, <1>4

-----------------------------------------------------------------------------
(* What other processes do leaves Ready alone.                             *)
LEMMA SameReady ==
    ASSUME NEW p, scheduled'[p] = scheduled[p], runq'[p] = runq[p],
           \A c \in Home(p) : incoming'[c] = incoming[c]
    PROVE  Ready(p)' = Ready(p) /\ (Tallied(p) => Tallied(p)')
  <1>1. \A x \in HomeItem(p) : incoming'[x.conn] = incoming[x.conn]
    BY DEF HomeItem
  <1>2. Ready(p)' = Ready(p)
    BY <1>1 DEF Ready, InTurn
  <1> QED
    BY <1>2 DEF Tallied

(* A step of one process, and the steps that change nothing of this.       *)
LEMMA OneProcess ==
    ASSUME DInv, NEW p \in Proc, Same(stack, stack', p), Same(scheduled, scheduled', p),
           Same(toDispatch, toDispatch', p), Same(runq, runq', p),
           SameConn(pending, pending', p), SameConn(incoming, incoming', p),
           Attended(p)', Matched(p)', Tallied(p)'
    PROVE  DInv'
  <1> SUFFICES ASSUME NEW q \in Proc, q # p PROVE Attended(q)' /\ Matched(q)' /\ Tallied(q)'
    BY DEF DInv
  <1>1. /\ stack'[q] = stack[q] /\ scheduled'[q] = scheduled[q]
        /\ toDispatch'[q] = toDispatch[q] /\ runq'[q] = runq[q]
    BY DEF Same
  <1>2. \A c \in Home(q) : pending'[c] = pending[c] /\ incoming'[c] = incoming[c]
    BY DEF SameConn, Home
  <1>3. Attended(q) /\ Matched(q) /\ Tallied(q)
    BY DEF DInv
  <1>4. Ready(q)' = Ready(q) /\ Tallied(q)'
    BY <1>1, <1>2, <1>3, SameReady
  <1> QED
    BY <1>1, <1>2, <1>3, <1>4 DEF Attended, Matched

LEMMA Unmoved ==
    ASSUME NEW f, NEW p PROVE Same(f, f, p) /\ SameConn(f, f, p)
  BY DEF Same, SameConn

(* A step of the main thread of p that takes no function off the run loop. *)
LEMMA StackStep ==
    ASSUME DInv, NEW p \in Proc, UNCHANGED <<scheduled, runq, incoming>>,
           Same(stack, stack', p), Same(toDispatch, toDispatch', p),
           SameConn(pending, pending', p),
           Offered(stack'[p], Ready(p), toDispatch'[p]), Kept(stack'[p], Ready(p)),
           \A c \in Home(p) : Matches(stack'[p], c, pending'[c])
    PROVE  DInv'
  <1>1. Attended(p) /\ Tallied(p)
    BY DEF DInv
  <1>2. Ready(p)' = Ready(p) /\ Tallied(p)'
    BY <1>1, SameReady
  <1>3. Attended(p)'
    BY <1>1, <1>2 DEF Attended
  <1>4. Matched(p)'
    BY DEF Matched
  <1> QED
    BY <1>2, <1>3, <1>4, Unmoved, OneProcess

LEMMA SameDispatch ==
    ASSUME DInv, UNCHANGED <<stack, scheduled, toDispatch, runq, pending, incoming>>
    PROVE  DInv'
  <1> SUFFICES ASSUME NEW p \in Proc PROVE Attended(p)' /\ Matched(p)' /\ Tallied(p)'
    BY DEF DInv
  <1>1. Attended(p) /\ Matched(p) /\ Tallied(p)
    BY DEF DInv
  <1>2. Ready(p)' = Ready(p) /\ Tallied(p)'
    BY <1>1, SameReady
  <1> QED
    BY <1>1, <1>2 DEF Attended, Matched

(* What is known of p.                                                     *)
LEMMA DispatchFacts ==
    ASSUME IInv, DInv, NEW p \in Proc
    PROVE  /\ ConnTypes /\ WaitInv
           /\ GoodStack(p, stack[p])
           /\ runq[p] \in Seq(HomeTask(p)) /\ toDispatch[p] \in Seq(HomeItem(p))
           /\ Tasked(scheduled[p], runq[p])
           /\ Offered(stack[p], Ready(p), toDispatch[p])
           /\ Kept(stack[p], Ready(p))
           /\ \A c \in Home(p) : /\ c \in Conn /\ ProcOf[c] = p
                                 /\ pending[c] \in Seq(PendingReply)
                                 /\ Matches(stack[p], c, pending[c])
                                 /\ incoming[c] \in Seq(Msg)
                                 /\ Len(incoming[c]) = Number(runq[p], OneTasks(c))
  <1>1. ConnTypes /\ WaitInv
    BY DEF IInv, WaitInv
  <1>2. Attended(p) /\ Matched(p) /\ Tallied(p)
    BY DEF DInv
  <1>3. \A c \in Home(p) : /\ c \in Conn /\ ProcOf[c] = p /\ pending[c] \in Seq(PendingReply)
                          /\ incoming[c] \in Seq(Msg)
    BY <1>1 DEF WaitInv, WaitTypes, ConnTypes, Home
  <1> QED
    BY <1>1, <1>2, <1>3, HomeFacts DEF Attended, Matched, Tallied

(* The stack of p, and what the other processes keep.                      *)
LEMMA StackOf ==
    ASSUME IInv, NEW p \in Proc, NEW s, stack' = [stack EXCEPT ![p] = s]
    PROVE  stack'[p] = s /\ Same(stack, stack', p)
  <1>1. stack \in [Proc -> Seq(Frame)]
    BY DEF IInv, WaitTypes
  <1> QED
    BY <1>1 DEF Same

LEMMA TaskTypes ==
    ASSUME IInv, NEW p \in Proc
    PROVE  /\ runq \in [Proc -> Seq(Task)] /\ toDispatch \in [Proc -> Seq(Item)]
           /\ scheduled \in [Proc -> SUBSET Conn] /\ pending \in [Conn -> Seq(PendingReply)]
           /\ stack \in [Proc -> Seq(Frame)]
  BY DEF IInv, WaitTypes, ConnTypes

-----------------------------------------------------------------------------
(* The steps of the main thread.  The frame on top of the stack is not a   *)
(* dispatchMessages about to take its messages, unless the step takes them.*)
LEMMA PopDispatch ==
    ASSUME IInv, DInv, NEW p \in Proc, stack[p] # <<>>, ~AtTop(stack[p], "batch", "swap"),
           Last(stack[p]).kind # "sync", Pop(p),
           UNCHANGED <<scheduled, toDispatch, runq, pending, incoming>>
    PROVE  DInv'
  <1> DEFINE s == stack[p]
             S == Ready(p)
  <1>1. /\ GoodStack(p, s) /\ Kept(s, S) /\ Offered(s, S, toDispatch[p]) /\ Tasked(scheduled[p], runq[p])
        /\ \A c \in Home(p) : pending[c] \in Seq(PendingReply) /\ Matches(s, c, pending[c])
    BY DispatchFacts
  <1>2. stack'[p] = Front(s) /\ Same(stack, stack', p)
    BY StackOf DEF Pop
  <1>3. Kept(Front(s), S) /\ Offered(Front(s), S, toDispatch[p])
    BY <1>1, KeptPop, OfferedToAll
  <1>4. \A c \in Home(p) : Matches(Front(s), c, pending[c])
    <2>1. \A c : Last(s) \notin SyncFrame(c)
      BY DEF SyncFrame
    <2> QED
      BY <1>1, <2>1, MatchPop
  <1> HIDE DEF s, S
  <1> QED
    BY <1>1, <1>2, <1>3, <1>4, Unmoved, StackStep DEF S

LEMMA ReplaceDispatch ==
    ASSUME IInv, DInv, NEW p \in Proc, stack[p] # <<>>, ~AtTop(stack[p], "batch", "swap"),
           NEW f \in GoodFrame(p), f.kind = Last(stack[p]).kind,
           f.conn = Last(stack[p]).conn, f.msg.id = Last(stack[p]).msg.id,
           Safe(Last(stack[p]), Ready(p)) => Safe(f, Ready(p)), Replace(p, f),
           UNCHANGED <<scheduled, toDispatch, runq, pending, incoming>>
    PROVE  DInv'
  <1> DEFINE s == stack[p]
             S == Ready(p)
             t == Append(Front(s), f)
  <1>1. /\ GoodStack(p, s) /\ Kept(s, S) /\ Offered(s, S, toDispatch[p]) /\ Tasked(scheduled[p], runq[p])
        /\ \A c \in Home(p) : pending[c] \in Seq(PendingReply) /\ Matches(s, c, pending[c])
    BY DispatchFacts
  <1>2. stack'[p] = t /\ Same(stack, stack', p)
    BY StackOf DEF Replace
  <1>3. Kept(t, S) /\ Offered(t, S, toDispatch[p])
    <2>1. GoodStack(p, Front(s))
      BY <1>1, GoodTop
    <2>2. Kept(Front(s), S) /\ Safe(f, S)
      BY <1>1, KeptPop
    <2> QED
      BY <1>1, <2>1, <2>2, KeptPush, OfferedToAll
  <1>4. \A c \in Home(p) : Matches(t, c, pending[c])
    BY <1>1, MatchReplace
  <1> HIDE DEF s, S, t
  <1> QED
    BY <1>1, <1>2, <1>3, <1>4, Unmoved, StackStep DEF S

LEMMA EndDispatchKeeps ==
    ASSUME IInv, DInv, NEW p \in Proc, EndDispatch(p) PROVE DInv'
  <1>1. /\ At(p, "handler", "run") /\ Pop(p) /\ UNCHANGED <<scheduled, toDispatch, runq, pending, incoming>>
    BY DEF EndDispatch, loopVars, replyVars
  <1>2. stack[p] # <<>> /\ Last(stack[p]).kind = "handler"
    BY <1>1 DEF At, Top
  <1>3. ~AtTop(stack[p], "batch", "swap")
    BY <1>2 DEF AtTop
  <1> QED
    BY <1>1, <1>2, <1>3, PopDispatch

LEMMA IncrementMarkedCountKeeps ==
    ASSUME IInv, DInv, NEW p \in Proc, IncrementMarkedCount(p) PROVE DInv'
  <1> DEFINE f == Raised(Top(p))
  <1>1. Replace(p, f) /\ UNCHANGED <<scheduled, toDispatch, runq, pending, incoming>>
    BY DEF IncrementMarkedCount, Raised, loopVars, replyVars
  <1>2. /\ stack[p] # <<>> /\ Top(p) = Last(stack[p]) /\ Top(p).kind = "handler"
        /\ f \in GoodFrame(p) /\ f.kind = Top(p).kind /\ f.conn = Top(p).conn
        /\ f.msg.id = Top(p).msg.id /\ f.rest = Top(p).rest /\ f.held = Top(p).held
    BY RaisedFacts
  <1>3. ~AtTop(stack[p], "batch", "swap")
    BY <1>2 DEF AtTop
  <1> HIDE DEF f
  <1>4. Safe(Top(p), Ready(p)) => Safe(f, Ready(p))
    BY <1>2 DEF Safe
  <1> QED
    BY <1>1, <1>2, <1>3, <1>4, ReplaceDispatch

LEMMA SyncWakeKeeps ==
    ASSUME IInv, DInv, NEW p \in Proc, SyncWake(p) PROVE DInv'
  <1> DEFINE f == [Top(p) EXCEPT !.pc = "dispatch"]
  <1>1. /\ At(p, "sync", "blocked") /\ Replace(p, f)
        /\ UNCHANGED <<scheduled, toDispatch, runq, pending, incoming>>
    BY DEF SyncWake, connVars, replyVars
  <1>2. /\ stack[p] # <<>> /\ Top(p) = Last(stack[p]) /\ Top(p) \in GoodFrame(p) /\ Top(p) \in Frame
        /\ Top(p).kind = "sync"
    BY <1>1, TopFacts, DispatchFacts
  <1>3. /\ f \in GoodFrame(p) /\ f.kind = Top(p).kind /\ f.conn = Top(p).conn /\ f.msg = Top(p).msg
        /\ f.rest = Top(p).rest /\ f.held = Top(p).held
    BY <1>2 DEF GoodFrame, Frame
  <1>4. ~AtTop(stack[p], "batch", "swap")
    BY <1>2 DEF AtTop
  <1> HIDE DEF f
  <1>5. Safe(Top(p), Ready(p)) => Safe(f, Ready(p))
    BY <1>3 DEF Safe
  <1> QED
    BY <1>1, <1>2, <1>3, <1>4, <1>5, ReplaceDispatch

(* The call returns and takes its pending reply with it.                   *)
LEMMA SyncReturnKeeps ==
    ASSUME IInv, DInv, NEW p \in Proc, NEW pc, At(p, "sync", pc), NEW ok,
           SyncReturn(p, Top(p).conn, ok)
    PROVE  DInv'
  <1> DEFINE s == stack[p]
             S == Ready(p)
             c == Top(p).conn
  <1>1. /\ GoodStack(p, s) /\ Kept(s, S) /\ Offered(s, S, toDispatch[p]) /\ Tasked(scheduled[p], runq[p])
        /\ \A d \in Home(p) : /\ d \in Conn /\ pending[d] \in Seq(PendingReply)
                              /\ Matches(s, d, pending[d])
    BY DispatchFacts
  <1>2. /\ s # <<>> /\ Top(p) = Last(s) /\ Top(p) \in Frame /\ Top(p).kind = "sync"
        /\ c \in Home(p) /\ c \in Conn /\ ProcOf[c] = p
    BY TopFacts, DispatchFacts DEF Home
  <1>3. /\ Pop(p) /\ pending' = [pending EXCEPT ![c] = Front(pending[c])]
        /\ UNCHANGED <<scheduled, toDispatch, runq, incoming>>
    BY DEF SyncReturn, PopPending
  <1>4. stack'[p] = Front(s) /\ Same(stack, stack', p)
    BY <1>3, StackOf DEF Pop
  <1>5. ~AtTop(s, "batch", "swap") /\ \A d : Last(s) \in SyncFrame(d) <=> d = c
    BY <1>2 DEF AtTop, SyncFrame
  <1>6. Kept(Front(s), S) /\ Offered(Front(s), S, toDispatch[p])
    BY <1>1, <1>2, <1>5, KeptPop, OfferedToAll
  <1>7. pending \in [Conn -> Seq(PendingReply)]
    BY TaskTypes
  <1> HIDE DEF s, S, c
  <1>8. SameConn(pending, pending', p)
    BY <1>2, <1>3, <1>7 DEF SameConn
  <1>9. ASSUME NEW d \in Home(p) PROVE Matches(Front(s), d, pending'[d])
    <2>1. CASE d = c
      <3>1. pending'[d] = Front(pending[d])
        BY <1>2, <1>3, <1>7, <2>1
      <3>2. Matches(Front(s), d, Front(pending[d]))
        BY <1>1, <1>2, <1>5, <2>1, MatchPop
      <3> QED
        BY <3>1, <3>2
    <2>2. CASE d # c
      <3>1. pending'[d] = pending[d]
        BY <1>1, <1>2, <1>3, <1>7, <2>2
      <3>2. Matches(Front(s), d, pending[d])
        BY <1>1, <1>2, <1>5, <2>2, MatchPop
      <3> QED
        BY <3>1, <3>2
    <2> QED
      BY <2>1, <2>2
  <1> QED
    BY <1>1, <1>3, <1>4, <1>6, <1>8, <1>9, Unmoved, StackStep DEF S

LEMMA SyncCheckKeeps ==
    ASSUME IInv, DInv, NEW p \in Proc, SyncCheck(p) PROVE DInv'
  <1> DEFINE f == [Top(p) EXCEPT !.pc = "blocked"]
             c == Top(p).conn
  <1>1. At(p, "sync", "check")
    BY DEF SyncCheck
  <1>2. CASE StopsWaiting(c)
    <2>1. SyncReturn(p, Top(p).conn, Last(pending[c]).got)
      BY <1>2 DEF SyncCheck
    <2> QED
      BY <1>1, <2>1, SyncReturnKeeps
  <1>3. CASE ~StopsWaiting(c)
    <2>1. Replace(p, f) /\ UNCHANGED <<scheduled, toDispatch, runq, pending, incoming>>
      BY <1>3 DEF SyncCheck, loopVars, connVars, replyVars
    <2>2. /\ stack[p] # <<>> /\ Top(p) = Last(stack[p]) /\ Top(p) \in GoodFrame(p)
          /\ Top(p) \in Frame /\ Top(p).kind = "sync"
      BY <1>1, TopFacts, DispatchFacts
    <2>3. /\ f \in GoodFrame(p) /\ f.kind = Top(p).kind /\ f.conn = Top(p).conn
          /\ f.msg = Top(p).msg /\ f.rest = Top(p).rest /\ f.held = Top(p).held
      BY <2>2 DEF GoodFrame, Frame
    <2>4. ~AtTop(stack[p], "batch", "swap")
      BY <2>2 DEF AtTop
    <2> HIDE DEF f
    <2>5. Safe(Top(p), Ready(p)) => Safe(f, Ready(p))
      BY <2>3 DEF Safe
    <2> QED
      BY <2>1, <2>2, <2>3, <2>4, <2>5, ReplaceDispatch
  <1> QED
    BY <1>2, <1>3

LEMMA SyncTimeoutKeeps ==
    ASSUME IInv, DInv, NEW p \in Proc, SyncTimeout(p) PROVE DInv'
  <1>1. At(p, "sync", "blocked") /\ SyncReturn(p, Top(p).conn, FALSE)
    BY DEF SyncTimeout
  <1> QED
    BY <1>1, SyncReturnKeeps

(* The call of client code adds its frame and its pending reply.           *)
LEMMA SendSyncKeeps ==
    ASSUME IInv, DInv, NEW c \in Conn, SendSync(c) PROVE DInv'
  <1> DEFINE p == ProcOf[c]
             id == requestID[c] + 1
             m == [kind |-> "sync", id |-> id, marked |-> ShouldMark(c, TRUE), n |-> sent[c] + 1]
             f == NewFrame("sync", "dispatch", c, m, FALSE)
             r == [id |-> id, got |-> FALSE]
             s == stack[p]
             S == Ready(p)
             t == Append(s, f)
  <1>1. /\ p \in Proc /\ c \in Home(p) /\ Running(p)
        /\ UNCHANGED <<scheduled, toDispatch, runq, incoming>>
    BY ConnAssumption DEF SendSync, Home, loopVars
  <1>2. CASE ~(client[c] /\ shouldWait[c])
    <2>1. UNCHANGED <<pending, stack>>
      BY <1>2 DEF SendSync
    <2> QED
      BY <1>1, <2>1, SameDispatch
  <1>3. CASE client[c] /\ shouldWait[c]
    <2>1. pending' = [pending EXCEPT ![c] = Append(@, r)] /\ stack' = [stack EXCEPT ![p] = t]
      BY <1>1, <1>3, TaskTypes DEF SendSync, Push
    <2>2. /\ GoodStack(p, s) /\ Kept(s, S) /\ Offered(s, S, toDispatch[p]) /\ Tasked(scheduled[p], runq[p])
          /\ ConnTypes
          /\ \A d \in Home(p) : /\ d \in Conn /\ pending[d] \in Seq(PendingReply)
                                /\ Matches(s, d, pending[d])
      BY <1>1, DispatchFacts
    <2>3. id \in Nat /\ m \in Msg
      <3>1. id \in Nat /\ sent[c] + 1 \in Nat
        BY <2>2 DEF ConnTypes
      <3>2. ShouldMark(c, TRUE) \in BOOLEAN
        BY ShouldMarkType, Zenon
      <3> QED
        BY <3>1, <3>2, MessageTypes
    <2>4. /\ f \in GoodFrame(p) /\ f.kind = "sync" /\ f.conn = c /\ f \in Frame /\ f.msg.id = id
          /\ f.rest = <<>> /\ f.held = <<>>
      BY <1>1, <2>3, EmptySeq DEF NewFrame, GoodFrame, Frame
    <2>5. r \in PendingReply /\ r.id = id
      BY <2>3 DEF PendingReply
    <2>6. ~AtTop(s, "batch", "swap")
      BY <1>1 DEF AtTop, Running, Top
    <2>7. stack'[p] = t /\ Same(stack, stack', p)
      BY <1>1, <2>1, StackOf
    <2> HIDE DEF p, id, m, f, r, s, S
    <2>8. Safe(f, S)
      BY <2>4 DEF Safe
    <2>9. Kept(t, S) /\ Offered(t, S, toDispatch[p])
      BY <2>2, <2>4, <2>6, <2>8, KeptPush, OfferedToAll
    <2>10. pending \in [Conn -> Seq(PendingReply)]
      BY <1>1, TaskTypes
    <2>11. SameConn(pending, pending', p)
      BY <2>1, <2>10 DEF SameConn, p
    <2>12. ASSUME NEW d \in Home(p) PROVE Matches(t, d, pending'[d])
      <3>1. CASE d = c
        <4>1. pending'[d] = Append(pending[d], r) /\ f \in SyncFrame(d)
          BY <2>1, <2>4, <2>10, <3>1 DEF SyncFrame
        <4> QED
          BY <2>2, <2>4, <2>5, <4>1, MatchCall
      <3>2. CASE d # c
        <4>1. pending'[d] = pending[d] /\ f \notin SyncFrame(d)
          BY <2>1, <2>2, <2>4, <2>10, <3>2 DEF SyncFrame
        <4> QED
          BY <2>2, <2>4, <4>1, MatchPush
      <3> QED
        BY <3>1, <3>2
    <2> HIDE DEF t
    <2> QED
      BY <1>1, <2>2, <2>7, <2>9, <2>11, <2>12, Unmoved, StackStep DEF S
  <1> QED
    BY <1>2, <1>3

-----------------------------------------------------------------------------
(* dispatchMessages takes the messages: those of other connections than    *)
(* its own are scheduled.                                                  *)
LEMMA SafeSwap ==
    ASSUME NEW s, s # <<>>, NEW S, NEW q, Offered(s, S, q), NEW g, g.rest = q,
           g.conn = Last(s).conn, \A i \in DOMAIN g.held : g.held[i] \in S
    PROVE  Safe(g, S)
  BY DEF Safe, Offered, Taken

LEMMA SwapMessagesKeeps ==
    ASSUME IInv, DInv, NEW p \in Proc, SwapMessages(p) PROVE DInv'
  <1> DEFINE s == stack[p]
             S == Ready(p)
             q == toDispatch[p]
             f == [Top(p) EXCEPT !.pc = "loop", !.rest = q]
             t == Append(Front(s), f)
  <1>1. /\ At(p, "batch", "swap") /\ stack' = [stack EXCEPT ![p] = t]
        /\ toDispatch' = [toDispatch EXCEPT ![p] = <<>>]
        /\ UNCHANGED <<scheduled, runq, pending, incoming>>
    BY DEF SwapMessages, Swap, connVars, replyVars
  <1>2. /\ GoodStack(p, s) /\ Kept(s, S) /\ Offered(s, S, q) /\ Tasked(scheduled[p], runq[p])
        /\ WaitInv /\ q \in Seq(HomeItem(p))
        /\ \A c \in Home(p) : pending[c] \in Seq(PendingReply) /\ Matches(s, c, pending[c])
    BY DispatchFacts
  <1>3. /\ s # <<>> /\ Top(p) = Last(s) /\ Top(p) \in GoodFrame(p) /\ Top(p) \in Frame
        /\ Top(p).kind = "batch"
    BY <1>1, <1>2, TopFacts
  <1>4. f \in GoodFrame(p)
    BY <1>2, <1>3, BatchFrame
  <1>5. /\ f.kind = Last(s).kind /\ f.conn = Last(s).conn /\ f.msg = Last(s).msg
        /\ f.rest = q /\ f.held = Last(s).held
    BY <1>3 DEF Frame
  <1>6. stack'[p] = t /\ Same(stack, stack', p)
    BY <1>1, StackOf
  <1>7. toDispatch'[p] = <<>> /\ Same(toDispatch, toDispatch', p)
    <2>1. toDispatch \in [Proc -> Seq(Item)]
      BY TaskTypes
    <2> QED
      BY <1>1, <2>1 DEF Same
  <1> HIDE DEF s, S, q, f
  <1>8. GoodStack(p, Front(s)) /\ Kept(Front(s), S) /\ Safe(Last(s), S)
    BY <1>2, <1>3, GoodTop, KeptPop
  <1>9. Safe(f, S)
    <2>1. \A i \in DOMAIN f.held : f.held[i] \in S
      BY <1>5, <1>8 DEF Safe
    <2> QED
      BY <1>2, <1>3, <1>5, <2>1, SafeSwap
  <1>10. Kept(t, S)
    BY <1>4, <1>8, <1>9, KeptPush
  <1>11. \A c \in Home(p) : Matches(t, c, pending[c])
    BY <1>2, <1>3, <1>4, <1>5, MatchReplace
  <1> HIDE DEF t
  <1>12. Offered(t, S, <<>>)
    BY DEF Offered
  <1> QED
    BY <1>1, <1>2, <1>6, <1>7, <1>10, <1>11, <1>12, Unmoved, StackStep DEF S

LEMMA SyncDispatchKeeps ==
    ASSUME IInv, DInv, NEW p \in Proc, SyncDispatch(p) PROVE DInv'
  <1> DEFINE s == stack[p]
             S == Ready(p)
             q == toDispatch[p]
             g == [Top(p) EXCEPT !.pc = "check"]
             b == Append(Front(s), g)
             e == NewFrame("batch", "swap", NoConn, NoMsg, FALSE)
             f == [e EXCEPT !.pc = "loop", !.rest = q]
             t == Append(b, f)
  <1>1. /\ At(p, "sync", "dispatch") /\ stack' = [stack EXCEPT ![p] = t]
        /\ toDispatch' = [toDispatch EXCEPT ![p] = <<>>]
        /\ UNCHANGED <<scheduled, runq, pending, incoming>>
    BY DEF SyncDispatch, Swap, connVars, replyVars
  <1>2. /\ GoodStack(p, s) /\ Kept(s, S) /\ Tasked(scheduled[p], runq[p])
        /\ WaitInv /\ q \in Seq(HomeItem(p))
        /\ \A c \in Home(p) : pending[c] \in Seq(PendingReply) /\ Matches(s, c, pending[c])
    BY DispatchFacts
  <1>3. /\ s # <<>> /\ Top(p) = Last(s) /\ Top(p) \in GoodFrame(p) /\ Top(p) \in Frame
        /\ Top(p).kind = "sync"
    BY <1>1, <1>2, TopFacts
  <1>4. /\ g \in GoodFrame(p) /\ g.kind = Last(s).kind /\ g.conn = Last(s).conn
        /\ g.msg = Last(s).msg /\ g.rest = Last(s).rest /\ g.held = Last(s).held
    BY <1>3 DEF GoodFrame, Frame
  <1>5. e \in GoodFrame(p) /\ e \in Frame /\ e.kind = "batch" /\ e.conn = NoConn /\ e.held = <<>>
    <2>1. NoMsg \in Msg
      BY DEF NoMsg, Msg
    <2> QED
      BY <2>1, EmptySeq DEF NewFrame, GoodFrame, Frame
  <1> HIDE DEF e
  <1>6. f \in GoodFrame(p)
    BY <1>2, <1>5, BatchFrame
  <1>7. f.kind = "batch" /\ f.conn = NoConn /\ f.held = <<>>
    BY <1>5 DEF Frame
  <1>8. stack'[p] = t /\ Same(stack, stack', p)
    BY <1>1, StackOf
  <1>9. toDispatch'[p] = <<>> /\ Same(toDispatch, toDispatch', p)
    <2>1. toDispatch \in [Proc -> Seq(Item)]
      BY TaskTypes
    <2> QED
      BY <1>1, <2>1 DEF Same
  <1> HIDE DEF s, S, q, f, g
  <1>10. GoodStack(p, Front(s)) /\ Kept(Front(s), S) /\ Safe(g, S) /\ GoodStack(p, b)
    <2>1. Kept(Front(s), S) /\ Safe(Last(s), S) /\ GoodStack(p, Front(s))
      BY <1>2, <1>3, GoodTop, KeptPop
    <2>2. Safe(g, S)
      BY <1>4, <2>1 DEF Safe
    <2> QED
      BY <1>2, <1>3, <1>4, <2>1, <2>2, ReplaceTop
  <1>11. Kept(b, S)
    BY <1>4, <1>10, KeptPush
  <1>12. Safe(f, S) /\ \A c : f \notin SyncFrame(c)
    BY <1>7 DEF Safe, SyncFrame
  <1>13. \A c \in Home(p) : Matches(b, c, pending[c])
    BY <1>2, <1>3, <1>4, MatchReplace
  <1> HIDE DEF b
  <1>14. Kept(t, S)
    BY <1>6, <1>10, <1>11, <1>12, KeptPush
  <1>15. \A c \in Home(p) : Matches(t, c, pending[c])
    BY <1>6, <1>10, <1>12, <1>13, MatchPush
  <1> HIDE DEF t
  <1>16. Offered(t, S, <<>>)
    BY DEF Offered
  <1> QED
    BY <1>1, <1>2, <1>8, <1>9, <1>14, <1>15, <1>16, Unmoved, StackStep DEF S

(* The head of rest leaves it: to held, when it is of another connection.  *)
LEMMA SafeNext ==
    ASSUME NEW p, NEW f \in GoodFrame(p), f.rest # <<>>, NEW S, Safe(f, S), NEW g,
           g.conn = f.conn, g.rest = Tail(f.rest),
           \/ g.held = f.held
           \/ f.conn # NoConn /\ f.conn # Head(f.rest).conn /\ g.held = Append(f.held, Head(f.rest))
    PROVE  Safe(g, S)
  <1> DEFINE r == f.rest
             h == f.held
  <1>1. r \in Seq(HomeItem(p)) /\ h \in Seq(HomeItem(p))
    BY DEF GoodFrame
  <1>2. /\ \A i \in DOMAIN h : h[i] \in S
        /\ f.conn # NoConn => \A i \in DOMAIN r : r[i].conn # f.conn => r[i] \in S
    BY DEF Safe
  <1>3. r # <<>>
    OBVIOUS
  <1> HIDE DEF r, h
  <1>4. /\ Len(r) \in Nat \ {0} /\ DOMAIN r = 1..Len(r) /\ Head(r) = r[1] /\ Head(r) \in HomeItem(p)
        /\ Tail(r) \in Seq(HomeItem(p)) /\ Len(Tail(r)) = Len(r) - 1
        /\ \A i \in 1..Len(r) - 1 : Tail(r)[i] = r[i + 1]
    BY <1>1, <1>3, HeadTailProperties, LenProperties, EmptySeq
  <1>5. DOMAIN Tail(r) = 1..Len(r) - 1
    BY <1>4, LenProperties
  <1>6. \A i \in DOMAIN Tail(r) : i + 1 \in DOMAIN r /\ Tail(r)[i] = r[i + 1]
    BY <1>4, <1>5
  <1>7. f.conn # NoConn => \A i \in DOMAIN Tail(r) :
            Tail(r)[i].conn # f.conn => Tail(r)[i] \in S
    BY <1>2, <1>6
  <1>8. f.conn # NoConn /\ f.conn # Head(r).conn => Head(r) \in S
    <2>1. 1 \in DOMAIN r
      BY <1>4
    <2> QED
      BY <1>2, <1>4, <2>1
  <1>9. \A i \in DOMAIN g.held : g.held[i] \in S
    <2>1. CASE g.held = h
      BY <1>2, <2>1
    <2>2. CASE /\ f.conn # NoConn /\ f.conn # Head(r).conn
               /\ g.held = Append(h, Head(r))
      <3>1. /\ Len(h) \in Nat /\ DOMAIN h = 1..Len(h)
            /\ DOMAIN Append(h, Head(r)) = 1..Len(h) + 1
            /\ Append(h, Head(r))[Len(h) + 1] = Head(r)
            /\ \A i \in 1..Len(h) : Append(h, Head(r))[i] = h[i]
        BY <1>1, <1>4, AppendProperties, LenProperties
      <3> SUFFICES ASSUME NEW i \in 1..Len(h) + 1
                   PROVE  Append(h, Head(r))[i] \in S
        BY <2>2, <3>1
      <3>2. CASE i \in 1..Len(h)
        BY <1>2, <3>1, <3>2
      <3>3. CASE i = Len(h) + 1
        BY <1>8, <2>2, <3>1, <3>3
      <3> QED
        BY <3>1, <3>2, <3>3
    <2> QED
      BY <2>1, <2>2 DEF r, h
  <1> QED
    BY <1>7, <1>9 DEF Safe, r

(* The frame of dispatchMessages after an iteration of its loop.           *)
Advanced(f) == [f EXCEPT !.rest = Tail(@)]

SetAside(f) == [Advanced(f) EXCEPT !.held = Append(@, Head(f.rest))]

LEMMA NextFrames ==
    ASSUME WaitInv, NEW p \in Proc, NEW f \in GoodFrame(p), f.kind = "batch", f.pc = "loop",
           f.rest # <<>>, NEW next, next = Advanced(f), NEW aside, aside = SetAside(f)
    PROVE  /\ Head(f.rest) \in HomeItem(p)
           /\ next \in GoodFrame(p) /\ next.kind = f.kind /\ next.conn = f.conn
           /\ next.msg = f.msg /\ next.rest = Tail(f.rest) /\ next.held = f.held
           /\ f.conn # NoConn => aside \in GoodFrame(p)
           /\ aside.kind = f.kind /\ aside.conn = f.conn /\ aside.msg = f.msg
           /\ aside.rest = Tail(f.rest) /\ aside.held = Append(f.held, Head(f.rest))
  <1>1. f \in Frame /\ f.rest \in Seq(HomeItem(p)) /\ f.held \in Seq(HomeItem(p))
    BY DEF GoodFrame
  <1>2. Head(f.rest) \in HomeItem(p) /\ Tail(f.rest) \in Seq(HomeItem(p))
    BY <1>1, HeadTailProperties
  <1>3. Append(f.held, Head(f.rest)) \in Seq(HomeItem(p))
    BY <1>1, <1>2, AppendProperties
  <1>4. Append(f.held, Head(f.rest)) \in Seq(Item)
    <2>1. HomeItem(p) \subseteq Item
      BY DEF HomeItem, Item, Home
    <2> QED
      BY <1>3, <2>1, SeqMonotonic
  <1>5. next = [f EXCEPT !.pc = "loop", !.rest = Tail(f.rest)]
    BY <1>1 DEF Frame, Advanced
  <1>6. next \in GoodFrame(p)
    BY <1>2, <1>5, BatchFrame
  <1>7. /\ next \in Frame /\ next.kind = f.kind /\ next.conn = f.conn /\ next.msg = f.msg
        /\ next.rest = Tail(f.rest) /\ next.held = f.held /\ next.pc = "loop"
    BY <1>1, <1>5, <1>6 DEF GoodFrame, Frame
  <1>8. aside = [next EXCEPT !.held = Append(f.held, Head(f.rest))]
    BY <1>7 DEF Frame, SetAside
  <1>9. /\ aside \in Frame /\ aside.kind = f.kind /\ aside.conn = f.conn /\ aside.msg = f.msg
        /\ aside.rest = Tail(f.rest) /\ aside.held = Append(f.held, Head(f.rest))
        /\ aside.pc = "loop"
    BY <1>4, <1>7, <1>8 DEF Frame
  <1>10. f.conn # NoConn => aside \in GoodFrame(p)
    BY <1>2, <1>3, <1>9 DEF GoodFrame
  <1> QED
    BY <1>2, <1>6, <1>7, <1>9, <1>10

LEMMA DispatchNextKeeps ==
    ASSUME IInv, DInv, NEW p \in Proc, DispatchNext(p) PROVE DInv'
  <1> DEFINE s == stack[p]
             S == Ready(p)
             f == Top(p)
             c == Head(f.rest).conn
             m == Head(f.rest).msg
             next == [f EXCEPT !.rest = Tail(@)]
             aside == [next EXCEPT !.held = Append(@, Head(f.rest))]
             b == Append(Front(s), next)
             g == NewFrame("handler", "run", c, m, invalid[c])
  <1>1. /\ At(p, "batch", "loop") /\ f.rest # <<>> /\ UNCHANGED <<scheduled, toDispatch, runq, pending, incoming>>
    BY DEF DispatchNext, loopVars, replyVars
  <1>2. /\ GoodStack(p, s) /\ Kept(s, S) /\ Offered(s, S, toDispatch[p]) /\ Tasked(scheduled[p], runq[p])
        /\ ConnTypes /\ WaitInv
        /\ \A d \in Home(p) : pending[d] \in Seq(PendingReply) /\ Matches(s, d, pending[d])
    BY DispatchFacts
  <1>3. /\ s # <<>> /\ f = Last(s) /\ f \in GoodFrame(p) /\ f.kind = "batch" /\ f.pc = "loop"
    BY <1>1, <1>2, TopFacts
  <1>4. ~AtTop(s, "batch", "swap")
    BY <1>3 DEF AtTop
  <1>5. /\ Head(f.rest) \in HomeItem(p)
        /\ next \in GoodFrame(p) /\ next.kind = f.kind /\ next.conn = f.conn
        /\ next.msg = f.msg /\ next.rest = Tail(f.rest) /\ next.held = f.held
        /\ f.conn # NoConn => aside \in GoodFrame(p)
        /\ aside.kind = f.kind /\ aside.conn = f.conn /\ aside.msg = f.msg
        /\ aside.rest = Tail(f.rest) /\ aside.held = Append(f.held, Head(f.rest))
    <2>1. next = Advanced(f) /\ aside = SetAside(f)
      BY DEF Advanced, SetAside
    <2> HIDE DEF f, next, aside
    <2> QED
      BY <1>1, <1>2, <1>3, <2>1, NextFrames
  <1>6. CASE f.conn # NoConn /\ f.conn # c
    <2>1. Replace(p, aside)
      BY <1>6 DEF DispatchNext
    <2> HIDE DEF next, aside, f
    <2>2. Safe(f, S) => Safe(aside, S)
      BY <1>1, <1>3, <1>5, <1>6, SafeNext
    <2> QED
      BY <1>1, <1>3, <1>4, <1>5, <1>6, <2>1, <2>2, ReplaceDispatch
  <1>7. CASE ~(f.conn # NoConn /\ f.conn # c)
    <2>1. c \in Conn /\ ProcOf[c] = p /\ c \in Home(p) /\ m \in Msg
      BY <1>5 DEF HomeItem, Home
    <2>2. \/ stack' = [stack EXCEPT ![p] = b]
          \/ stack' = [stack EXCEPT ![p] = Append(b, g)]
      BY <1>7, <2>1 DEF DispatchNext, DispatchMessage
    <2>3. g \in GoodFrame(p) /\ g.kind = "handler" /\ g.rest = <<>> /\ g.held = <<>>
      <3>1. invalid[c] \in BOOLEAN
        BY <1>2, <2>1 DEF ConnTypes
      <3> QED
        BY <2>1, <3>1, EmptySeq DEF NewFrame, GoodFrame, Frame
    <2> HIDE DEF next, aside, f, g
    <2>4. Safe(next, S) /\ Safe(g, S)
      <3>1. Safe(f, S)
        BY <1>2, <1>3, KeptPop
      <3> QED
        BY <1>1, <1>3, <1>5, <2>3, <3>1, SafeNext, SafeEmpty
    <2>5. GoodStack(p, b) /\ Kept(b, S) /\ \A d \in Home(p) : Matches(b, d, pending[d])
      <3>1. GoodStack(p, Front(s)) /\ Kept(Front(s), S)
        BY <1>2, <1>3, GoodTop, KeptPop
      <3>2. GoodStack(p, b)
        BY <1>2, <1>3, <1>5, ReplaceTop
      <3>3. Kept(b, S)
        BY <1>5, <2>4, <3>1, KeptPush
      <3> QED
        BY <1>2, <1>3, <1>5, <3>2, <3>3, MatchReplace
    <2> HIDE DEF b
    <2>6. Kept(Append(b, g), S) /\ \A d \in Home(p) : Matches(Append(b, g), d, pending[d])
      <3>1. \A d : g \notin SyncFrame(d)
        BY <2>3 DEF SyncFrame
      <3> QED
        BY <2>3, <2>4, <2>5, <3>1, KeptPush, MatchPush
    <2>7. /\ Same(stack, stack', p) /\ Kept(stack'[p], S)
          /\ \A d \in Home(p) : Matches(stack'[p], d, pending[d])
      BY <2>2, <2>5, <2>6, StackOf
    <2>8. Offered(stack'[p], S, toDispatch[p])
      BY <1>2, <1>4, OfferedToAll
    <2> QED
      BY <1>1, <1>2, <2>7, <2>8, Unmoved, StackStep
  <1> QED
    BY <1>6, <1>7

LEMMA PutBackKeeps ==
    ASSUME IInv, DInv, NEW p \in Proc, PutBack(p) PROVE DInv'
  <1> DEFINE s == stack[p]
             S == Ready(p)
             q == toDispatch[p]
             h == Top(p).held
  <1>1. /\ At(p, "batch", "loop") /\ Pop(p) /\ toDispatch' = [toDispatch EXCEPT ![p] = q \o h]
        /\ UNCHANGED <<scheduled, runq, pending, incoming>>
    BY DEF PutBack, connVars, replyVars
  <1>2. /\ GoodStack(p, s) /\ Kept(s, S) /\ Offered(s, S, q) /\ Tasked(scheduled[p], runq[p]) /\ WaitInv
        /\ q \in Seq(HomeItem(p))
        /\ \A d \in Home(p) : pending[d] \in Seq(PendingReply) /\ Matches(s, d, pending[d])
    BY DispatchFacts
  <1>3. /\ s # <<>> /\ Top(p) = Last(s) /\ Top(p) \in GoodFrame(p)
        /\ Top(p).kind = "batch" /\ Top(p).pc = "loop"
    BY <1>1, <1>2, TopFacts
  <1>4. ~AtTop(s, "batch", "swap") /\ \A d : Last(s) \notin SyncFrame(d)
    BY <1>3 DEF AtTop, SyncFrame
  <1>5. stack'[p] = Front(s) /\ Same(stack, stack', p)
    BY <1>1, StackOf DEF Pop
  <1>6. toDispatch'[p] = q \o h /\ Same(toDispatch, toDispatch', p)
    <2>1. toDispatch \in [Proc -> Seq(Item)]
      BY TaskTypes
    <2> QED
      BY <1>1, <2>1 DEF Same
  <1>7. h \in Seq(HomeItem(p))
    BY <1>3 DEF GoodFrame
  <1>8. /\ Kept(Front(s), S) /\ Safe(Top(p), S)
        /\ \A d \in Home(p) : Matches(Front(s), d, pending[d])
    BY <1>2, <1>3, <1>4, KeptPop, MatchPop
  <1>9. /\ \A i \in DOMAIN h : h[i] \in S
        /\ \A i \in DOMAIN q : q[i] \in S
    BY <1>2, <1>4, <1>8, AllOffered DEF Safe
  <1> HIDE DEF s, S, q, h
  <1>10. \A i \in DOMAIN (q \o h) : (q \o h)[i] \in S
    <2>1. /\ q \o h \in Seq(HomeItem(p)) /\ Len(q) \in Nat /\ Len(h) \in Nat
          /\ DOMAIN q = 1..Len(q) /\ DOMAIN h = 1..Len(h)
          /\ Len(q \o h) = Len(q) + Len(h)
          /\ \A i \in 1..Len(q) + Len(h) : (q \o h)[i] = IF i <= Len(q) THEN q[i] ELSE h[i - Len(q)]
      BY <1>2, <1>7, ConcatProperties, LenProperties
    <2>2. DOMAIN (q \o h) = 1..Len(q) + Len(h)
      BY <2>1, LenProperties
    <2> SUFFICES ASSUME NEW i \in 1..Len(q) + Len(h) PROVE (q \o h)[i] \in S
      BY <2>2
    <2>3. CASE i <= Len(q)
      <3>1. i \in DOMAIN q /\ (q \o h)[i] = q[i]
        BY <2>1, <2>3
      <3> QED
        BY <1>9, <3>1
    <2>4. CASE ~(i <= Len(q))
      <3>1. i - Len(q) \in DOMAIN h /\ (q \o h)[i] = h[i - Len(q)]
        BY <2>1, <2>4
      <3> QED
        BY <1>9, <3>1
    <2> QED
      BY <2>3, <2>4
  <1>11. Offered(Front(s), S, q \o h)
    BY <1>10 DEF Offered
  <1> QED
    BY <1>1, <1>2, <1>5, <1>6, <1>8, <1>11, Unmoved, StackStep DEF S

-----------------------------------------------------------------------------
(* The run loop takes a function: the stack is empty, so every message is  *)
(* in its turn.                                                            *)
LEMMA TaskFacts ==
    ASSUME IInv, DInv, NEW p \in Proc, NEW kind, NextTask(p, kind),
           runq' = [runq EXCEPT ![p] = Tail(@)]
    PROVE  /\ stack[p] = <<>> /\ runq[p] # <<>> /\ Head(runq[p]).kind = kind
           /\ Head(runq[p]).conn \in Home(p) /\ Head(runq[p]) \in HomeTask(p)
           /\ runq'[p] = Tail(runq[p]) /\ Same(runq, runq', p)
           /\ \A i \in DOMAIN toDispatch[p] : toDispatch[p][i] \in Ready(p)
           /\ kind # "sync" => Tasked(scheduled[p], runq'[p])
           /\ Tasked(scheduled[p] \ {Head(runq[p]).conn}, runq'[p])
  <1>1. stack[p] = <<>> /\ runq[p] # <<>> /\ Head(runq[p]).kind = kind
    BY DEF NextTask
  <1>2. /\ WaitInv /\ runq[p] \in Seq(HomeTask(p)) /\ Tasked(scheduled[p], runq[p])
        /\ Offered(stack[p], Ready(p), toDispatch[p])
    BY DispatchFacts
  <1>3. /\ Same(runq, runq', p) /\ Head(runq[p]) \in HomeTask(p) /\ Head(runq[p]).conn \in Home(p)
    BY <1>1, <1>2, RunLoopStep
  <1>4. runq'[p] = Tail(runq[p])
    BY TaskTypes
  <1>5. ~AtTop(stack[p], "batch", "swap")
    BY <1>1 DEF AtTop
  <1>6. \A i \in DOMAIN toDispatch[p] : toDispatch[p][i] \in Ready(p)
    BY <1>2, <1>5, AllOffered
  <1>7. kind # "sync" => \A c : Head(runq[p]) # SyncTask(c)
    BY <1>1 DEF SyncTask
  <1>8. \A c \in scheduled[p] \ {Head(runq[p]).conn} : Head(runq[p]) # SyncTask(c)
    BY DEF SyncTask
  <1>9. kind # "sync" => Tasked(scheduled[p], Tail(runq[p]))
    BY <1>1, <1>2, <1>7, TaskedTail
  <1>10. Tasked(scheduled[p] \ {Head(runq[p]).conn}, Tail(runq[p]))
    BY <1>1, <1>2, <1>8, TaskedTail
  <1> QED
    BY <1>1, <1>3, <1>4, <1>6, <1>9, <1>10

(* A dispatchOneMessage has left the run loop with its message.            *)
Fetched(p) ==
    \A c \in Home(p) : incoming'[c] =
        IF Head(runq[p]) \in OneTasks(c) THEN Tail(incoming[c]) ELSE incoming[c]

LEMMA TaskFetched ==
    ASSUME IInv, DInv, NEW p \in Proc, runq[p] # <<>>, runq'[p] = Tail(runq[p]), Fetched(p)
    PROVE  /\ Tallied(p)'
           /\ \A x \in Ready(p) : Head(runq[p]) # SyncTask(x.conn) /\ x.conn \in scheduled'[p]
                                  => x \in Ready(p)'
  <1>1. /\ runq[p] \in Seq(HomeTask(p))
        /\ \A c \in Home(p) : /\ incoming[c] \in Seq(Msg)
                              /\ Len(incoming[c]) = Number(runq[p], OneTasks(c))
    BY DispatchFacts
  <1>2. \A c : /\ Number(Tail(runq[p]), OneTasks(c)) \in Nat
               /\ Number(runq[p], OneTasks(c)) = Number(Tail(runq[p]), OneTasks(c))
                      + IF Head(runq[p]) \in OneTasks(c) THEN 1 ELSE 0
    BY <1>1, NumberTail
  <1>3. ASSUME NEW c \in Home(p), Head(runq[p]) \in OneTasks(c) PROVE incoming[c] # <<>>
    <2>1. Number(Tail(runq[p]), OneTasks(c)) \in Nat
          /\ Len(incoming[c]) = Number(Tail(runq[p]), OneTasks(c)) + 1
      BY <1>1, <1>2, <1>3
    <2> QED
      BY <2>1, EmptySeq
  <1>4. ASSUME NEW c \in Home(p) PROVE Len(incoming'[c]) = Number(Tail(runq[p]), OneTasks(c))
    <2>1. CASE Head(runq[p]) \in OneTasks(c)
      <3>1. incoming'[c] = Tail(incoming[c]) /\ incoming[c] # <<>>
        BY <1>3, <2>1 DEF Fetched
      <3>2. Len(incoming'[c]) = Len(incoming[c]) - 1
        BY <1>1, <3>1, HeadTailProperties
      <3> QED
        BY <1>1, <1>2, <2>1, <3>2
    <2>2. CASE Head(runq[p]) \notin OneTasks(c)
      BY <1>1, <1>2, <2>2 DEF Fetched
    <2> QED
      BY <2>1, <2>2
  <1>5. ASSUME NEW x \in Ready(p), Head(runq[p]) # SyncTask(x.conn), x.conn \in scheduled'[p]
        PROVE  x \in Ready(p)'
    <2>1. x \in HomeItem(p) /\ x.conn \in Home(p) /\ InTurn(x, runq[p], incoming[x.conn])
      BY DEF Ready, HomeItem
    <2>2. InTurn(x, Tail(runq[p]), incoming'[x.conn])
      <3>1. CASE Head(runq[p]) \in OneTasks(x.conn)
        BY <1>1, <1>3, <1>5, <2>1, <3>1, TurnTail DEF Fetched
      <3>2. CASE Head(runq[p]) \notin OneTasks(x.conn)
        BY <1>1, <1>5, <2>1, <3>2, TurnTail DEF Fetched
      <3> QED
        BY <3>1, <3>2
    <2> QED
      BY <1>5, <2>1, <2>2 DEF Ready
  <1> QED
    BY <1>4, <1>5 DEF Tallied

(* A stack of one frame that is not a call.                                *)
LEMMA FirstFrame ==
    ASSUME NEW p, NEW f \in GoodFrame(p), f.kind # "sync", f.rest = <<>>, f.held = <<>>, NEW S,
           NEW P, \A c \in Home(p) : Matches(<<>>, c, P[c])
    PROVE  Kept(Append(<<>>, f), S) /\ \A c \in Home(p) : Matches(Append(<<>>, f), c, P[c])
  <1>1. GoodStack(p, <<>>) /\ Kept(<<>>, S)
    BY GoodEmpty, KeptEmpty
  <1>2. Safe(f, S) /\ \A c : f \notin SyncFrame(c)
    BY DEF Safe, SyncFrame
  <1> QED
    BY <1>1, <1>2, KeptPush, MatchPush

LEMMA DispatchOneMessageKeeps ==
    ASSUME IInv, DInv, NEW p \in Proc, DispatchOneMessage(p) PROVE DInv'
  <1> DEFINE c == Head(runq[p]).conn
             m == Head(incoming[c])
             f == NewFrame("handler", "run", c, m, invalid[c])
  <1>1. /\ NextTask(p, "one") /\ runq' = [runq EXCEPT ![p] = Tail(@)]
        /\ UNCHANGED <<scheduled, toDispatch, pending>>
    BY DEF DispatchOneMessage, replyVars
  <1>2. /\ stack[p] = <<>> /\ runq[p] # <<>> /\ c \in Home(p) /\ c \in Conn /\ ProcOf[c] = p
        /\ Head(runq[p]).kind = "one" /\ Head(runq[p]) \in HomeTask(p)
        /\ Same(runq, runq', p) /\ Tasked(scheduled[p], runq'[p])
        /\ runq'[p] = Tail(runq[p])
        /\ \A i \in DOMAIN toDispatch[p] : toDispatch[p][i] \in Ready(p)
    <2>1. "one" # "sync"
      OBVIOUS
    <2> QED
      BY <1>1, <2>1, TaskFacts DEF Home
  <1>3. /\ ConnTypes
        /\ \A d \in Home(p) : Matches(<<>>, d, pending[d])
    BY <1>2, DispatchFacts
  <1>4. Head(runq[p]) = [kind |-> "one", conn |-> c]
    BY <1>2 DEF HomeTask
  <1>5. /\ Head(runq[p]) \in OneTasks(c) /\ \A d : Head(runq[p]) # SyncTask(d)
        /\ \A d : d # c => Head(runq[p]) \notin OneTasks(d)
    BY <1>4 DEF OneTasks, SyncTask
  <1>6. incoming[c] # <<>>
    <2>1. runq[p] \in Seq(HomeTask(p)) /\ Len(incoming[c]) = Number(runq[p], OneTasks(c))
      BY <1>2, DispatchFacts
    <2>2. Number(Tail(runq[p]), OneTasks(c)) \in Nat
          /\ Len(incoming[c]) = Number(Tail(runq[p]), OneTasks(c)) + 1
      BY <1>2, <1>5, <2>1, NumberTail
    <2> QED
      BY <2>2, EmptySeq
  <1>7. /\ incoming' = [incoming EXCEPT ![c] = Tail(@)]
        /\ DispatchMessage(c, m, <<>>)
    BY <1>6 DEF DispatchOneMessage
  <1>8. /\ incoming'[c] = Tail(incoming[c])
        /\ \A d \in Conn : d # c => incoming'[d] = incoming[d]
    BY <1>2, <1>3, <1>7 DEF ConnTypes
  <1>9. Fetched(p) /\ SameConn(incoming, incoming', p)
    BY <1>2, <1>5, <1>8 DEF Fetched, SameConn, Home
  <1>10. /\ Tallied(p)'
         /\ \A x \in Ready(p) : x.conn \in scheduled'[p] => x \in Ready(p)'
    BY <1>2, <1>5, <1>9, TaskFetched
  <1>11. \A i \in DOMAIN toDispatch[p] : toDispatch[p][i] \in Ready(p)'
    BY <1>1, <1>2, <1>10 DEF Ready
  <1>12. /\ Same(stack, stack', p) /\ Kept(stack'[p], Ready(p)')
         /\ \A d \in Home(p) : Matches(stack'[p], d, pending[d])
    <2>1. CASE stack' = [stack EXCEPT ![p] = <<>>]
      <3>1. stack'[p] = <<>> /\ Same(stack, stack', p)
        BY <2>1, StackOf
      <3> QED
        BY <1>3, <3>1, KeptEmpty
    <2>2. CASE stack' = [stack EXCEPT ![p] = Append(<<>>, f)]
      <3>1. stack'[p] = Append(<<>>, f) /\ Same(stack, stack', p)
        BY <2>2, StackOf
      <3>2. m \in Msg /\ invalid[c] \in BOOLEAN
        BY <1>2, <1>3, <1>6, HeadTailProperties DEF ConnTypes
      <3>3. f \in GoodFrame(p) /\ f.kind # "sync" /\ f.rest = <<>> /\ f.held = <<>>
        BY <1>2, <3>2, EmptySeq DEF NewFrame, GoodFrame, Frame
      <3> HIDE DEF f
      <3> QED
        BY <1>3, <3>1, <3>3, FirstFrame
    <2> QED
      BY <1>2, <1>7, <2>1, <2>2 DEF DispatchMessage
  <1>13. Offered(stack'[p], Ready(p)', toDispatch[p])
    BY <1>11 DEF Offered
  <1>14. Attended(p)'
    BY <1>1, <1>2, <1>12, <1>13 DEF Attended
  <1>15. Matched(p)'
    BY <1>1, <1>12 DEF Matched
  <1> QED
    BY <1>1, <1>2, <1>9, <1>10, <1>12, <1>14, <1>15, Unmoved, OneProcess

LEMMA DispatchMessagesTaskKeeps ==
    ASSUME IInv, DInv, NEW p \in Proc, DispatchMessagesTask(p) PROVE DInv'
  <1> DEFINE c == Head(runq[p]).conn
             f == NewFrame("batch", "swap", c, NoMsg, FALSE)
             S == scheduled[p] \ {c}
  <1>1. /\ NextTask(p, "sync") /\ runq' = [runq EXCEPT ![p] = Tail(@)]
        /\ scheduled' = [scheduled EXCEPT ![p] = S] /\ Push(p, f)
        /\ UNCHANGED <<toDispatch, pending, incoming>>
    BY DEF DispatchMessagesTask, ResetScheduled, connVars, replyVars
  <1>2. /\ stack[p] = <<>> /\ runq[p] # <<>> /\ c \in Home(p) /\ c \in Conn
        /\ Head(runq[p]).kind = "sync" /\ runq'[p] = Tail(runq[p])
        /\ Same(runq, runq', p) /\ Tasked(S, runq'[p])
        /\ \A i \in DOMAIN toDispatch[p] : toDispatch[p][i] \in Ready(p)
    BY <1>1, TaskFacts DEF Home
  <1>3. \A d \in Home(p) : Matches(<<>>, d, pending[d])
    BY <1>2, DispatchFacts
  <1>4. stack'[p] = Append(<<>>, f) /\ Same(stack, stack', p)
    BY <1>1, <1>2, StackOf DEF Push
  <1>5. scheduled'[p] = S /\ Same(scheduled, scheduled', p)
    <2>1. scheduled \in [Proc -> SUBSET Conn]
      BY TaskTypes
    <2> QED
      BY <1>1, <2>1 DEF Same
  <1>6. NoMsg \in Msg
    BY DEF NoMsg, Msg
  <1>7. /\ f \in GoodFrame(p) /\ f.kind = "batch" /\ f.pc = "swap" /\ f.conn = c
        /\ f.rest = <<>> /\ f.held = <<>>
    BY <1>2, <1>6, EmptySeq DEF NewFrame, GoodFrame, Frame
  <1>8. Fetched(p)
    <2>1. \A d : Head(runq[p]) \notin OneTasks(d)
      BY <1>2 DEF OneTasks
    <2> QED
      BY <1>1, <2>1 DEF Fetched
  <1>9. /\ Tallied(p)'
        /\ \A x \in Ready(p) : x.conn # c => x \in Ready(p)'
    <2>1. \A d : d # c => Head(runq[p]) # SyncTask(d)
      BY DEF SyncTask
    <2>2. \A x \in Ready(p) : x.conn # c => x.conn \in scheduled'[p]
      BY <1>5 DEF Ready
    <2> QED
      BY <1>2, <1>8, <2>1, <2>2, TaskFetched
  <1> HIDE DEF c, f, S
  <1>10. /\ Kept(Append(<<>>, f), Ready(p)')
         /\ \A d \in Home(p) : Matches(Append(<<>>, f), d, pending[d])
    BY <1>3, <1>7, FirstFrame
  <1>11. Taken(Append(<<>>, f), c)
    <2>1. Append(<<>>, f) # <<>> /\ Last(Append(<<>>, f)) = f
      BY <1>7, GoodEmpty, GoodPush
    <2> QED
      BY <1>7, <2>1 DEF Taken, AtTop
  <1>12. Offered(Append(<<>>, f), Ready(p)', toDispatch[p])
    BY <1>2, <1>9, <1>11 DEF Offered
  <1>13. Attended(p)'
    BY <1>1, <1>2, <1>4, <1>5, <1>10, <1>12 DEF Attended
  <1>14. Matched(p)'
    BY <1>1, <1>4, <1>10 DEF Matched
  <1> QED
    BY <1>1, <1>2, <1>4, <1>5, <1>9, <1>13, <1>14, Unmoved, OneProcess

LEMMA DispatchConnectionDidCloseKeeps ==
    ASSUME IInv, DInv, NEW p \in Proc, DispatchConnectionDidClose(p) PROVE DInv'
  <1>1. /\ NextTask(p, "close") /\ runq' = [runq EXCEPT ![p] = Tail(@)]
        /\ UNCHANGED <<stack, scheduled, toDispatch, pending, incoming>>
    BY DEF DispatchConnectionDidClose, mainVars, replyVars
  <1>2. /\ stack[p] = <<>> /\ runq[p] # <<>> /\ Head(runq[p]).kind = "close"
        /\ runq'[p] = Tail(runq[p]) /\ Same(runq, runq', p) /\ Tasked(scheduled[p], runq'[p])
        /\ \A i \in DOMAIN toDispatch[p] : toDispatch[p][i] \in Ready(p)
    <2>1. "close" # "sync"
      OBVIOUS
    <2> QED
      BY <1>1, <2>1, TaskFacts, Zenon
  <1>3. \A d : Head(runq[p]) \notin OneTasks(d) /\ Head(runq[p]) # SyncTask(d)
    BY <1>2 DEF OneTasks, SyncTask
  <1>4. Fetched(p)
    BY <1>1, <1>3 DEF Fetched
  <1>5. Tallied(p)' /\ \A x \in Ready(p) : x \in Ready(p)'
    <2>1. \A x \in Ready(p) : x.conn \in scheduled'[p]
      BY <1>1 DEF Ready
    <2> QED
      BY <1>2, <1>3, <1>4, <2>1, TaskFetched
  <1>6. Matched(p) /\ Kept(stack'[p], Ready(p)')
    BY <1>1, <1>2, KeptEmpty DEF DInv
  <1>7. Offered(stack'[p], Ready(p)', toDispatch'[p])
    BY <1>1, <1>2, <1>5 DEF Offered
  <1>8. Attended(p)'
    BY <1>1, <1>2, <1>6, <1>7 DEF Attended
  <1>9. Matched(p)'
    BY <1>1, <1>6 DEF Matched
  <1> QED
    BY <1>1, <1>2, <1>5, <1>8, <1>9, Unmoved, OneProcess

-----------------------------------------------------------------------------
(* The messages of a connection, from the sender's queue to the receiver's *)
(* incoming messages, are in the order of their numbers.                   *)
LEMMA MsgFacts ==
    ASSUME NEW s \in Seq(Msg)
    PROVE  /\ Len(s) \in Nat /\ DOMAIN s = 1..Len(s)
           /\ \A i \in DOMAIN s : s[i] \in Msg /\ s[i].n \in Nat
  <1>1. Len(s) \in Nat /\ DOMAIN s = 1..Len(s) /\ \A i \in 1..Len(s) : s[i] \in Msg
    BY LenProperties, ElementOfSeq
  <1> QED
    BY <1>1 DEF Msg

LEMMA AppendElements ==
    ASSUME NEW s \in Seq(Msg), NEW m \in Msg
    PROVE  /\ Append(s, m) \in Seq(Msg) /\ DOMAIN Append(s, m) = 1..Len(s) + 1
           /\ Len(s) \in Nat /\ DOMAIN s = 1..Len(s)
           /\ \A i \in 1..Len(s) : Append(s, m)[i] = s[i]
           /\ Append(s, m)[Len(s) + 1] = m
  BY AppendProperties, LenProperties

LEMMA TailElements ==
    ASSUME NEW s \in Seq(Msg), s # <<>>
    PROVE  /\ Tail(s) \in Seq(Msg) /\ DOMAIN Tail(s) = 1..Len(s) - 1
           /\ Len(s) \in Nat \ {0} /\ DOMAIN s = 1..Len(s) /\ Head(s) = s[1]
           /\ \A i \in 1..Len(s) - 1 : Tail(s)[i] = s[i + 1]
  <1>1. /\ Len(s) \in Nat \ {0} /\ DOMAIN s = 1..Len(s) /\ Head(s) = s[1]
        /\ Len(Tail(s)) = Len(s) - 1 /\ Tail(s) \in Seq(Msg)
        /\ \A k \in 1..Len(s) - 1 : Tail(s)[k] = s[k + 1]
    BY HeadTailProperties, LenProperties, EmptySeq
  <1>2. DOMAIN Tail(s) = 1..Len(s) - 1
    BY <1>1, LenProperties
  <1> QED
    BY <1>1, <1>2

(* A message is sent: numbered, or a reply; or it is dropped.              *)
LEMMA LineSend ==
    ASSUME NEW in \in Seq(Msg), NEW w \in Seq(Msg), NEW out \in Seq(Msg), NEW n \in Nat,
           NEW m \in Msg, Line(in, w, out, n)
    PROVE  /\ m.n = n + 1 => Line(in, w, Append(out, m), n + 1)
           /\ ~Numbered(m) => Line(in, w, Append(out, m), n)
           /\ Line(in, w, out, n + 1)
  <1> DEFINE q == Append(out, m)
  <1>1. /\ DOMAIN q = 1..Len(out) + 1 /\ Len(out) \in Nat /\ DOMAIN out = 1..Len(out)
        /\ \A i \in 1..Len(out) : q[i] = out[i]
        /\ q[Len(out) + 1] = m
    BY AppendElements
  <1>2. /\ \A i \in DOMAIN in : in[i].n \in Nat
        /\ \A i \in DOMAIN w : w[i].n \in Nat
        /\ \A i \in DOMAIN out : out[i].n \in Nat
    BY MsgFacts
  <1>3. /\ \A i \in DOMAIN in : Numbered(in[i])
        /\ Sorted(w) /\ Sorted(out) /\ Before(in, w) /\ Before(in, out) /\ Before(w, out)
        /\ UpTo(in, n) /\ UpTo(w, n) /\ UpTo(out, n)
    BY DEF Line
  <1> HIDE DEF q
  <1>4. UpTo(in, n + 1) /\ UpTo(w, n + 1) /\ UpTo(out, n + 1)
    BY <1>2, <1>3 DEF UpTo
  <1>5. \A i \in DOMAIN q : \/ i \in DOMAIN out /\ q[i] = out[i]
                            \/ i = Len(out) + 1 /\ q[i] = m
    <2>1. \A i \in DOMAIN q : i \in 1..Len(out) \/ i = Len(out) + 1
      BY <1>1
    <2> QED
      BY <1>1, <2>1
  <1>6. \A i, j \in DOMAIN q : i < j => i \in DOMAIN out /\ q[i] = out[i]
    BY <1>1
  <1>7. ASSUME m.n = n + 1 PROVE Line(in, w, q, n + 1)
    <2>1. UpTo(q, n + 1)
      BY <1>4, <1>5, <1>7 DEF UpTo
    <2>2. Before(in, q) /\ Before(w, q)
      BY <1>2, <1>3, <1>5, <1>7 DEF Before, UpTo
    <2>3. Sorted(q)
      BY <1>2, <1>3, <1>5, <1>6, <1>7 DEF Sorted, UpTo
    <2> QED
      BY <1>3, <1>4, <2>1, <2>2, <2>3 DEF Line
  <1>8. ASSUME ~Numbered(m) PROVE Line(in, w, q, n)
    <2>1. UpTo(q, n)
      BY <1>3, <1>5, <1>8 DEF UpTo
    <2>2. Before(in, q) /\ Before(w, q)
      BY <1>3, <1>5, <1>8 DEF Before
    <2>3. Sorted(q)
      BY <1>3, <1>5, <1>6, <1>8 DEF Sorted
    <2> QED
      BY <1>3, <2>1, <2>2, <2>3 DEF Line
  <1>9. Line(in, w, out, n + 1)
    BY <1>3, <1>4 DEF Line
  <1> QED
    BY <1>7, <1>8, <1>9 DEF q

(* Messages are written to the wire from the front of the queue; some that *)
(* follow are lost.                                                        *)
LEMMA LineWrite ==
    ASSUME NEW in \in Seq(Msg), NEW w \in Seq(Msg), NEW out \in Seq(Msg), NEW n \in Nat,
           Line(in, w, out, n), NEW a \in Seq(Msg), NEW b \in Seq(Msg), NEW k \in Nat,
           Len(a) <= k, \A i \in DOMAIN a : i \in DOMAIN out /\ a[i] = out[i],
           \A i \in DOMAIN b : i + k \in DOMAIN out /\ b[i] = out[i + k]
    PROVE  Line(in, w \o a, b, n)
  <1> DEFINE q == w \o a
  <1>1. /\ Len(w) \in Nat /\ DOMAIN w = 1..Len(w) /\ Len(a) \in Nat /\ DOMAIN a = 1..Len(a)
        /\ Len(b) \in Nat /\ DOMAIN b = 1..Len(b)
    BY MsgFacts
  <1>2. /\ DOMAIN q = 1..Len(w) + Len(a)
        /\ \A i \in 1..Len(w) + Len(a) : q[i] = IF i <= Len(w) THEN w[i] ELSE a[i - Len(w)]
    BY ConcatProperties, LenProperties
  <1>3. /\ \A i \in DOMAIN in : Numbered(in[i])
        /\ Sorted(w) /\ Sorted(out) /\ Before(in, w) /\ Before(in, out) /\ Before(w, out)
        /\ UpTo(in, n) /\ UpTo(w, n) /\ UpTo(out, n)
    BY DEF Line
  <1> HIDE DEF q
  <1>4. ASSUME NEW i \in DOMAIN q
        PROVE  \/ i \in DOMAIN w /\ q[i] = w[i]
               \/ i - Len(w) \in DOMAIN a /\ i - Len(w) \in DOMAIN out /\ q[i] = out[i - Len(w)]
    <2>1. CASE i <= Len(w)
      BY <1>1, <1>2, <2>1
    <2>2. CASE ~(i <= Len(w))
      <3>1. i - Len(w) \in DOMAIN a /\ q[i] = a[i - Len(w)]
        BY <1>1, <1>2, <2>2
      <3> QED
        BY <3>1
    <2> QED
      BY <2>1, <2>2
  <1>5. UpTo(q, n) /\ UpTo(b, n)
    BY <1>3, <1>4 DEF UpTo
  <1>6. Before(in, q) /\ Before(in, b)
    BY <1>3, <1>4 DEF Before
  <1>7. Sorted(b)
    <2>1. \A i, j \in DOMAIN b : i < j => i + k < j + k
      BY <1>1
    <2> QED
      BY <1>3, <2>1 DEF Sorted
  <1>8. ASSUME NEW i \in DOMAIN q, NEW j \in DOMAIN b, Numbered(q[i]), Numbered(b[j])
        PROVE  q[i].n < b[j].n
    <2>1. CASE i \in DOMAIN w /\ q[i] = w[i]
      BY <1>3, <1>8, <2>1 DEF Before
    <2>2. CASE i - Len(w) \in DOMAIN a /\ i - Len(w) \in DOMAIN out /\ q[i] = out[i - Len(w)]
      <3>1. i - Len(w) < j + k
        BY <1>1, <2>2
      <3> QED
        BY <1>3, <1>8, <2>2, <3>1 DEF Sorted
    <2> QED
      BY <1>4, <2>1, <2>2
  <1>9. ASSUME NEW i \in DOMAIN q, NEW j \in DOMAIN q, i < j, Numbered(q[i]), Numbered(q[j])
        PROVE  q[i].n < q[j].n
    <2>1. CASE j \in DOMAIN w
      <3>1. i \in DOMAIN w
        BY <1>1, <1>2, <1>9, <2>1
      <3>2. q[i] = w[i] /\ q[j] = w[j]
        BY <1>1, <1>2, <2>1, <3>1
      <3> QED
        BY <1>3, <1>9, <2>1, <3>1, <3>2 DEF Sorted
    <2>2. CASE j \notin DOMAIN w
      <3>1. j - Len(w) \in DOMAIN out /\ q[j] = out[j - Len(w)]
        BY <1>4, <2>2
      <3>2. CASE i \in DOMAIN w /\ q[i] = w[i]
        BY <1>3, <1>9, <3>1, <3>2 DEF Before
      <3>3. CASE i - Len(w) \in DOMAIN a /\ i - Len(w) \in DOMAIN out /\ q[i] = out[i - Len(w)]
        <4>1. i - Len(w) < j - Len(w)
          BY <1>1, <1>2, <1>9
        <4> QED
          BY <1>3, <1>9, <3>1, <3>3, <4>1 DEF Sorted
      <3> QED
        BY <1>4, <3>2, <3>3
    <2> QED
      BY <2>1, <2>2
  <1>10. Before(q, b) /\ Sorted(q)
    BY <1>8, <1>9 DEF Before, Sorted
  <1> QED
    BY <1>3, <1>5, <1>6, <1>7, <1>10 DEF Line, q

(* The socket is closed.                                                   *)
LEMMA LineClose ==
    ASSUME NEW in, NEW w, NEW out, NEW n, Line(in, w, out, n)
    PROVE  Line(in, <<>>, out, n)
  <1>1. Sorted(<<>>) /\ Before(in, <<>>) /\ Before(<<>>, out) /\ UpTo(<<>>, n)
    BY DEF Sorted, Before, UpTo
  <1> QED
    BY <1>1 DEF Line

(* The head of the wire is read: it is numbered after all incoming ones.   *)
LEMMA LineRead ==
    ASSUME NEW in \in Seq(Msg), NEW w \in Seq(Msg), NEW out \in Seq(Msg), NEW n \in Nat,
           Line(in, w, out, n), w # <<>>
    PROVE  /\ Line(in, Tail(w), out, n)
           /\ Head(w).kind # "reply" => Line(Append(in, Head(w)), Tail(w), out, n)
           /\ Numbered(Head(w)) => \A i \in DOMAIN in : Head(w).n > in[i].n
  <1> DEFINE t == Tail(w)
             m == Head(w)
             q == Append(in, m)
  <1>1. /\ t \in Seq(Msg) /\ DOMAIN t = 1..Len(w) - 1 /\ Len(w) \in Nat \ {0}
        /\ DOMAIN w = 1..Len(w) /\ m = w[1]
        /\ \A i \in 1..Len(w) - 1 : t[i] = w[i + 1]
    BY TailElements
  <1>2. 1 \in DOMAIN w /\ \A i \in DOMAIN t : i + 1 \in DOMAIN w /\ t[i] = w[i + 1] /\ 1 < i + 1
    BY <1>1
  <1>3. m \in Msg /\ \A i \in DOMAIN w : w[i].n \in Nat
    BY <1>1, <1>2, MsgFacts
  <1>4. /\ DOMAIN q = 1..Len(in) + 1 /\ Len(in) \in Nat /\ DOMAIN in = 1..Len(in)
        /\ \A i \in 1..Len(in) : q[i] = in[i]
        /\ q[Len(in) + 1] = m
    BY <1>3, AppendElements
  <1>5. /\ \A i \in DOMAIN in : Numbered(in[i])
        /\ Sorted(w) /\ Sorted(out) /\ Before(in, w) /\ Before(in, out) /\ Before(w, out)
        /\ UpTo(in, n) /\ UpTo(w, n) /\ UpTo(out, n)
    BY DEF Line
  <1>6. \A i \in DOMAIN in : in[i].n \in Nat
    BY MsgFacts
  <1> HIDE DEF t, m, q
  <1>7. \A i \in DOMAIN q : (i \in DOMAIN in /\ q[i] = in[i]) \/ q[i] = m
    <2>1. \A i \in DOMAIN q : i \in 1..Len(in) \/ i = Len(in) + 1
      BY <1>4
    <2> QED
      BY <1>4, <2>1
  <1>8. Sorted(t)
    <2>1. \A i, j \in DOMAIN t : i < j => i + 1 < j + 1
      BY <1>1
    <2> QED
      BY <1>2, <1>5, <2>1 DEF Sorted
  <1>9. Before(in, t) /\ Before(t, out) /\ UpTo(t, n)
    BY <1>2, <1>5 DEF Before, UpTo
  <1>10. Line(in, t, out, n)
    BY <1>5, <1>8, <1>9 DEF Line
  <1>11. ASSUME m.kind # "reply" PROVE Line(q, t, out, n)
    <2>1. Numbered(m)
      BY <1>11 DEF Numbered
    <2>2. \A i \in DOMAIN q : Numbered(q[i])
      BY <1>5, <1>7, <2>1
    <2>3. \A i \in DOMAIN t : Numbered(t[i]) => m.n < t[i].n
      BY <1>1, <1>2, <1>5, <2>1 DEF Sorted
    <2>4. Before(q, t)
      BY <1>7, <1>9, <2>3 DEF Before
    <2>5. Before(q, out) /\ UpTo(q, n)
      BY <1>1, <1>2, <1>5, <1>7, <2>1 DEF Before, UpTo
    <2> QED
      BY <1>5, <1>8, <1>9, <2>2, <2>4, <2>5 DEF Line
  <1>12. ASSUME Numbered(m), NEW i \in DOMAIN in PROVE m.n > in[i].n
    <2>1. in[i].n < m.n
      BY <1>1, <1>2, <1>5, <1>12 DEF Before
    <2> QED
      BY <1>1, <1>2, <1>3, <1>6, <2>1
  <1> QED
    BY <1>10, <1>11, <1>12 DEF t, m, q

(* The first incoming message is dispatched.                               *)
LEMMA LineFetch ==
    ASSUME NEW in \in Seq(Msg), NEW w, NEW out, NEW n, Line(in, w, out, n), in # <<>>
    PROVE  Line(Tail(in), w, out, n)
  <1> DEFINE t == Tail(in)
  <1>1. /\ DOMAIN t = 1..Len(in) - 1 /\ Len(in) \in Nat \ {0} /\ DOMAIN in = 1..Len(in)
        /\ \A i \in 1..Len(in) - 1 : t[i] = in[i + 1]
    BY TailElements
  <1> HIDE DEF t
  <1>2. \A i \in DOMAIN t : i + 1 \in DOMAIN in /\ t[i] = in[i + 1]
    BY <1>1
  <1>3. Before(t, w) /\ Before(t, out) /\ UpTo(t, n) /\ \A i \in DOMAIN t : Numbered(t[i])
    BY <1>2 DEF Line, Before, UpTo
  <1> QED
    BY <1>3 DEF Line, t

(* The line of c, and the steps of the two ends of a connection.           *)
LEMMA LineOf ==
    ASSUME IInv, LInv, NEW c \in Conn
    PROVE  /\ Line(incoming[c], wire[c], outgoing[Peer[c]], sent[Peer[c]])
           /\ Peer[c] \in Conn /\ Peer[Peer[c]] = c
           /\ incoming[c] \in Seq(Msg) /\ wire[c] \in Seq(Msg) /\ outgoing[c] \in Seq(Msg)
           /\ outgoing[Peer[c]] \in Seq(Msg) /\ sent[c] \in Nat /\ sent[Peer[c]] \in Nat
           /\ incoming \in [Conn -> Seq(Msg)] /\ wire \in [Conn -> Seq(Msg)]
           /\ outgoing \in [Conn -> Seq(Msg)] /\ sent \in [Conn -> Nat]
  <1>1. Peer[c] \in Conn /\ Peer[Peer[c]] = c
    BY ConnAssumption
  <1>2. /\ incoming \in [Conn -> Seq(Msg)] /\ wire \in [Conn -> Seq(Msg)]
        /\ outgoing \in [Conn -> Seq(Msg)] /\ sent \in [Conn -> Nat]
    BY DEF IInv, ConnTypes
  <1> QED
    BY <1>1, <1>2 DEF LInv

LEMMA LineReceives ==
    ASSUME IInv, LInv, NEW c \in Conn, UNCHANGED <<outgoing, sent>>,
           \A d \in Conn : d # c => incoming'[d] = incoming[d] /\ wire'[d] = wire[d],
           Line(incoming'[c], wire'[c], outgoing[Peer[c]], sent[Peer[c]])
    PROVE  LInv'
  <1> SUFFICES ASSUME NEW d \in Conn
               PROVE  Line(incoming'[d], wire'[d], outgoing[Peer[d]], sent[Peer[d]])
    BY DEF LInv
  <1>1. Line(incoming[d], wire[d], outgoing[Peer[d]], sent[Peer[d]])
    BY LineOf
  <1>2. CASE d = c
    BY <1>2
  <1>3. CASE d # c
    BY <1>1, <1>3
  <1> QED
    BY <1>2, <1>3

LEMMA LineSends ==
    ASSUME IInv, LInv, NEW c \in Conn, UNCHANGED incoming,
           \A d \in Conn : d # c => outgoing'[d] = outgoing[d] /\ sent'[d] = sent[d],
           \A d \in Conn : d # Peer[c] => wire'[d] = wire[d],
           Line(incoming[Peer[c]], wire'[Peer[c]], outgoing'[c], sent'[c])
    PROVE  LInv'
  <1> SUFFICES ASSUME NEW d \in Conn
               PROVE  Line(incoming[d], wire'[d], outgoing'[Peer[d]], sent'[Peer[d]])
    BY DEF LInv
  <1>1. /\ Line(incoming[d], wire[d], outgoing[Peer[d]], sent[Peer[d]])
        /\ Peer[d] \in Conn /\ Peer[Peer[d]] = d /\ Peer[Peer[c]] = c
    BY LineOf
  <1>2. CASE d = Peer[c]
    BY <1>1, <1>2
  <1>3. CASE d # Peer[c]
    <2>1. Peer[d] # c
      BY <1>1, <1>3
    <2> QED
      BY <1>1, <1>3, <2>1
  <1> QED
    BY <1>2, <1>3

LEMMA SameLine ==
    ASSUME LInv, UNCHANGED <<incoming, wire, outgoing, sent>> PROVE LInv'
  BY DEF LInv

(* sendMessage of a numbered message, and of a reply.                      *)
LEMMA LineSendMessage ==
    ASSUME IInv, LInv, NEW c \in Conn, NEW m \in Msg, SendMessage(c, m),
           UNCHANGED <<incoming, wire>>,
           \/ m.n = sent[c] + 1 /\ sent' = [sent EXCEPT ![c] = @ + 1]
           \/ ~Numbered(m) /\ UNCHANGED sent
    PROVE  LInv'
  <1> DEFINE d == Peer[c]
             out == outgoing[c]
             n == sent[c]
  <1>1. /\ d \in Conn /\ Line(incoming[d], wire[d], out, n)
        /\ incoming[d] \in Seq(Msg) /\ wire[d] \in Seq(Msg) /\ out \in Seq(Msg) /\ n \in Nat
        /\ outgoing \in [Conn -> Seq(Msg)] /\ sent \in [Conn -> Nat]
    BY LineOf
  <1>2. /\ m.n = n + 1 => Line(incoming[d], wire[d], Append(out, m), n + 1)
        /\ ~Numbered(m) => Line(incoming[d], wire[d], Append(out, m), n)
        /\ Line(incoming[d], wire[d], out, n + 1)
    BY <1>1, LineSend
  <1>3. /\ outgoing'[c] = IF client[c] THEN Append(out, m) ELSE out
        /\ \A e \in Conn : e # c => outgoing'[e] = outgoing[e]
    BY <1>1 DEF SendMessage, outVars
  <1>4. \A e \in Conn : e # c => sent'[e] = sent[e]
    BY <1>1
  <1>5. sent'[c] = n + 1 \/ sent'[c] = n
    BY <1>1
  <1>6. Line(incoming[d], wire[d], outgoing'[c], sent'[c])
    <2>1. CASE m.n = n + 1 /\ sent' = [sent EXCEPT ![c] = @ + 1]
      <3>1. sent'[c] = n + 1
        BY <1>1, <2>1
      <3> HIDE DEF n, out, d
      <3> QED
        BY <1>2, <1>3, <2>1, <3>1
    <2>2. CASE ~Numbered(m) /\ UNCHANGED sent
      <3> HIDE DEF out, d
      <3> QED
        BY <1>1, <1>2, <1>3, <2>2
    <2> QED
      BY <2>1, <2>2
  <1> QED
    BY <1>3, <1>4, <1>6, LineSends

LEMMA SendLine ==
    ASSUME IInv, LInv, NEW c \in Conn, Send(c) PROVE LInv'
  <1>1. PICK op \in {"async", "urgent"} :
            SendMessage(c, [kind |-> "async", id |-> 0,
                            marked |-> ShouldMark(c, op = "urgent"), n |-> sent[c] + 1])
    BY DEF Send
  <1> DEFINE m == [kind |-> "async", id |-> 0, marked |-> ShouldMark(c, op = "urgent"),
                   n |-> sent[c] + 1]
  <1>2. UNCHANGED <<incoming, wire>> /\ sent' = [sent EXCEPT ![c] = @ + 1]
    BY DEF Send, socketVars
  <1>3. m \in Msg
    <2>1. ShouldMark(c, op = "urgent") \in BOOLEAN
      BY ShouldMarkType
    <2>2. sent[c] + 1 \in Nat
      BY LineOf
    <2> QED
      BY <2>1, <2>2 DEF Msg
  <1>4. m.n = sent[c] + 1
    OBVIOUS
  <1> HIDE DEF m
  <1> QED
    BY <1>1, <1>2, <1>3, <1>4, LineSendMessage DEF m

LEMMA SendSyncLine ==
    ASSUME IInv, LInv, NEW c \in Conn, SendSync(c) PROVE LInv'
  <1> DEFINE m == [kind |-> "sync", id |-> requestID[c] + 1, marked |-> ShouldMark(c, TRUE),
                   n |-> sent[c] + 1]
  <1>1. UNCHANGED <<incoming, wire>>
    BY DEF SendSync
  <1>2. CASE client[c] /\ shouldWait[c]
    <2>1. SendMessage(c, m) /\ sent' = [sent EXCEPT ![c] = @ + 1]
      BY <1>2 DEF SendSync
    <2>2. m \in Msg
      <3>1. ShouldMark(c, TRUE) \in BOOLEAN
        BY ShouldMarkType
      <3>2. sent[c] + 1 \in Nat /\ requestID[c] + 1 \in Nat
        BY LineOf DEF IInv, ConnTypes
      <3> QED
        BY <3>1, <3>2 DEF Msg
    <2>3. m.n = sent[c] + 1
      OBVIOUS
    <2> HIDE DEF m
    <2> QED
      BY <1>1, <2>1, <2>2, <2>3, LineSendMessage
  <1>3. CASE ~(client[c] /\ shouldWait[c])
    <2>1. UNCHANGED <<outgoing, sent>>
      BY <1>3 DEF SendSync, outVars
    <2> QED
      BY <1>1, <2>1, SameLine
  <1> QED
    BY <1>2, <1>3

LEMMA SecondarySendLine ==
    ASSUME IInv, LInv, NEW c \in Conn, SecondarySend(c) PROVE LInv'
  <1> DEFINE m == [kind |-> "sync", id |-> secondary[c].id, marked |-> ShouldMark(c, FALSE),
                   n |-> sent[c] + 1]
  <1>1. /\ SendMessage(c, m) /\ UNCHANGED <<incoming, wire>>
        /\ sent' = [sent EXCEPT ![c] = @ + 1]
    BY DEF SecondarySend, socketVars
  <1>2. m \in Msg
    <2>1. ShouldMark(c, FALSE) \in BOOLEAN
      BY ShouldMarkType
    <2>2. sent[c] + 1 \in Nat /\ secondary[c].id \in Nat
      BY LineOf DEF IInv, ConnTypes, SecondaryCall
    <2> QED
      BY <2>1, <2>2 DEF Msg
  <1>3. m.n = sent[c] + 1
    OBVIOUS
  <1> HIDE DEF m
  <1> QED
    BY <1>1, <1>2, <1>3, LineSendMessage

LEMMA ReplyFacts == ASSUME NEW i \in Nat PROVE Reply(i) \in Msg /\ ~Numbered(Reply(i))
  BY DEF Reply, Msg, Numbered

LEMMA DelayedReplyLine ==
    ASSUME IInv, LInv, NEW c \in Conn, SendDelayedReply(c) PROVE LInv'
  <1>1. PICK i \in delayed[c] : SendMessage(c, Reply(i))
    BY DEF SendDelayedReply
  <1>2. UNCHANGED <<incoming, wire, sent>>
    BY DEF SendDelayedReply, socketVars, countVars
  <1>3. i \in Nat
    BY <1>1 DEF IInv, ConnTypes
  <1>4. Reply(i) \in Msg /\ ~Numbered(Reply(i))
    BY <1>3, ReplyFacts
  <1> QED
    BY <1>1, <1>2, <1>4, LineSendMessage

LEMMA EndDispatchLine ==
    ASSUME IInv, LInv, NEW p \in Proc, EndDispatch(p) PROVE LInv'
  <1> DEFINE c == Top(p).conn
             i == Top(p).msg.id
             d == Peer[c]
  <1>1. At(p, "handler", "run") /\ UNCHANGED <<incoming, wire, sent>>
    BY DEF EndDispatch, socketVars
  <1>2. c \in Conn /\ i \in Nat
    <2>1. WaitInv
      BY DEF IInv, WaitInv
    <2>2. "handler" # "batch"
      OBVIOUS
    <2>3. Top(p) \in Frame /\ c \in Conn
      BY <1>1, <2>1, <2>2, TopFacts
    <2> QED
      BY <2>3 DEF Frame, Msg
  <1>3. PICK b \in BOOLEAN : outgoing' = [outgoing EXCEPT ![c] = IF b THEN Append(@, Reply(i)) ELSE @]
    BY DEF EndDispatch, SendsReply
  <1> HIDE DEF i, c
  <1>4. Reply(i) \in Msg /\ ~Numbered(Reply(i))
    BY <1>2, ReplyFacts
  <1>5. /\ d \in Conn /\ Line(incoming[d], wire[d], outgoing[c], sent[c])
        /\ incoming[d] \in Seq(Msg) /\ wire[d] \in Seq(Msg) /\ outgoing[c] \in Seq(Msg)
        /\ sent[c] \in Nat /\ outgoing \in [Conn -> Seq(Msg)]
    BY <1>2, LineOf
  <1>6. Line(incoming[d], wire[d], Append(outgoing[c], Reply(i)), sent[c])
    BY <1>4, <1>5, LineSend
  <1>7. /\ outgoing'[c] = IF b THEN Append(outgoing[c], Reply(i)) ELSE outgoing[c]
        /\ \A e \in Conn : e # c => outgoing'[e] = outgoing[e]
    BY <1>2, <1>3, <1>5
  <1>8. Line(incoming[d], wire[d], outgoing'[c], sent[c])
    BY <1>5, <1>6, <1>7
  <1> QED
    BY <1>1, <1>2, <1>7, <1>8, LineSends

(* sendOutgoingMessages writes all messages, loses one on a closed socket, *)
(* or fails on the k-th.                                                   *)
LEMMA SendOutgoingLine ==
    ASSUME IInv, LInv, NEW c \in Conn, SendOutgoingMessages(c) PROVE LInv'
  <1> DEFINE d == Peer[c]
             in == incoming[d]
             w == wire[d]
             out == outgoing[c]
             n == sent[c]
  <1>1. UNCHANGED <<incoming, sent>>
    BY DEF SendOutgoingMessages
  <1>2. /\ d \in Conn /\ Line(in, w, out, n) /\ in \in Seq(Msg) /\ w \in Seq(Msg)
        /\ out \in Seq(Msg) /\ n \in Nat
        /\ wire \in [Conn -> Seq(Msg)] /\ outgoing \in [Conn -> Seq(Msg)]
    BY LineOf
  <1>3. ASSUME NEW a \in Seq(Msg), NEW b \in Seq(Msg), NEW k \in Nat, Len(a) <= k,
               \A i \in DOMAIN a : i \in DOMAIN out /\ a[i] = out[i],
               \A i \in DOMAIN b : i + k \in DOMAIN out /\ b[i] = out[i + k],
               wire'[d] = w \o a, \A e \in Conn : e # d => wire'[e] = wire[e],
               outgoing' = [outgoing EXCEPT ![c] = b]
        PROVE  LInv'
    <2>1. outgoing'[c] = b /\ \A e \in Conn : e # c => outgoing'[e] = outgoing[e]
      BY <1>2, <1>3
    <2>2. Line(in, w \o a, b, n)
      <3> HIDE DEF d, in, w, out, n
      <3> QED
        BY <1>2, <1>3, LineWrite
    <2> QED
      BY <1>1, <1>3, <2>1, <2>2, LineSends
  <1>4. Len(out) \in Nat /\ DOMAIN out = 1..Len(out)
    BY <1>2, MsgFacts
  <1>5. <<>> \in Seq(Msg) /\ Len(<<>>) = 0 /\ w \o <<>> = w /\ \A i : i \notin DOMAIN <<>>
    BY <1>2, EmptySeq, ConcatEmptySeq
  <1>6. CASE UNCHANGED <<outgoing, wire>>
    BY <1>1, <1>6, SameLine
  <1>7. CASE Write(c, out) /\ outgoing' = [outgoing EXCEPT ![c] = <<>>]
    <2>1. wire'[d] = w \o out /\ \A e \in Conn : e # d => wire'[e] = wire[e]
      BY <1>2, <1>7 DEF Write
    <2>2. Len(out) <= Len(out)
      BY <1>4
    <2>3. /\ \A i \in DOMAIN out : i \in DOMAIN out /\ out[i] = out[i]
          /\ \A i \in DOMAIN <<>> : i + Len(out) \in DOMAIN out /\ <<>>[i] = out[i + Len(out)]
      BY <1>5
    <2> HIDE DEF d, w, out
    <2> QED
      BY <1>2, <1>3, <1>4, <1>5, <1>7, <2>1, <2>2, <2>3
  <1>8. CASE out # <<>> /\ outgoing' = [outgoing EXCEPT ![c] = Tail(@)] /\ UNCHANGED wire
    <2>1. /\ Tail(out) \in Seq(Msg)
          /\ \A i \in DOMAIN Tail(out) : i + 1 \in DOMAIN out /\ Tail(out)[i] = out[i + 1]
      <3>1. /\ Tail(out) \in Seq(Msg) /\ DOMAIN Tail(out) = 1..Len(out) - 1
            /\ \A i \in 1..Len(out) - 1 : Tail(out)[i] = out[i + 1]
        BY <1>2, <1>8, TailElements
      <3> QED
        BY <1>4, <3>1
    <2>2. outgoing' = [outgoing EXCEPT ![c] = Tail(out)]
      BY <1>8
    <2>3. wire'[d] = w \o <<>> /\ \A e \in Conn : e # d => wire'[e] = wire[e]
      BY <1>5, <1>8
    <2>4. Len(<<>>) <= 1 /\ 1 \in Nat
      BY <1>5
    <2>5. \A i \in DOMAIN <<>> : i \in DOMAIN out /\ <<>>[i] = out[i]
      BY <1>5
    <2> HIDE DEF d, w, out
    <2> QED
      BY <1>3, <1>5, <2>1, <2>2, <2>3, <2>4, <2>5
  <1>9. ASSUME NEW k \in DOMAIN out, Write(c, SubSeq(out, 1, k - 1)),
               outgoing' = [outgoing EXCEPT ![c] = SubSeq(@, k + 1, Len(@))]
        PROVE  LInv'
    <2> DEFINE a == SubSeq(out, 1, k - 1)
               b == SubSeq(out, k + 1, Len(out))
    <2>1. k \in Nat \ {0} /\ k - 1 \in Int /\ k + 1 \in Int /\ 1 \in Int /\ Len(out) \in Int
          /\ k <= Len(out)
      BY <1>4, <1>9
    <2>2. a \in Seq(Msg) /\ b \in Seq(Msg)
      BY <1>2, <1>9, PieceOfSeq
    <2>3. /\ Len(a) = k - 1 /\ Len(b) = Len(out) - k
          /\ \A i \in 1..k - 1 : a[i] = out[i]
          /\ \A i \in 1..Len(out) - k : b[i] = out[i + k]
      <3>1. \A i \in 1..k - 1 : out[i] \in Msg
        BY <1>2, <1>4, <2>1, ElementOfSeq
      <3>2. \A i \in k + 1..Len(out) : out[i] \in Msg
        BY <1>2, <1>4, <2>1, ElementOfSeq
      <3>3. /\ Len(a) = IF 1 <= k - 1 THEN k - 1 - 1 + 1 ELSE 0
            /\ \A i \in 1..k - 1 - 1 + 1 : a[i] = out[1 + i - 1]
        BY <2>1, <3>1, SubSeqProperties
      <3>4. /\ Len(b) = IF k + 1 <= Len(out) THEN Len(out) - (k + 1) + 1 ELSE 0
            /\ \A i \in 1..Len(out) - (k + 1) + 1 : b[i] = out[k + 1 + i - 1]
        BY <2>1, <3>2, SubSeqProperties
      <3> HIDE DEF a, b
      <3>5. Len(a) = k - 1 /\ \A i \in 1..k - 1 : i \in 1..k - 1 - 1 + 1 /\ 1 + i - 1 = i
        BY <2>1, <3>3
      <3>6. Len(b) = Len(out) - k
            /\ \A i \in 1..Len(out) - k : i \in 1..Len(out) - (k + 1) + 1 /\ k + 1 + i - 1 = i + k
        BY <2>1, <3>4
      <3> QED
        BY <3>3, <3>4, <3>5, <3>6
    <2>4. wire'[d] = w \o a /\ \A e \in Conn : e # d => wire'[e] = wire[e]
      BY <1>2, <1>9 DEF Write
    <2>5. outgoing' = [outgoing EXCEPT ![c] = b]
      BY <1>9
    <2> HIDE DEF a, b, d, w, out
    <2>6. /\ Len(a) <= k
          /\ \A i \in DOMAIN a : i \in DOMAIN out /\ a[i] = out[i]
          /\ \A i \in DOMAIN b : i + k \in DOMAIN out /\ b[i] = out[i + k]
      <3>1. DOMAIN a = 1..k - 1 /\ DOMAIN b = 1..Len(out) - k
        BY <2>2, <2>3, MsgFacts
      <3> QED
        BY <1>4, <2>1, <2>3, <3>1
    <2> QED
      BY <1>3, <2>1, <2>2, <2>4, <2>5, <2>6
  <1> QED
    BY <1>6, <1>7, <1>8, <1>9 DEF SendOutgoingMessages

(* The end c of the connection reads a message or closes its socket.       *)
LEMMA ReadLine ==
    ASSUME IInv, LInv, NEW c \in Conn, ProcessIncomingSyncReply(c) \/ ProcessMarkedMessage(c)
    PROVE  LInv'
  <1>1. UNCHANGED <<incoming, outgoing, sent>> /\ Readable(c) /\ Consume(c)
    BY DEF ProcessIncomingSyncReply, ProcessMarkedMessage, outVars, countVars
  <1>2. wire[c] # <<>> /\ wire'[c] = Tail(wire[c]) /\ \A d \in Conn : d # c => wire'[d] = wire[d]
    BY <1>1, LineOf DEF Readable, Consume
  <1>3. Line(incoming[c], Tail(wire[c]), outgoing[Peer[c]], sent[Peer[c]])
    BY <1>2, LineOf, LineRead
  <1> QED
    BY <1>1, <1>2, <1>3, LineReceives

LEMMA EnqueueLine ==
    ASSUME IInv, LInv, NEW c \in Conn, EnqueueIncomingMessage(c) PROVE LInv'
  <1> DEFINE m == Head(wire[c])
  <1>1. /\ UNCHANGED <<outgoing, sent>> /\ Readable(c) /\ Consume(c) /\ m.kind # "reply"
        /\ incoming' = [incoming EXCEPT ![c] = Append(@, m)]
    BY DEF EnqueueIncomingMessage, outVars, countVars
  <1>2. /\ wire[c] # <<>> /\ wire'[c] = Tail(wire[c])
        /\ \A d \in Conn : d # c => wire'[d] = wire[d]
    BY <1>1, LineOf DEF Readable, Consume
  <1>3. /\ incoming'[c] = Append(incoming[c], m)
        /\ \A d \in Conn : d # c => incoming'[d] = incoming[d]
    BY <1>1, LineOf
  <1>4. Line(Append(incoming[c], m), Tail(wire[c]), outgoing[Peer[c]], sent[Peer[c]])
    BY <1>1, <1>2, LineOf, LineRead
  <1> HIDE DEF m
  <1> QED
    BY <1>1, <1>2, <1>3, <1>4, LineReceives

LEMMA CloseLine ==
    ASSUME IInv, LInv, NEW c \in Conn, PlatformInvalidate(c) \/ ConnectionDidClose(c)
    PROVE  LInv'
  <1>1. UNCHANGED <<incoming, outgoing, sent>> /\ wire' = [wire EXCEPT ![c] = <<>>]
    BY DEF PlatformInvalidate, ConnectionDidClose, outVars, countVars
  <1>2. wire'[c] = <<>> /\ \A d \in Conn : d # c => wire'[d] = wire[d]
    BY <1>1, LineOf
  <1>3. Line(incoming[c], <<>>, outgoing[Peer[c]], sent[Peer[c]])
    BY LineOf, LineClose
  <1> QED
    BY <1>1, <1>2, <1>3, LineReceives

LEMMA FetchLine ==
    ASSUME IInv, LInv, NEW p \in Proc, DispatchOneMessage(p) PROVE LInv'
  <1> DEFINE c == Head(runq[p]).conn
  <1>1. UNCHANGED <<wire, outgoing, sent>>
    BY DEF DispatchOneMessage, socketVars, outVars, countVars
  <1>2. CASE incoming[c] = <<>>
    <2>1. UNCHANGED incoming
      BY <1>2 DEF DispatchOneMessage
    <2> QED
      BY <1>1, <2>1, SameLine
  <1>3. CASE incoming[c] # <<>>
    <2>1. incoming' = [incoming EXCEPT ![c] = Tail(@)]
      BY <1>3 DEF DispatchOneMessage
    <2>2. c \in Conn
      <3>1. WaitInv /\ runq[p] # <<>> /\ runq' = [runq EXCEPT ![p] = Tail(@)]
        BY DEF IInv, WaitInv, DispatchOneMessage, NextTask
      <3> QED
        BY <3>1, RunLoopStep DEF Home
    <2>3. /\ incoming'[c] = Tail(incoming[c])
          /\ \A d \in Conn : d # c => incoming'[d] = incoming[d]
      BY <2>1, <2>2, LineOf
    <2>4. Line(Tail(incoming[c]), wire[c], outgoing[Peer[c]], sent[Peer[c]])
      BY <1>3, <2>2, LineOf, LineFetch
    <2> QED
      BY <1>1, <2>2, <2>3, <2>4, LineReceives
  <1> QED
    BY <1>2, <1>3

LEMMA LInvInit == Init => LInv
  <1> SUFFICES ASSUME Init, NEW c \in Conn
               PROVE  Line(incoming[c], wire[c], outgoing[Peer[c]], sent[Peer[c]])
    BY DEF LInv
  <1>1. incoming[c] = <<>> /\ wire[c] = <<>> /\ outgoing[Peer[c]] = <<>>
    BY ConnAssumption DEF Init
  <1>2. \A n : Line(<<>>, <<>>, <<>>, n)
    BY DEF Line, Sorted, Before, UpTo
  <1> QED
    BY <1>1, <1>2

LEMMA LInvStays == IInv /\ LInv /\ [Next]_vars => LInv'
  <1> SUFFICES ASSUME IInv, LInv, [Next]_vars PROVE LInv'
    OBVIOUS
  <1>1. ASSUME NEW c \in Conn,
               Client(c) \/ SendDelayedReply(c) \/ QueueThread(c) \/ SecondaryThread(c)
                   \/ SecondaryReturn(c, TRUE)
        PROVE  LInv'
    <2>1. CASE Send(c) \/ SendSync(c) \/ SecondarySend(c) \/ SendDelayedReply(c)
      BY <2>1, SendLine, SendSyncLine, SecondarySendLine, DelayedReplyLine
    <2>2. CASE SendOutgoingMessages(c) \/ PlatformInvalidate(c) \/ ReadEndOfFile(c) \/ PostedDidClose(c)
      BY <2>2, SendOutgoingLine, CloseLine DEF ReadEndOfFile, PostedDidClose
    <2>3. CASE ProcessIncomingSyncReply(c) \/ ProcessMarkedMessage(c) \/ EnqueueIncomingMessage(c)
      BY <2>3, ReadLine, EnqueueLine
    <2>4. CASE \/ Invalidate(c) \/ SecondaryBegin(c) \/ PostConnectionDidClose(c) \/ Crash(c)
               \/ WakeUpClientRunLoop(c) \/ SecondaryReturn(c, FALSE) \/ SecondaryReturn(c, TRUE)
      <3>1. UNCHANGED <<incoming, wire, outgoing, sent>>
        BY <2>4 DEF Invalidate, SecondaryBegin, PostConnectionDidClose, Crash,
                    WakeUpClientRunLoop, SecondaryReturn, socketVars, outVars, countVars
      <3> QED
        BY <3>1, SameLine
    <2> QED
      BY <1>1, <2>1, <2>2, <2>3, <2>4 DEF Client, QueueThread, SecondaryThread
  <1>2. ASSUME NEW p \in Proc,
               MainThread(p) \/ MarkInvalid(p) \/ IncrementMarkedCount(p) \/ SyncTimeout(p)
        PROVE  LInv'
    <2>1. CASE EndDispatch(p) \/ DispatchOneMessage(p)
      BY <2>1, EndDispatchLine, FetchLine
    <2>2. CASE \/ DispatchMessagesTask(p) \/ SwapMessages(p) \/ DispatchNext(p) \/ PutBack(p)
               \/ DispatchConnectionDidClose(p) \/ SyncDispatch(p) \/ SyncWake(p) \/ MarkInvalid(p)
               \/ IncrementMarkedCount(p)
      <3>1. UNCHANGED <<incoming, wire, outgoing, sent>>
        BY <2>2 DEF DispatchMessagesTask, SwapMessages, DispatchNext, PutBack,
                    DispatchConnectionDidClose, SyncDispatch, SyncWake, MarkInvalid,
                    IncrementMarkedCount, connVars, socketVars, outVars, countVars
      <3> QED
        BY <3>1, SameLine
    <2>3. CASE SyncCheck(p) \/ SyncTimeout(p)
      <3>1. UNCHANGED <<incoming, wire, outgoing, sent>>
        BY <2>3 DEF SyncCheck, SyncTimeout, SyncReturn, connVars, socketVars, outVars, countVars
      <3> QED
        BY <3>1, SameLine
    <2> QED
      BY <1>2, <2>1, <2>2, <2>3 DEF MainThread
  <1>3. CASE UNCHANGED vars
    <2>1. UNCHANGED <<incoming, wire, outgoing, sent>>
      BY <1>3 DEF vars, connVars, socketVars, outVars, countVars
    <2> QED
      BY <2>1, SameLine
  <1> QED
    BY <1>1, <1>2, <1>3 DEF Next

-----------------------------------------------------------------------------
(* The steps of the connection work queue.  A function joins the run loop, *)
(* and a dispatchOneMessage with its message.                              *)
Posted(p, t) ==
    \A c \in Home(p) : IF t \in OneTasks(c)
                       THEN \E m \in Msg : incoming'[c] = Append(incoming[c], m)
                       ELSE incoming'[c] = incoming[c]

LEMMA TaskPosted ==
    ASSUME IInv, DInv, NEW p \in Proc, NEW t \in HomeTask(p), runq'[p] = Append(runq[p], t),
           Posted(p, t), \A c \in scheduled[p] : c \in scheduled'[p]
    PROVE  /\ Tallied(p)' /\ Tasked(scheduled[p], runq'[p])
           /\ \A x \in Ready(p) : x \in Ready(p)'
  <1>1. /\ runq[p] \in Seq(HomeTask(p)) /\ Tasked(scheduled[p], runq[p])
        /\ \A c \in Home(p) : /\ incoming[c] \in Seq(Msg) /\ Len(incoming[c]) \in Nat
                              /\ Len(incoming[c]) = Number(runq[p], OneTasks(c))
    BY DispatchFacts, LenProperties
  <1>2. \A c : Number(runq'[p], OneTasks(c)) =
                   Number(runq[p], OneTasks(c)) + IF t \in OneTasks(c) THEN 1 ELSE 0
    BY <1>1, NumberAppend
  <1>3. ASSUME NEW c \in Home(p) PROVE Len(incoming'[c]) = Number(runq'[p], OneTasks(c))
    <2>1. CASE t \in OneTasks(c)
      <3>1. PICK m \in Msg : incoming'[c] = Append(incoming[c], m)
        BY <2>1 DEF Posted
      <3>2. Len(incoming'[c]) = Len(incoming[c]) + 1
        BY <1>1, <3>1, AppendProperties
      <3> QED
        BY <1>1, <1>2, <2>1, <3>2
    <2>2. CASE t \notin OneTasks(c)
      BY <1>1, <1>2, <2>2 DEF Posted
    <2> QED
      BY <2>1, <2>2
  <1>4. ASSUME NEW x \in Ready(p) PROVE x \in Ready(p)'
    <2>1. /\ x \in HomeItem(p) /\ x.conn \in Home(p) /\ x.conn \in scheduled[p]
          /\ InTurn(x, runq[p], incoming[x.conn])
      BY DEF Ready, HomeItem
    <2>2. InTurn(x, runq'[p], incoming'[x.conn])
      <3>1. CASE t \in OneTasks(x.conn)
        <4>1. PICK m \in Msg : incoming'[x.conn] = Append(incoming[x.conn], m)
          BY <2>1, <3>1 DEF Posted
        <4> QED
          BY <1>1, <2>1, <4>1, TurnMore
      <3>2. CASE t \notin OneTasks(x.conn)
        BY <1>1, <2>1, <3>2, TurnAppend DEF Posted
      <3> QED
        BY <3>1, <3>2
    <2> QED
      BY <2>1, <2>2 DEF Ready
  <1>5. Tasked(scheduled[p], runq'[p])
    BY <1>1, TaskedAppend
  <1> QED
    BY <1>3, <1>4, <1>5 DEF Tallied

LEMMA MoreTasks ==
    ASSUME IInv, DInv, NEW c \in Conn, NEW t \in HomeTask(ProcOf[c]),
           runq' = [runq EXCEPT ![ProcOf[c]] = Append(@, t)],
           UNCHANGED <<stack, scheduled, toDispatch, pending>>,
           Posted(ProcOf[c], t), SameConn(incoming, incoming', ProcOf[c])
    PROVE  DInv'
  <1> DEFINE p == ProcOf[c]
  <1>1. p \in Proc
    BY ConnAssumption
  <1>2. runq'[p] = Append(runq[p], t) /\ Same(runq, runq', p)
    <2>1. runq \in [Proc -> Seq(Task)]
      BY <1>1, TaskTypes
    <2> QED
      BY <1>1, <2>1 DEF Same
  <1> HIDE DEF p
  <1>3. /\ Tallied(p)' /\ Tasked(scheduled[p], runq'[p])
        /\ \A x \in Ready(p) : x \in Ready(p)'
    BY <1>1, <1>2, TaskPosted DEF p
  <1>4. Attended(p) /\ Matched(p)
    BY <1>1 DEF DInv
  <1>5. Ready(p) \subseteq Ready(p)'
    BY <1>3
  <1>6. Kept(stack[p], Ready(p)') /\ Offered(stack[p], Ready(p)', toDispatch[p])
    BY <1>3, <1>4, <1>5, KeptGrows DEF Attended, Offered
  <1>7. Attended(p)'
    BY <1>3, <1>6 DEF Attended
  <1>8. Matched(p)'
    BY <1>4 DEF Matched
  <1> QED
    BY <1>1, <1>2, <1>3, <1>7, <1>8, Unmoved, OneProcess DEF p

LEMMA EnqueueKeeps ==
    ASSUME IInv, DInv, NEW c \in Conn, EnqueueIncomingMessage(c) PROVE DInv'
  <1> DEFINE p == ProcOf[c]
             t == [kind |-> "one", conn |-> c]
  <1>1. /\ runq' = [runq EXCEPT ![p] = @ \o <<t>>] /\ p \in Proc /\ Readable(c) /\ Consume(c)
        /\ incoming' = [incoming EXCEPT ![c] = Append(@, Head(wire[c]))]
        /\ UNCHANGED <<stack, scheduled, toDispatch, pending>>
    BY ConnAssumption DEF EnqueueIncomingMessage, OneTask, mainVars, replyVars
  <1>2. t \in HomeTask(p) /\ \A d : t \in OneTasks(d) <=> d = c
    BY DEF HomeTask, Home, OneTasks
  <1>3. Head(wire[c]) \in Msg /\ incoming \in [Conn -> Seq(Msg)]
    <2>1. ConnTypes
      BY DEF IInv
    <2> QED
      BY <1>1, <2>1, ReadableFacts DEF ConnTypes
  <1>4. /\ incoming'[c] = Append(incoming[c], Head(wire[c]))
        /\ \A d \in Conn : d # c => incoming'[d] = incoming[d]
    BY <1>1, <1>3
  <1> HIDE DEF t
  <1>5. Posted(p, t) /\ SameConn(incoming, incoming', p)
    <2>1. c \in Home(p) /\ \A d \in Home(p) : d \in Conn
      BY DEF Home
    <2>2. Posted(p, t)
      BY <1>2, <1>3, <1>4, <2>1 DEF Posted
    <2> QED
      BY <1>4, <2>2 DEF SameConn
  <1>6. runq' = [runq EXCEPT ![p] = Append(@, t)]
    <2>1. runq[p] \in Seq(HomeTask(p))
      BY <1>1, DispatchFacts
    <2>2. runq[p] \o <<t>> = Append(runq[p], t)
      BY <1>2, <2>1, AppendIsConcat
    <2> QED
      BY <1>1, <2>2
  <1> QED
    BY <1>1, <1>2, <1>5, <1>6, MoreTasks

LEMMA DidCloseKeeps ==
    ASSUME IInv, DInv, NEW c \in Conn, ConnectionDidClose(c) PROVE DInv'
  <1> DEFINE t == [kind |-> "close", conn |-> c]
  <1>1. /\ runq' = [runq EXCEPT ![ProcOf[c]] = Append(@, t)]
        /\ UNCHANGED <<stack, scheduled, toDispatch, pending, incoming>>
    BY DEF ConnectionDidClose, mainVars
  <1>2. t \in HomeTask(ProcOf[c]) /\ \A d : t \notin OneTasks(d)
    BY DEF HomeTask, Home, OneTasks
  <1> HIDE DEF t
  <1>3. Posted(ProcOf[c], t) /\ SameConn(incoming, incoming', ProcOf[c])
    BY <1>1, <1>2, Unmoved DEF Posted
  <1> QED
    BY <1>1, <1>2, <1>3, MoreTasks

(* A marked message comes after all incoming messages of its connection.   *)
LEMMA ProcessMarkedMessageKeeps ==
    ASSUME IInv, DInv, LInv, NEW c \in Conn, ProcessMarkedMessage(c) PROVE DInv'
  <1> DEFINE p == ProcOf[c]
             m == Head(wire[c])
             item == [conn |-> c, msg |-> m]
             t == SyncTask(c)
             T == scheduled[p] \cup {c}
             q == toDispatch[p]
  <1>1. /\ UNCHANGED <<stack, pending, incoming>> /\ Readable(c) /\ Consume(c) /\ m.marked
        /\ runq' = [runq EXCEPT ![p] = IF PostsTask(c) THEN Append(@, t) ELSE @]
        /\ scheduled' = [scheduled EXCEPT ![p] = @ \cup {c}]
        /\ toDispatch' = [toDispatch EXCEPT ![p] = Append(@, item)]
    BY DEF ProcessMarkedMessage, replyVars, mainVars
  <1>2. p \in Proc /\ c \in Home(p) /\ m \in Msg
    BY <1>1, ReadableFacts DEF IInv, Home
  <1>3. /\ Kept(stack[p], Ready(p)) /\ Offered(stack[p], Ready(p), q)
        /\ Tasked(scheduled[p], runq[p])
        /\ runq[p] \in Seq(HomeTask(p)) /\ q \in Seq(HomeItem(p))
    BY <1>2, DispatchFacts
  <1>4. /\ item \in HomeItem(p) /\ t \in HomeTask(p) /\ item.conn = c /\ item.msg = m
        /\ \A d : t \notin OneTasks(d)
    BY <1>2 DEF HomeItem, HomeTask, SyncTask, OneTasks
  <1>5. /\ scheduled'[p] = T /\ Same(scheduled, scheduled', p)
        /\ toDispatch'[p] = Append(q, item) /\ Same(toDispatch, toDispatch', p)
        /\ Same(runq, runq', p)
        /\ runq'[p] = IF PostsTask(c) THEN Append(runq[p], t) ELSE runq[p]
    <2>1. /\ runq \in [Proc -> Seq(Task)] /\ toDispatch \in [Proc -> Seq(Item)]
          /\ scheduled \in [Proc -> SUBSET Conn]
      BY <1>2, TaskTypes
    <2> HIDE DEF item, p, t
    <2> QED
      BY <1>1, <1>2, <2>1 DEF Same
  <1>6. \A j \in DOMAIN incoming[c] : m.n > incoming[c][j].n
    <2>1. wire[c] # <<>> /\ Numbered(m)
      BY <1>1 DEF Readable, Numbered
    <2> QED
      BY <2>1, LineOf, LineRead
  <1> HIDE DEF item, q, t, m
  <1>7. item \in Ready(p)'
    <2>1. InTurn(item, runq'[p], incoming[c])
      BY <1>4, <1>6 DEF InTurn
    <2> QED
      BY <1>1, <1>4, <1>5, <2>1 DEF Ready
  <1>8. /\ Tallied(p)' /\ Tasked(T, runq'[p])
        /\ \A x \in Ready(p) : x \in Ready(p)'
    <2>1. CASE PostsTask(c)
      <3>1. runq'[p] = Append(runq[p], t) /\ Posted(p, t)
        BY <1>1, <1>4, <1>5, <2>1 DEF Posted
      <3>2. \A d \in scheduled[p] : d \in scheduled'[p]
        BY <1>5
      <3>3. Tallied(p)' /\ \A x \in Ready(p) : x \in Ready(p)'
        BY <1>2, <1>4, <3>1, <3>2, TaskPosted
      <3>4. Tasked(T, Append(runq[p], t))
        BY <1>3, <1>4, TaskedAppend DEF t
      <3> QED
        BY <3>1, <3>3, <3>4
    <2>2. CASE ~PostsTask(c)
      <3>1. T = scheduled[p] /\ runq'[p] = runq[p]
        BY <1>5, <2>2 DEF PostsTask
      <3>2. Tallied(p)
        BY <1>2 DEF DInv
      <3>3. Ready(p)' = Ready(p) /\ Tallied(p)'
        BY <1>1, <1>5, <3>1, <3>2, SameReady
      <3> QED
        BY <1>3, <3>1, <3>3
    <2> QED
      BY <2>1, <2>2
  <1>9. Offered(stack[p], Ready(p)', Append(q, item))
    <2>1. /\ Len(q) \in Nat /\ DOMAIN q = 1..Len(q) /\ DOMAIN Append(q, item) = 1..Len(q) + 1
          /\ \A i \in 1..Len(q) : Append(q, item)[i] = q[i]
          /\ Append(q, item)[Len(q) + 1] = item
      BY <1>3, <1>4, AppendProperties, LenProperties
    <2> SUFFICES ASSUME NEW i \in 1..Len(q) + 1
                 PROVE  \/ Append(q, item)[i] \in Ready(p)'
                        \/ Taken(stack[p], Append(q, item)[i].conn)
      BY <2>1 DEF Offered
    <2>2. CASE i \in 1..Len(q)
      BY <1>3, <1>8, <2>1, <2>2 DEF Offered
    <2>3. CASE i = Len(q) + 1
      BY <1>7, <2>1, <2>3
    <2> QED
      BY <2>1, <2>2, <2>3
  <1>10. Kept(stack[p], Ready(p)')
    <2>1. Ready(p) \subseteq Ready(p)'
      BY <1>8
    <2> QED
      BY <1>3, <2>1, KeptGrows
  <1>11. Attended(p)'
    BY <1>1, <1>5, <1>8, <1>9, <1>10 DEF Attended
  <1>12. Matched(p)'
    BY <1>1, <1>2 DEF Matched, DInv
  <1> QED
    BY <1>1, <1>2, <1>5, <1>8, <1>11, <1>12, Unmoved, OneProcess

(* A reply fills in a pending reply: the request IDs stay.                 *)
LEMMA ReplyKeeps ==
    ASSUME IInv, DInv, NEW c \in Conn, ProcessIncomingSyncReply(c) PROVE DInv'
  <1> DEFINE p == ProcOf[c]
             id == Head(wire[c]).id
             w == pending[c]
             hits == {i \in DOMAIN w : w[i].id = id}
             mark(i) == IF i \in hits THEN [w[i] EXCEPT !.got = TRUE] ELSE w[i]
             t == [i \in DOMAIN w |-> mark(i)]
  <1>1. UNCHANGED <<stack, scheduled, toDispatch, runq, incoming>>
    BY DEF ProcessIncomingSyncReply, mainVars
  <1>2. p \in Proc /\ c \in Home(p) /\ pending \in [Conn -> Seq(PendingReply)]
    BY ConnAssumption, TaskTypes DEF Home
  <1>3. CASE hits = {}
    <2>1. UNCHANGED pending
      BY <1>3 DEF ProcessIncomingSyncReply
    <2> QED
      BY <1>1, <2>1, SameDispatch
  <1>4. CASE hits # {}
    <2>1. pending' = [pending EXCEPT ![c] = t]
      BY <1>4 DEF ProcessIncomingSyncReply
    <2>2. /\ w \in Seq(PendingReply) /\ Len(w) \in Nat /\ DOMAIN w = 1..Len(w)
          /\ \A i \in 1..Len(w) : w[i] \in PendingReply
      BY <1>2, LenProperties, ElementOfSeq
    <2>3. \A i \in 1..Len(w) : mark(i) \in PendingReply /\ mark(i).id = w[i].id
      BY <2>2 DEF PendingReply
    <2>4. t \in [1..Len(w) -> PendingReply]
      BY <2>2, <2>3
    <2>5. Len(t) = Len(w) /\ \A i \in 1..Len(w) : t[i].id = w[i].id
      BY <2>2, <2>3, <2>4, FunctionIsSeq
    <2> HIDE DEF t, hits, w
    <2>6. pending'[c] = t /\ \A d \in Conn : d # c => pending'[d] = pending[d]
      BY <1>2, <2>1
    <2>7. /\ Attended(p) /\ Matched(p) /\ Tallied(p) /\ GoodStack(p, stack[p])
          /\ Offered(stack[p], Ready(p), toDispatch[p]) /\ Kept(stack[p], Ready(p))
      BY <1>2, DispatchFacts DEF DInv
    <2>8. Matches(stack[p], c, t)
      <3>1. Matches(stack[p], c, w)
        BY <1>2, <2>7 DEF Matched, w
      <3>2. \A k \in DOMAIN stack[p] : stack[p][k] \in SyncFrame(c) =>
                Depth(stack[p], c, k) \in 1..Len(w)
        BY <2>7, <3>1, DepthFacts DEF Matches
      <3> QED
        BY <2>5, <3>1, <3>2 DEF Matches
    <2>9. \A d \in Home(p) : Matches(stack[p], d, pending'[d])
      <3> SUFFICES ASSUME NEW d \in Home(p) PROVE Matches(stack[p], d, pending'[d])
        OBVIOUS
      <3>1. CASE d = c
        BY <2>6, <2>8, <3>1
      <3>2. CASE d # c
        BY <2>6, <2>7, <3>2 DEF Matched, Home
      <3> QED
        BY <3>1, <3>2
    <2>10. SameConn(pending, pending', p)
      BY <2>6 DEF SameConn
    <2> QED
      BY <1>1, <1>2, <2>7, <2>9, <2>10, Unmoved, StackStep
  <1> QED
    BY <1>3, <1>4

-----------------------------------------------------------------------------
(* The invariant holds.                                                    *)
LEMMA DInvInit == Init => DInv
  <1> SUFFICES ASSUME Init, NEW p \in Proc PROVE Attended(p) /\ Matched(p) /\ Tallied(p)
    BY DEF DInv
  <1>1. stack[p] = <<>> /\ runq[p] = <<>> /\ toDispatch[p] = <<>> /\ scheduled[p] = {}
    BY DEF Init
  <1>2. Attended(p)
    BY <1>1 DEF Attended, Tasked, Offered, Kept
  <1>3. ASSUME NEW c \in Home(p) PROVE Matches(<<>>, c, pending[c])
    <2>1. pending[c] = <<>>
      BY DEF Init, Home
    <2>2. Len(<<>>) = 0 /\ Number(<<>>, SyncFrame(c)) = 0
      BY EmptySeq, NumberOfEmpty
    <2> QED
      BY <2>1, <2>2 DEF Matches
  <1>4. ASSUME NEW c \in Home(p) PROVE Len(incoming[c]) = Number(runq[p], OneTasks(c))
    <2>1. incoming[c] = <<>>
      BY DEF Init, Home
    <2>2. Len(<<>>) = 0 /\ Number(<<>>, OneTasks(c)) = 0
      BY EmptySeq, NumberOfEmpty
    <2> QED
      BY <1>1, <2>1, <2>2
  <1> QED
    BY <1>1, <1>2, <1>3, <1>4 DEF Matched, Tallied

(* The steps that leave the stacks, the queues of messages to dispatch and *)
(* the run loops alone.                                                    *)
LEMMA OtherKeeps ==
    ASSUME IInv, DInv, NEW c \in Conn,
           \/ Send(c) \/ SendDelayedReply(c) \/ Invalidate(c) \/ PostConnectionDidClose(c)
           \/ SecondaryBegin(c) \/ SecondarySend(c) \/ SecondaryReturn(c, FALSE)
           \/ SecondaryReturn(c, TRUE) \/ SendOutgoingMessages(c) \/ PlatformInvalidate(c)
           \/ Crash(c) \/ WakeUpClientRunLoop(c)
    PROVE  DInv'
  <1>1. UNCHANGED <<stack, scheduled, toDispatch, runq, pending, incoming>>
    BY DEF Send, SendDelayedReply, Invalidate, PostConnectionDidClose, SecondaryBegin,
           SecondarySend, SecondaryReturn, SendOutgoingMessages, PlatformInvalidate, Crash,
           WakeUpClientRunLoop, replyVars, loopVars, mainVars, procVars
  <1> QED
    BY <1>1, SameDispatch

LEMMA DInvStays == IInv /\ DInv /\ LInv /\ [Next]_vars => DInv'
  <1> SUFFICES ASSUME IInv, DInv, LInv, [Next]_vars PROVE DInv'
    OBVIOUS
  <1>1. ASSUME NEW c \in Conn,
               Client(c) \/ SendDelayedReply(c) \/ QueueThread(c) \/ SecondaryThread(c)
                   \/ SecondaryReturn(c, TRUE)
        PROVE  DInv'
    <2>1. CASE SendSync(c)
      BY <2>1, SendSyncKeeps
    <2>2. CASE ReadEndOfFile(c) \/ PostedDidClose(c)
      BY <2>2, DidCloseKeeps DEF ReadEndOfFile, PostedDidClose
    <2>3. CASE ProcessIncomingSyncReply(c)
      BY <2>3, ReplyKeeps
    <2>4. CASE ProcessMarkedMessage(c)
      BY <2>4, ProcessMarkedMessageKeeps
    <2>5. CASE EnqueueIncomingMessage(c)
      BY <2>5, EnqueueKeeps
    <2> QED
      BY <1>1, <2>1, <2>2, <2>3, <2>4, <2>5, OtherKeeps DEF Client, QueueThread, SecondaryThread
  <1>2. ASSUME NEW p \in Proc, MainThread(p) PROVE DInv'
    BY <1>2, EndDispatchKeeps, DispatchOneMessageKeeps, DispatchMessagesTaskKeeps,
       SwapMessagesKeeps, DispatchNextKeeps, PutBackKeeps, DispatchConnectionDidCloseKeeps,
       SyncDispatchKeeps, SyncCheckKeeps, SyncWakeKeeps
    DEF MainThread
  <1>3. ASSUME NEW p \in Proc, MarkInvalid(p) PROVE DInv'
    <2>1. UNCHANGED <<stack, scheduled, toDispatch, runq, pending, incoming>>
      BY <1>3 DEF MarkInvalid, replyVars, loopVars, mainVars, procVars
    <2> QED
      BY <2>1, SameDispatch
  <1>4. CASE UNCHANGED vars
    <2>1. UNCHANGED <<stack, scheduled, toDispatch, runq, pending, incoming>>
      BY <1>4 DEF vars, connVars, procVars, replyVars, loopVars, mainVars
    <2> QED
      BY <2>1, SameDispatch
  <1> QED
    BY <1>1, <1>2, <1>3, <1>4, SyncTimeoutKeeps, IncrementMarkedCountKeeps DEF Next

LEMMA DInvHolds == Spec => [](IInv /\ LInv /\ DInv)
  BY InitInv, NextInv, LInvInit, LInvStays, DInvInit, DInvStays, PTL DEF Spec

LEMMA InvStranded == DInv => NoStrandedMessage
  <1> SUFFICES ASSUME DInv, NEW p \in Proc, alive[p]
               PROVE  /\ \A c \in scheduled[p] : \E i \in DOMAIN runq[p] : runq[p][i] = SyncTask(c)
                      /\ \A i \in DOMAIN toDispatch[p] : WillDispatch(p, toDispatch[p][i].conn)
                      /\ \A k \in DOMAIN stack[p] :
                           LET f == stack[p][k]
                           IN  /\ \A i \in DOMAIN f.held : f.held[i].conn \in scheduled[p]
                               /\ f.conn # NoConn => \A i \in DOMAIN f.rest :
                                    f.rest[i].conn # f.conn => f.rest[i].conn \in scheduled[p]
    BY DEF NoStrandedMessage
  <1>1. /\ Tasked(scheduled[p], runq[p]) /\ Offered(stack[p], Ready(p), toDispatch[p])
        /\ Kept(stack[p], Ready(p)) /\ \A x \in Ready(p) : x.conn \in scheduled[p]
    BY DEF DInv, Attended, Ready
  <1>2. \A i \in DOMAIN toDispatch[p] : WillDispatch(p, toDispatch[p][i].conn)
    BY <1>1 DEF Offered, Taken, AtTop, WillDispatch, At, Top
  <1>3. \A c \in scheduled[p] : \E i \in DOMAIN runq[p] : runq[p][i] = SyncTask(c)
    BY <1>1 DEF Tasked
  <1> QED
    BY <1>1, <1>2, <1>3 DEF Kept, Safe

LEMMA InvMatches == IInv /\ DInv => PendingMatchesCalls
  <1> SUFFICES ASSUME IInv, DInv, NEW c \in Conn
               PROVE  LET s        == stack[ProcOf[c]]
                          calls    == {k \in DOMAIN s : s[k].kind = "sync" /\ s[k].conn = c}
                          depth(k) == Cardinality({j \in calls : j <= k})
                      IN  /\ Cardinality(calls) = Len(pending[c])
                          /\ \A k \in calls : s[k].msg.id = pending[c][depth(k)].id
    BY DEF PendingMatchesCalls
  <1> DEFINE s == stack[ProcOf[c]]
             calls == {k \in DOMAIN s : s[k].kind = "sync" /\ s[k].conn = c}
  <1>1. ProcOf[c] \in Proc /\ c \in Home(ProcOf[c])
    BY ConnAssumption DEF Home
  <1>2. Matches(s, c, pending[c]) /\ GoodStack(ProcOf[c], s)
    BY <1>1, DispatchFacts
  <1>3. \A k \in DOMAIN s : s[k] \in Frame
    BY <1>2, StackType, ElementOfSeq, LenProperties
  <1>4. \A k \in DOMAIN s : k \in calls <=> s[k] \in SyncFrame(c)
    BY <1>3 DEF SyncFrame
  <1> HIDE DEF s
  <1>5. Cardinality(calls) = Number(s, SyncFrame(c))
    <2>1. calls = {k \in DOMAIN s : s[k] \in SyncFrame(c)}
      BY <1>4
    <2> QED
      BY <2>1 DEF Number
  <1>6. \A k : Cardinality({j \in calls : j <= k}) = Depth(s, c, k)
    <2> SUFFICES ASSUME NEW k PROVE Cardinality({j \in calls : j <= k}) = Depth(s, c, k)
      OBVIOUS
    <2>1. {j \in calls : j <= k} = {j \in DOMAIN s : s[j] \in SyncFrame(c) /\ j <= k}
      BY <1>4
    <2> QED
      BY <2>1 DEF Depth
  <1>7. \A k \in calls : k \in DOMAIN s
    OBVIOUS
  <1>8. Cardinality(calls) = Len(pending[c])
    BY <1>2, <1>5 DEF Matches
  <1>9. \A k \in calls : s[k].msg.id = pending[c][Cardinality({j \in calls : j <= k})].id
    <2> HIDE DEF calls
    <2> QED
      BY <1>2, <1>4, <1>6, <1>7 DEF Matches
  <1> QED
    BY <1>8, <1>9 DEF s

(* When a dispatchOneMessage of c is next, the stack is empty, every item  *)
(* of toDispatch is in its turn, and nothing is behind the function.       *)
LEMMA InvOrder == IInv /\ DInv => UnmarkedNeverOvertakes
  <1> SUFFICES ASSUME IInv, DInv, NEW p \in Proc, NextTask(p, "one"),
                      incoming[Head(runq[p]).conn] # <<>>, NEW i \in DOMAIN toDispatch[p],
                      toDispatch[p][i].conn = Head(runq[p]).conn
               PROVE  toDispatch[p][i].msg.n > Head(incoming[Head(runq[p]).conn]).n
    BY DEF UnmarkedNeverOvertakes
  <1> DEFINE c == Head(runq[p]).conn
             x == toDispatch[p][i]
  <1>1. stack[p] = <<>> /\ runq[p] # <<>> /\ Head(runq[p]).kind = "one"
    BY DEF NextTask
  <1>2. runq[p] \in Seq(HomeTask(p)) /\ Offered(stack[p], Ready(p), toDispatch[p])
    BY DispatchFacts
  <1>3. Head(runq[p]) \in HomeTask(p)
    BY <1>1, <1>2, HeadTailProperties
  <1>4. Head(runq[p]) \in OneTasks(c) /\ c \in Home(p)
    BY <1>1, <1>3 DEF HomeTask, OneTasks
  <1>5. ~AtTop(stack[p], "batch", "swap")
    BY <1>1 DEF AtTop
  <1>6. x \in Ready(p)
    BY <1>2, <1>5, AllOffered
  <1>7. ~Behind(runq[p], c, 1)
    BY <1>1, <1>2, <1>4, NothingBehind
  <1>8. InTurn(x, runq[p], incoming[c])
    BY <1>6 DEF Ready
  <1>9. incoming[c] \in Seq(Msg)
    BY <1>4, DispatchFacts
  <1>10. 1 \in DOMAIN incoming[c] /\ Head(incoming[c]) = incoming[c][1]
    BY <1>9, TailElements
  <1> HIDE DEF x, c
  <1>11. x.msg.n > incoming[c][1].n
    BY <1>7, <1>8, <1>10 DEF InTurn, x, c
  <1> QED
    BY <1>10, <1>11 DEF x, c

(* A message that arrives while a process waits for a sync reply is never  *)
(* forgotten when nobody waits any more: for any number of connections     *)
(* that share the queue of the process, a queued or set aside message has  *)
(* its connection in m_didScheduleDispatchMessagesWorkSet and its          *)
(* dispatchMessages on the run loop, or is about to be taken by it.        *)
THEOREM MessagesAreNotStranded == Spec => []NoStrandedMessage
  <1>1. Spec => [](IInv /\ LInv /\ DInv)
    BY DInvHolds
  <1> QED
    BY <1>1, InvStranded, PTL

(* m_pendingSyncReplies of a connection is the stack of its calls of       *)
(* sendSyncMessage, with the same request IDs in the same order, however   *)
(* deep the calls on this and on other connections are nested: a returning *)
(* call pops its own pending reply, as the code asserts.                   *)
THEOREM PendingRepliesMatch == Spec => []PendingMatchesCalls
  <1>1. Spec => [](IInv /\ LInv /\ DInv)
    BY DInvHolds
  <1> QED
    BY <1>1, InvMatches, PTL

(* A message that is not marked never overtakes a message that was sent    *)
(* before it on the same connection, although marked messages take another *)
(* way through the receiving process, are set aside and put back while     *)
(* dispatchMessages of other connections are nested, and messages are lost *)
(* when sendmsg fails: when the run loop calls dispatchOneMessage, what    *)
(* still waits in SyncMessageState was sent later.                         *)
THEOREM UnmarkedStayInOrder == Spec => []UnmarkedNeverOvertakes
  <1>1. Spec => [](IInv /\ LInv /\ DInv)
    BY DInvHolds
  <1> QED
    BY <1>1, InvOrder, PTL

=============================================================================
