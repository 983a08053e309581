----------------------------- MODULE ReplyProofs -----------------------------
(***************************************************************************)
(* Every synchronous request has one reply at most, and is not lost while  *)
(* both ends of the connection work, for any number of processes and       *)
(* connections and any depth of nested synchronous calls; and two callers  *)
(* are not stuck waiting for each other.                                   *)
(*                                                                         *)
(* The proof counts.  The request i of a connection, or its reply, is in   *)
(* one of eight kinds of places: Tokens adds up how often.  RInv says that *)
(* this number is 1 at most, is 0 before the request is sent and after its *)
(* reply has been read, and is 1 while a call waits and both ends work;    *)
(* that identifiers are not used twice; and that a send that failed was    *)
(* paid for.  An end of a connection sends its own requests and reads      *)
(* their replies (OwnKept), and it holds the requests that it reads and    *)
(* answers (HeldKept).  A step keeps the counts of both, or loses some at  *)
(* an end that does not work afterwards (KeptAll), except for the steps    *)
(* that send a request, write to the socket or read a reply.  What a stack *)
(* holds is the sum of the weights of its frames (StackLoad).              *)
(*                                                                         *)
(* The second part rests on the first: two main threads asleep in calls on *)
(* the two ends of a connection are not stuck, in the setting SendersApart.*)
(* The request of each must be somewhere (RInv), so each is held by the    *)
(* stack of the other process or queued on its run loop.  SInv says that   *)
(* not both are held (Untangled: a call is numbered when it is sent, so    *)
(* one of the two began when the other's request was not there yet), that  *)
(* a request that is queued comes from an OnlySend end that dispatches no  *)
(* marked message (Marks, Shape), and that the sleepers' ends work (Shut,  *)
(* Resting, Frugal).                                                       *)
(***************************************************************************)
EXTENDS DispatchProofs

-----------------------------------------------------------------------------
(* Counting the elements of sequences.                                     *)
LEMMA NumberConcat ==
    ASSUME NEW S, NEW s \in Seq(S), NEW t \in Seq(S), NEW P
    PROVE  Number(s \o t, P) = Number(s, P) + Number(t, P)
  <1> DEFINE n == Len(s)
             A == {k \in DOMAIN s : s[k] \in P}
             B == {k \in DOMAIN t : t[k] \in P}
             C == {k \in n + 1..n + Len(t) : (s \o t)[k] \in P}
             D == {k \in DOMAIN (s \o t) : (s \o t)[k] \in P}
             g == [k \in B |-> n + k]
  <1>1. /\ n \in Nat /\ Len(t) \in Nat /\ DOMAIN s = 1..n /\ DOMAIN t = 1..Len(t)
        /\ s \o t \in Seq(S) /\ Len(s \o t) = n + Len(t)
        /\ \A k \in 1..n : (s \o t)[k] = s[k]
        /\ \A k \in n + 1..n + Len(t) : (s \o t)[k] = t[k - n]
    <2>1. /\ s \o t \in Seq(S) /\ Len(s \o t) = Len(s) + Len(t)
          /\ \A k \in 1..Len(s) + Len(t) : (s \o t)[k] = IF k <= Len(s) THEN s[k] ELSE t[k - Len(s)]
      BY ConcatProperties
    <2>2. n \in Nat /\ Len(t) \in Nat /\ DOMAIN s = 1..n /\ DOMAIN t = 1..Len(t)
      BY LenProperties
    <2> QED
      BY <2>1, <2>2
  <1>2. DOMAIN (s \o t) = 1..n + Len(t)
    BY <1>1, LenProperties
  <1>3. D = A \cup C /\ A \cap C = {}
    BY <1>1, <1>2
  <1>4. IsFiniteSet(A) /\ IsFiniteSet(B)
    <2>1. IsFiniteSet(1..n) /\ IsFiniteSet(1..Len(t))
      BY <1>1, FS_Interval
    <2>2. A \in SUBSET (1..n) /\ B \in SUBSET (1..Len(t))
      BY <1>1
    <2> QED
      BY <2>1, <2>2, FS_Subset
  <1>5. ExistsBijection(B, C)
    <2>1. \A k \in B : n + k \in C
      BY <1>1
    <2>2. \A k \in C : k - n \in B /\ n + (k - n) = k
      BY <1>1
    <2>3. \A j, k \in B : n + j = n + k => j = k
      BY <1>1
    <2> HIDE DEF B, C, n
    <2>4. g \in [B -> C]
      BY <2>1
    <2>5. g \in Injection(B, C)
      BY <2>3, <2>4 DEF Injection, IsInjective
    <2>6. g \in Surjection(B, C)
      <3>1. \A k \in C : \E j \in B : g[j] = k
        BY <2>2
      <3> QED
        BY <2>4, <3>1 DEF Surjection
    <2> QED
      BY <2>5, <2>6 DEF ExistsBijection, Bijection
  <1>6. IsFiniteSet(C) /\ Cardinality(C) = Cardinality(B)
    BY <1>4, <1>5, FS_Bijection
  <1>7. Cardinality(D) = Cardinality(A) + Cardinality(C)
    <2> HIDE DEF A, C, D
    <2>1. Cardinality(A \cup C) = Cardinality(A) + Cardinality(C) - Cardinality(A \cap C)
      BY <1>4, <1>6, FS_Union
    <2>2. Cardinality(A \cap C) = 0
      BY <1>3, FS_EmptySet
    <2>3. Cardinality(A) \in Nat /\ Cardinality(C) \in Nat
      BY <1>4, <1>6, FS_CardinalityType
    <2> QED
      BY <1>3, <2>1, <2>2, <2>3
  <1>8. Number(s \o t, P) = Cardinality(D) /\ Number(s, P) = Cardinality(A)
        /\ Number(t, P) = Cardinality(B)
    BY DEF Number
  <1> QED
    BY <1>6, <1>7, <1>8

(* The places in the vectors of the k-th frame.                            *)
Row(k, f, P) == {k} \X {j \in DOMAIN Vectors(f) : Vectors(f)[j] \in P}

LEMMA VectorsType ==
    ASSUME NEW f \in Frame
    PROVE  /\ f.rest \in Seq(Item) /\ f.held \in Seq(Item) /\ Vectors(f) \in Seq(Item)
  <1>1. f.rest \in Seq(Item) /\ f.held \in Seq(Item)
    BY DEF Frame
  <1> QED
    BY <1>1, ConcatProperties DEF Vectors

LEMMA RowFacts ==
    ASSUME NEW f \in Frame, NEW k, NEW P
    PROVE  /\ IsFiniteSet(Row(k, f, P))
           /\ Cardinality(Row(k, f, P)) = Number(f.rest, P) + Number(f.held, P)
  <1> DEFINE v == Vectors(f)
             H == {j \in DOMAIN v : v[j] \in P}
  <1>1. f.rest \in Seq(Item) /\ f.held \in Seq(Item) /\ v \in Seq(Item)
    BY VectorsType
  <1>2. IsFiniteSet(H)
    <2>1. Len(v) \in Nat /\ DOMAIN v = 1..Len(v)
      BY <1>1, LenProperties
    <2>2. IsFiniteSet(1..Len(v)) /\ H \in SUBSET (1..Len(v))
      BY <2>1, FS_Interval
    <2> QED
      BY <2>2, FS_Subset
  <1>3. Cardinality(H) = Number(f.rest, P) + Number(f.held, P)
    <2>1. Number(v, P) = Number(f.rest, P) + Number(f.held, P)
      BY <1>1, NumberConcat DEF Vectors
    <2> QED
      BY <2>1 DEF Number
  <1>4. IsFiniteSet({k}) /\ Cardinality({k}) = 1
    BY FS_Singleton
  <1>5. Cardinality(H) \in Nat
    BY <1>2, FS_CardinalityType
  <1>6. Row(k, f, P) = {k} \X H
    BY DEF Row
  <1> HIDE DEF H
  <1>7. IsFiniteSet({k} \X H) /\ Cardinality({k} \X H) = Cardinality({k}) * Cardinality(H)
    BY <1>2, <1>4, FS_Product
  <1>8. Cardinality({k} \X H) = Cardinality(H)
    BY <1>4, <1>5, <1>7
  <1> QED
    BY <1>3, <1>6, <1>7, <1>8

LEMMA TakenFinite ==
    ASSUME NEW s \in Seq(Frame), NEW P
    PROVE  IsFiniteSet(UNION {Row(k, s[k], P) : k \in DOMAIN s})
  <1> DEFINE R == {Row(k, s[k], P) : k \in DOMAIN s}
             g == [k \in DOMAIN s |-> Row(k, s[k], P)]
  <1>1. Len(s) \in Nat /\ DOMAIN s = 1..Len(s) /\ \A k \in DOMAIN s : s[k] \in Frame
    BY LenProperties, ElementOfSeq
  <1>2. IsFiniteSet(DOMAIN s)
    BY <1>1, FS_Interval
  <1>3. g \in Surjection(DOMAIN s, R)
    BY DEF Surjection
  <1>4. \A T \in R : IsFiniteSet(T)
    BY <1>1, RowFacts
  <1> HIDE DEF R, g
  <1>5. IsFiniteSet(R)
    BY <1>2, <1>3, FS_Surjection
  <1>6. IsFiniteSet(UNION R)
    BY <1>4, <1>5, FS_UNION
  <1> QED
    BY <1>6 DEF R

LEMMA TakenRows ==
    ASSUME NEW s, NEW P
    PROVE  NumberTaken(s, P) = Cardinality(UNION {Row(k, s[k], P) : k \in DOMAIN s})
  BY DEF NumberTaken, Row

LEMMA TakenEmpty == ASSUME NEW P PROVE NumberTaken(<<>>, P) = 0
  <1>1. UNION {Row(k, <<>>[k], P) : k \in DOMAIN <<>>} = {}
    OBVIOUS
  <1> QED
    BY <1>1, TakenRows, FS_EmptySet

LEMMA TakenPush ==
    ASSUME NEW s \in Seq(Frame), NEW f \in Frame, NEW P
    PROVE  /\ NumberTaken(s, P) \in Nat
           /\ NumberTaken(Append(s, f), P) = NumberTaken(s, P) + Number(f.rest, P) + Number(f.held, P)
  <1> DEFINE n == Len(s) + 1
             t == Append(s, f)
             A == UNION {Row(k, s[k], P) : k \in DOMAIN s}
             B == UNION {Row(k, t[k], P) : k \in DOMAIN t}
             C == Row(n, f, P)
  <1>1. /\ Len(s) \in Nat /\ DOMAIN s = 1..Len(s) /\ DOMAIN t = 1..n
        /\ t[n] = f /\ \A k \in 1..Len(s) : t[k] = s[k]
    BY AppendProperties, LenProperties
  <1>2. n \in DOMAIN t /\ \A k \in DOMAIN t : k \in DOMAIN s \/ k = n
    BY <1>1
  <1>3. \A k \in DOMAIN s : k \in DOMAIN t /\ t[k] = s[k] /\ k # n
    BY <1>1
  <1> HIDE DEF t, n
  <1>4. B = A \cup C
    <2>1. \A x \in B : x \in A \cup C
      <3> TAKE x \in B
      <3>1. PICK k \in DOMAIN t : x \in Row(k, t[k], P)
        OBVIOUS
      <3>2. CASE k = n
        BY <1>1, <3>1, <3>2
      <3>3. CASE k \in DOMAIN s
        BY <1>3, <3>1, <3>3
      <3> QED
        BY <1>2, <3>2, <3>3
    <2>2. \A x \in A : x \in B
      BY <1>3
    <2>3. \A x \in C : x \in B
      BY <1>1, <1>2
    <2> QED
      BY <2>1, <2>2, <2>3
  <1>5. A \cap C = {}
    <2> SUFFICES ASSUME NEW x \in A, x \in C PROVE FALSE
      OBVIOUS
    <2>1. PICK k \in DOMAIN s : x \in Row(k, s[k], P)
      OBVIOUS
    <2>2. x[1] = k /\ x[1] = n
      BY <2>1 DEF Row
    <2> QED
      BY <1>3, <2>2
  <1>6. IsFiniteSet(A)
    BY TakenFinite
  <1>7. IsFiniteSet(C) /\ Cardinality(C) = Number(f.rest, P) + Number(f.held, P)
    BY RowFacts
  <1>8. NumberTaken(s, P) = Cardinality(A) /\ NumberTaken(t, P) = Cardinality(B)
    BY TakenRows
  <1> HIDE DEF A, B, C
  <1>9. Cardinality(A) \in Nat /\ Cardinality(C) \in Nat
    BY <1>6, <1>7, FS_CardinalityType
  <1>10. Cardinality(A \cup C) = Cardinality(A) + Cardinality(C) - Cardinality(A \cap C)
    BY <1>6, <1>7, FS_Union
  <1>11. Cardinality(A \cap C) = 0
    BY <1>5, FS_EmptySet
  <1>12. f.rest \in Seq(Item) /\ f.held \in Seq(Item)
    BY VectorsType
  <1>13. Number(f.rest, P) \in Nat /\ Number(f.held, P) \in Nat
    BY <1>12, NumberIsNat
  <1>14. NumberTaken(t, P) = NumberTaken(s, P) + Number(f.rest, P) + Number(f.held, P)
    BY <1>4, <1>7, <1>8, <1>9, <1>10, <1>11, <1>13
  <1> QED
    BY <1>8, <1>9, <1>14 DEF t

-----------------------------------------------------------------------------
(* The requests i of d in a stack, and what one frame adds to them.        *)
StackLoad(s, d, i) == NumberTaken(s, RequestItem(d, i)) + Number(s, RequestHandler(d, i))

Weight(f, d, i) ==
    Number(f.rest, RequestItem(d, i)) + Number(f.held, RequestItem(d, i))
        + (IF f \in RequestHandler(d, i) THEN 1 ELSE 0)

(* Unanswered, of any incoming messages, queue and stack.                  *)
Load(d, i, in, q, s) ==
    Number(in, Request(i)) + Number(q, RequestItem(d, i)) + StackLoad(s, d, i)

LEMMA WeightIsNat ==
    ASSUME NEW f \in Frame, NEW d, NEW i
    PROVE  /\ Number(f.rest, RequestItem(d, i)) \in Nat
           /\ Number(f.held, RequestItem(d, i)) \in Nat
           /\ Weight(f, d, i) \in Nat
  <1>1. f.rest \in Seq(Item) /\ f.held \in Seq(Item)
    BY VectorsType
  <1>2. Number(f.rest, RequestItem(d, i)) \in Nat /\ Number(f.held, RequestItem(d, i)) \in Nat
    BY <1>1, NumberIsNat
  <1> QED
    BY <1>2 DEF Weight

LEMMA StackLoadEmpty == ASSUME NEW d, NEW i PROVE StackLoad(<<>>, d, i) = 0
  BY TakenEmpty, NumberOfEmpty DEF StackLoad

LEMMA StackLoadPush ==
    ASSUME NEW s \in Seq(Frame), NEW f \in Frame, NEW d, NEW i
    PROVE  /\ StackLoad(s, d, i) \in Nat /\ Weight(f, d, i) \in Nat
           /\ StackLoad(Append(s, f), d, i) = StackLoad(s, d, i) + Weight(f, d, i)
  <1> DEFINE I == RequestItem(d, i)
             H == RequestHandler(d, i)
  <1>1. /\ NumberTaken(s, I) \in Nat
        /\ NumberTaken(Append(s, f), I) = NumberTaken(s, I) + Number(f.rest, I) + Number(f.held, I)
    BY TakenPush
  <1>2. /\ Number(s, H) \in Nat
        /\ Number(Append(s, f), H) = Number(s, H) + IF f \in H THEN 1 ELSE 0
    BY NumberIsNat, NumberAppend
  <1>3. Number(f.rest, I) \in Nat /\ Number(f.held, I) \in Nat /\ Weight(f, d, i) \in Nat
    BY WeightIsNat
  <1>4. Weight(f, d, i) = Number(f.rest, I) + Number(f.held, I) + IF f \in H THEN 1 ELSE 0
    BY DEF Weight
  <1>5. /\ StackLoad(s, d, i) = NumberTaken(s, I) + Number(s, H)
        /\ StackLoad(Append(s, f), d, i) = NumberTaken(Append(s, f), I) + Number(Append(s, f), H)
    BY DEF StackLoad
  <1> HIDE DEF I, H
  <1> QED
    BY <1>1, <1>2, <1>3, <1>4, <1>5

LEMMA StackLoadPop ==
    ASSUME NEW s \in Seq(Frame), s # <<>>, NEW d, NEW i
    PROVE  /\ StackLoad(Front(s), d, i) \in Nat /\ Weight(Last(s), d, i) \in Nat
           /\ StackLoad(s, d, i) = StackLoad(Front(s), d, i) + Weight(Last(s), d, i)
  <1>1. Front(s) \in Seq(Frame) /\ Last(s) \in Frame
    BY FrontFacts
  <1>2. s = Append(Front(s), Last(s))
    BY AppendFront
  <1>3. /\ StackLoad(Front(s), d, i) \in Nat /\ Weight(Last(s), d, i) \in Nat
        /\ StackLoad(Append(Front(s), Last(s)), d, i) =
               StackLoad(Front(s), d, i) + Weight(Last(s), d, i)
    BY <1>1, StackLoadPush
  <1> QED
    BY <1>2, <1>3, Zenon

LEMMA StackLoadIsNat ==
    ASSUME NEW s \in Seq(Frame), NEW d, NEW i PROVE StackLoad(s, d, i) \in Nat
  <1>1. CASE s = <<>>
    BY <1>1, StackLoadEmpty
  <1>2. CASE s # <<>>
    BY <1>2, StackLoadPop
  <1> QED
    BY <1>1, <1>2

(* The frames that hold a request: a handler holds its message, a          *)
(* dispatchMessages its vectors, a waitForSyncReply nothing.               *)
LEMMA PlainWeight ==
    ASSUME NEW f \in Frame, f.rest = <<>>, f.held = <<>>, NEW d, NEW i
    PROVE  Weight(f, d, i) = IF f.kind = "handler" /\ f.conn = d /\ f.msg \in Request(i) THEN 1 ELSE 0
  <1>1. Number(f.rest, RequestItem(d, i)) = 0 /\ Number(f.held, RequestItem(d, i)) = 0
    BY NumberOfEmpty
  <1> QED
    BY <1>1 DEF Weight, RequestHandler

LEMMA BatchWeight ==
    ASSUME NEW f \in Frame, f.kind # "handler", NEW d, NEW i
    PROVE  Weight(f, d, i) = Number(f.rest, RequestItem(d, i)) + Number(f.held, RequestItem(d, i))
  BY WeightIsNat DEF Weight, RequestHandler

-----------------------------------------------------------------------------
(* The tokens of a request, part by part.                                  *)
LEMMA LoadParts ==
    ASSUME NEW in \in Seq(Msg), NEW q \in Seq(Item), NEW s \in Seq(Frame), NEW d, NEW i
    PROVE  /\ Number(in, Request(i)) \in Nat /\ Number(q, RequestItem(d, i)) \in Nat
           /\ StackLoad(s, d, i) \in Nat /\ Load(d, i, in, q, s) \in Nat
           /\ Number(in, Request(i)) + Number(q, RequestItem(d, i))
                + NumberTaken(s, RequestItem(d, i)) + Number(s, RequestHandler(d, i))
              = Load(d, i, in, q, s)
  <1>1. /\ Number(in, Request(i)) \in Nat /\ Number(q, RequestItem(d, i)) \in Nat
        /\ Number(s, RequestHandler(d, i)) \in Nat
    BY NumberIsNat
  <1>2. NumberTaken(s, RequestItem(d, i)) \in Nat
    BY TakenFinite, TakenRows, FS_CardinalityType
  <1>3. StackLoad(s, d, i) = NumberTaken(s, RequestItem(d, i)) + Number(s, RequestHandler(d, i))
    BY DEF StackLoad
  <1>4. Load(d, i, in, q, s) =
            Number(in, Request(i)) + Number(q, RequestItem(d, i)) + StackLoad(s, d, i)
    BY DEF Load
  <1> QED
    BY <1>1, <1>2, <1>3, <1>4

PartSums(d, i) ==
    /\ Number(outgoing[d], Request(i)) \in Nat /\ Number(wire[d], Request(i)) \in Nat
    /\ Number(outgoing[d], ReplyTo(i)) \in Nat /\ Number(wire[d], ReplyTo(i)) \in Nat
    /\ Load(d, i, incoming[d], toDispatch[ProcOf[d]], stack[ProcOf[d]]) \in Nat
    /\ Unanswered(d, i) \in Nat
    /\ Unanswered(d, i) = Load(d, i, incoming[d], toDispatch[ProcOf[d]], stack[ProcOf[d]])
                              + IF i \in delayed[d] THEN 1 ELSE 0

TokenSums(c, i) ==
    /\ Tokens(c, i) \in Nat
    /\ Tokens(c, i) = Number(outgoing[c], Request(i)) + Number(wire[Peer[c]], Request(i))
                        + Unanswered(Peer[c], i)
                        + Number(outgoing[Peer[c]], ReplyTo(i)) + Number(wire[c], ReplyTo(i))

LEMMA Parts ==
    ASSUME IInv, NEW d \in Conn, NEW i \in Nat PROVE PartSums(d, i)
  <1> DEFINE p == ProcOf[d]
  <1>1. /\ outgoing[d] \in Seq(Msg) /\ wire[d] \in Seq(Msg) /\ incoming[d] \in Seq(Msg)
        /\ p \in Proc /\ toDispatch[p] \in Seq(Item) /\ stack[p] \in Seq(Frame)
    BY ConnAssumption DEF IInv, ConnTypes, WaitTypes
  <1>2. Unanswered(d, i) = Number(incoming[d], Request(i)) + Number(toDispatch[p], RequestItem(d, i))
                             + NumberTaken(stack[p], RequestItem(d, i))
                             + Number(stack[p], RequestHandler(d, i))
                             + IF i \in delayed[d] THEN 1 ELSE 0
    BY DEF Unanswered
  <1> HIDE DEF p
  <1>3. /\ Number(outgoing[d], Request(i)) \in Nat /\ Number(wire[d], Request(i)) \in Nat
        /\ Number(outgoing[d], ReplyTo(i)) \in Nat /\ Number(wire[d], ReplyTo(i)) \in Nat
    BY <1>1, NumberIsNat
  <1>4. /\ Load(d, i, incoming[d], toDispatch[p], stack[p]) \in Nat
        /\ Number(incoming[d], Request(i)) + Number(toDispatch[p], RequestItem(d, i))
             + NumberTaken(stack[p], RequestItem(d, i)) + Number(stack[p], RequestHandler(d, i))
           = Load(d, i, incoming[d], toDispatch[p], stack[p])
    BY <1>1, LoadParts
  <1>5. Unanswered(d, i) = Load(d, i, incoming[d], toDispatch[p], stack[p])
                             + IF i \in delayed[d] THEN 1 ELSE 0
    BY <1>2, <1>4
  <1>6. Unanswered(d, i) \in Nat
    BY <1>4, <1>5
  <1> QED
    BY <1>3, <1>4, <1>5, <1>6 DEF p, PartSums

LEMMA PeerFacts ==
    ASSUME NEW c \in Conn PROVE Peer[c] \in Conn /\ Peer[Peer[c]] = c /\ Peer[c] # c
  BY ConnAssumption

LEMMA Sums == IInv => \A c \in Conn, i \in Nat : PartSums(c, i) /\ TokenSums(c, i)
  <1> SUFFICES ASSUME IInv, NEW c \in Conn, NEW i \in Nat PROVE PartSums(c, i) /\ TokenSums(c, i)
    OBVIOUS
  <1> DEFINE d == Peer[c]
  <1>1. d \in Conn
    BY PeerFacts
  <1>2. Tokens(c, i) = Number(outgoing[c], Request(i)) + Number(wire[d], Request(i))
                         + Unanswered(d, i)
                         + Number(outgoing[d], ReplyTo(i)) + Number(wire[c], ReplyTo(i))
    BY DEF Tokens
  <1> HIDE DEF d
  <1>3. /\ Number(outgoing[c], Request(i)) \in Nat /\ Number(wire[d], Request(i)) \in Nat
        /\ Unanswered(d, i) \in Nat
        /\ Number(outgoing[d], ReplyTo(i)) \in Nat /\ Number(wire[c], ReplyTo(i)) \in Nat
    BY <1>1, Parts DEF PartSums
  <1>4. Tokens(c, i) \in Nat
    BY <1>2, <1>3
  <1>5. TokenSums(c, i)
    BY <1>2, <1>4 DEF d, TokenSums
  <1> QED
    BY <1>5, Parts

(* The same of the next state.                                             *)
LEMMA NextSums == IInv' => (\A c \in Conn, i \in Nat : PartSums(c, i) /\ TokenSums(c, i))'
  BY Sums, PTL

-----------------------------------------------------------------------------
(* The inductive invariant.  A request is in one place at most, and        *)
(* nowhere before it is sent, and after its reply has come; and while both *)
(* ends work, the request of a waiting call is somewhere.                  *)
Unsent(c, i) ==
    \/ i > requestID[c]
    \/ secondary[c].pc = "send" /\ secondary[c].id = i

Account(c, i) ==
    /\ Tokens(c, i) <= 1
    /\ Unsent(c, i) \/ InCall(c, i, TRUE) => Tokens(c, i) = 0
    /\ InCall(c, i, FALSE) /\ Works(c) /\ Works(Peer[c]) => Tokens(c, i) = 1

(* The identifiers of the calls have been given out, and the call of the   *)
(* secondary thread has its own, and no reply before it is sent.           *)
Identified(c) ==
    /\ \A k \in DOMAIN pending[c] : pending[c][k].id <= requestID[c]
    /\ secondary[c].pc # "idle" =>
           /\ secondary[c].id <= requestID[c]
           /\ \A k \in DOMAIN pending[c] : pending[c][k].id # secondary[c].id
    /\ secondary[c].pc = "send" => ~secondary[c].got

(* A failure that was spent is not in any budget any more.                 *)
Spent == \E b \in Budgets : \A c \in Conn : left[c]["fail"] <= b[c]["fail"]

RInv == /\ Spent
        /\ \A c \in Conn : Identified(c) /\ \A i \in Nat : Account(c, i)

(* What was said of this state holds of the next one, as far as it goes:   *)
(* an end that works worked before.                                        *)
Wears(c) ==
    /\ client'[c] => client[c]
    /\ connected'[c] => connected[c]
    /\ alive'[ProcOf[c]] => alive[ProcOf[c]]
    /\ left'[c]["fail"] <= left[c]["fail"]

LEMMA WornOut ==
    ASSUME IInv, IInv', Spent, \A c \in Conn : Wears(c)
    PROVE  /\ Spent'
           /\ \A c \in Conn : Works(c)' => Works(c) /\ client'[c] /\ connected'[c]
                                          /\ left'[c]["fail"] = left[c]["fail"]
  <1>1. PICK b \in Budgets : \A c \in Conn : left[c]["fail"] <= b[c]["fail"]
    BY DEF Spent
  <1>2. "fail" \in Ops
    BY DEF Ops
  <1>3. \A c \in Conn : \A a \in Budgets : a[c]["fail"] \in Nat
    BY <1>2, ConnAssumption
  <1>4. \A c \in Conn : left[c]["fail"] \in Nat /\ left'[c]["fail"] \in Nat
    BY <1>2 DEF IInv, ConnTypes
  <1>5. \A c \in Conn : left'[c]["fail"] <= left[c]["fail"]
    BY DEF Wears
  <1>6. \A c \in Conn : left'[c]["fail"] <= b[c]["fail"]
    BY <1>1, <1>3, <1>4, <1>5
  <1>7. ASSUME NEW c \in Conn, Works(c)'
        PROVE  Works(c) /\ client'[c] /\ connected'[c] /\ left'[c]["fail"] = left[c]["fail"]
    <2>1. /\ client'[c] /\ connected'[c] /\ alive'[ProcOf[c]]
          /\ \A a \in Budgets : left'[c]["fail"] = a[c]["fail"]
      BY <1>7 DEF Works
    <2>2. client[c] /\ connected[c] /\ alive[ProcOf[c]]
      BY <2>1 DEF Wears
    <2>3. left'[c]["fail"] = left[c]["fail"]
      BY <1>1, <1>3, <1>4, <1>5, <2>1
    <2> QED
      BY <2>1, <2>2, <2>3 DEF Works
  <1> QED
    BY <1>6, <1>7 DEF Spent

(* A step that moves the requests of c, or loses some when an end of the   *)
(* connection does not work any more, and begins no call.                  *)
Flows(c) ==
    \A i \in Nat : /\ Tokens(c, i)' <= Tokens(c, i)
                   /\ Works(c)' /\ Works(Peer[c])' => Tokens(c, i)' = Tokens(c, i)

Calm(c) ==
    \A i \in Nat : /\ Unsent(c, i)' => Unsent(c, i)
                   /\ \A got \in BOOLEAN : InCall(c, i, got)' => InCall(c, i, got)

LEMMA FlowKeeps ==
    ASSUME IInv, IInv', RInv, \A c \in Conn : Wears(c), NEW c \in Conn, Flows(c), Calm(c),
           NEW i \in Nat
    PROVE  Account(c, i)'
  <1>1. Account(c, i) /\ Spent /\ Peer[c] \in Conn
    BY PeerFacts DEF RInv
  <1>2. Works(c)' /\ Works(Peer[c])' => Works(c) /\ Works(Peer[c])
    BY <1>1, WornOut
  <1>3. Tokens(c, i) \in Nat /\ Tokens(c, i)' \in Nat
    BY Sums, NextSums DEF TokenSums
  <1>4. /\ Tokens(c, i)' <= Tokens(c, i)
        /\ Works(c)' /\ Works(Peer[c])' => Tokens(c, i)' = Tokens(c, i)
    BY DEF Flows
  <1>5. Tokens(c, i)' <= 1
    BY <1>1, <1>3, <1>4 DEF Account
  <1>6. ASSUME (Unsent(c, i) \/ InCall(c, i, TRUE))' PROVE Tokens(c, i)' = 0
    <2>1. Unsent(c, i) \/ InCall(c, i, TRUE)
      BY <1>6 DEF Calm
    <2>2. Tokens(c, i) = 0
      BY <1>1, <2>1 DEF Account
    <2> QED
      BY <1>3, <1>4, <2>2
  <1>7. ASSUME InCall(c, i, FALSE)', Works(c)', Works(Peer[c])' PROVE Tokens(c, i)' = 1
    BY <1>1, <1>2, <1>4, <1>7 DEF Calm, Account
  <1> QED
    BY <1>5, <1>6, <1>7 DEF Account

(* The places of an end: x sends its requests and reads their replies, and *)
(* it holds the requests of the other end that it reads and has not        *)
(* answered.                                                               *)
Holds(x, i) ==
    Number(wire[x], Request(i)) + Unanswered(x, i) + Number(outgoing[x], ReplyTo(i))

OwnKept(x, i) ==
    /\ Number(outgoing[x], Request(i))' <= Number(outgoing[x], Request(i))
    /\ Number(wire[x], ReplyTo(i))' <= Number(wire[x], ReplyTo(i))
    /\ Works(x)' => /\ Number(outgoing[x], Request(i))' = Number(outgoing[x], Request(i))
                    /\ Number(wire[x], ReplyTo(i))' = Number(wire[x], ReplyTo(i))

HeldKept(x, i) ==
    /\ Holds(x, i)' <= Holds(x, i)
    /\ Works(x)' => Holds(x, i)' = Holds(x, i)

KeptAll == \A x \in Conn, i \in Nat : OwnKept(x, i) /\ HeldKept(x, i)

HoldSums(x, i) ==
    /\ Number(outgoing[x], Request(i)) \in Nat /\ Number(wire[x], ReplyTo(i)) \in Nat
    /\ Number(wire[x], Request(i)) \in Nat /\ Number(outgoing[x], ReplyTo(i)) \in Nat
    /\ Unanswered(x, i) \in Nat
    /\ Holds(x, i) \in Nat
    /\ Holds(x, i) = Number(wire[x], Request(i)) + Unanswered(x, i) + Number(outgoing[x], ReplyTo(i))

SplitTokens(c, i) ==
    /\ Tokens(c, i) \in Nat
    /\ Tokens(c, i) = Number(outgoing[c], Request(i)) + Holds(Peer[c], i) + Number(wire[c], ReplyTo(i))

LEMMA Splits == IInv => \A c \in Conn, i \in Nat : HoldSums(c, i) /\ SplitTokens(c, i)
  <1> SUFFICES ASSUME IInv, NEW c \in Conn, NEW i \in Nat PROVE HoldSums(c, i) /\ SplitTokens(c, i)
    OBVIOUS
  <1>1. ASSUME NEW x \in Conn PROVE HoldSums(x, i)
    <2>1. PartSums(x, i)
      BY Sums
    <2>2. Holds(x, i) = Number(wire[x], Request(i)) + Unanswered(x, i) + Number(outgoing[x], ReplyTo(i))
      BY DEF Holds
    <2>3. /\ Number(outgoing[x], Request(i)) \in Nat /\ Number(wire[x], ReplyTo(i)) \in Nat
          /\ Number(wire[x], Request(i)) \in Nat /\ Number(outgoing[x], ReplyTo(i)) \in Nat
          /\ Unanswered(x, i) \in Nat
      BY <2>1 DEF PartSums
    <2>4. Holds(x, i) \in Nat
      BY <2>2, <2>3
    <2> QED
      BY <2>2, <2>3, <2>4 DEF HoldSums
  <1>2. Peer[c] \in Conn
    BY PeerFacts
  <1>3. HoldSums(c, i) /\ HoldSums(Peer[c], i) /\ TokenSums(c, i)
    BY <1>1, <1>2, Sums
  <1>4. SplitTokens(c, i)
    BY <1>3 DEF SplitTokens, HoldSums, TokenSums
  <1> QED
    BY <1>3, <1>4

LEMMA NextSplits == IInv' => (\A c \in Conn, i \in Nat : HoldSums(c, i) /\ SplitTokens(c, i))'
  BY Splits, PTL

LEMMA KeptFlows ==
    ASSUME IInv, IInv', NEW c \in Conn, \A i \in Nat : OwnKept(c, i) /\ HeldKept(Peer[c], i)
    PROVE  Flows(c)
  <1> SUFFICES ASSUME NEW i \in Nat
               PROVE  /\ Tokens(c, i)' <= Tokens(c, i)
                      /\ Works(c)' /\ Works(Peer[c])' => Tokens(c, i)' = Tokens(c, i)
    BY DEF Flows
  <1>1. Peer[c] \in Conn
    BY PeerFacts
  <1>2. /\ Number(outgoing[c], Request(i)) \in Nat /\ Number(wire[c], ReplyTo(i)) \in Nat
        /\ Holds(Peer[c], i) \in Nat /\ Tokens(c, i) \in Nat
        /\ Tokens(c, i) = Number(outgoing[c], Request(i)) + Holds(Peer[c], i) + Number(wire[c], ReplyTo(i))
    BY <1>1, Splits DEF HoldSums, SplitTokens
  <1>3. /\ Number(outgoing[c], Request(i))' \in Nat /\ Number(wire[c], ReplyTo(i))' \in Nat
        /\ Holds(Peer[c], i)' \in Nat /\ Tokens(c, i)' \in Nat
        /\ Tokens(c, i)' = Number(outgoing[c], Request(i))' + Holds(Peer[c], i)' + Number(wire[c], ReplyTo(i))'
    BY <1>1, NextSplits DEF HoldSums, SplitTokens
  <1>4. /\ Number(outgoing[c], Request(i))' <= Number(outgoing[c], Request(i))
        /\ Number(wire[c], ReplyTo(i))' <= Number(wire[c], ReplyTo(i))
        /\ Holds(Peer[c], i)' <= Holds(Peer[c], i)
    BY DEF OwnKept, HeldKept
  <1>5. ASSUME Works(c)', Works(Peer[c])' PROVE Tokens(c, i)' = Tokens(c, i)
    BY <1>2, <1>3, <1>5 DEF OwnKept, HeldKept
  <1> QED
    BY <1>2, <1>3, <1>4, <1>5

(* An end that the step does not touch.                                    *)
Untouched(x) ==
    /\ outgoing'[x] = outgoing[x] /\ wire'[x] = wire[x] /\ incoming'[x] = incoming[x]
    /\ delayed'[x] = delayed[x]
    /\ toDispatch'[ProcOf[x]] = toDispatch[ProcOf[x]] /\ stack'[ProcOf[x]] = stack[ProcOf[x]]

LEMMA UntouchedKept ==
    ASSUME IInv, NEW x \in Conn, Untouched(x), NEW i \in Nat
    PROVE  OwnKept(x, i) /\ HeldKept(x, i) /\ Unanswered(x, i)' = Unanswered(x, i)
  <1>1. Unanswered(x, i)' = Unanswered(x, i)
    BY DEF Unanswered, Untouched
  <1>2. Holds(x, i)' = Holds(x, i)
    BY <1>1 DEF Holds, Untouched
  <1>3. /\ Number(outgoing[x], Request(i)) \in Nat /\ Number(wire[x], ReplyTo(i)) \in Nat
        /\ Holds(x, i) \in Nat
    BY Splits DEF HoldSums
  <1>4. /\ Number(outgoing[x], Request(i))' = Number(outgoing[x], Request(i))
        /\ Number(wire[x], ReplyTo(i))' = Number(wire[x], ReplyTo(i))
    BY DEF Untouched
  <1> QED
    BY <1>1, <1>2, <1>3, <1>4 DEF OwnKept, HeldKept

(* The steps of the main thread of p move requests between the queues of   *)
(* its connections and its stack, and lose one only when the connection is *)
(* invalid.                                                                *)
LoadKept(x, i) ==
    LET p    == ProcOf[x]
        now  == Load(x, i, incoming[x], toDispatch[p], stack[p])
        next == Load(x, i, incoming'[x], toDispatch'[p], stack'[p])
    IN  next <= now /\ (client'[x] => next = now)

LEMMA MainKeepsAll ==
    ASSUME IInv, IInv', NEW p \in Proc, UNCHANGED <<outgoing, wire, delayed>>,
           Same(stack, stack', p), Same(toDispatch, toDispatch', p),
           SameConn(incoming, incoming', p),
           \A x \in Home(p), i \in Nat : LoadKept(x, i)
    PROVE  KeptAll
  <1> SUFFICES ASSUME NEW x \in Conn, NEW i \in Nat PROVE OwnKept(x, i) /\ HeldKept(x, i)
    BY DEF KeptAll
  <1>1. CASE ProcOf[x] # p
    <2>1. ProcOf[x] \in Proc
      BY ConnAssumption
    <2>2. Untouched(x)
      BY <1>1, <2>1 DEF Untouched, Same, SameConn
    <2> QED
      BY <2>2, UntouchedKept
  <1>2. CASE ProcOf[x] = p
    <2> DEFINE now == Load(x, i, incoming[x], toDispatch[ProcOf[x]], stack[ProcOf[x]])
               next == Load(x, i, incoming'[x], toDispatch'[ProcOf[x]], stack'[ProcOf[x]])
    <2>1. LoadKept(x, i)
      BY <1>2 DEF Home
    <2>2. next <= now /\ (client'[x] => next = now)
      BY <2>1 DEF LoadKept
    <2>3. now \in Nat /\ Unanswered(x, i) = now + IF i \in delayed[x] THEN 1 ELSE 0
      BY Sums DEF PartSums
    <2>4. next \in Nat /\ Unanswered(x, i)' = next + IF i \in delayed[x] THEN 1 ELSE 0
      BY NextSums DEF PartSums
    <2> HIDE DEF now, next
    <2>5. Unanswered(x, i)' <= Unanswered(x, i) /\ (client'[x] => Unanswered(x, i)' = Unanswered(x, i))
      BY <2>2, <2>3, <2>4
    <2>6. /\ Unanswered(x, i) \in Nat /\ Unanswered(x, i)' \in Nat
      BY <2>3, <2>4
    <2>7. /\ Number(outgoing[x], Request(i)) \in Nat /\ Number(wire[x], ReplyTo(i)) \in Nat
          /\ Number(wire[x], Request(i)) \in Nat /\ Number(outgoing[x], ReplyTo(i)) \in Nat
      BY Splits DEF HoldSums
    <2>8. /\ Holds(x, i) = Number(wire[x], Request(i)) + Unanswered(x, i) + Number(outgoing[x], ReplyTo(i))
          /\ Holds(x, i)' = Number(wire[x], Request(i)) + Unanswered(x, i)' + Number(outgoing[x], ReplyTo(i))
      BY DEF Holds
    <2>9. Holds(x, i)' <= Holds(x, i) /\ (client'[x] => Holds(x, i)' = Holds(x, i))
      BY <2>5, <2>6, <2>7, <2>8
    <2>10. Works(x)' => client'[x]
      BY DEF Works
    <2>11. HeldKept(x, i)
      BY <2>9, <2>10 DEF HeldKept
    <2>12. OwnKept(x, i)
      BY <2>7 DEF OwnKept
    <2> QED
      BY <2>11, <2>12
  <1> QED
    BY <1>1, <1>2

LEMMA TopWeight ==
    ASSUME IInv, NEW p \in Proc, NEW kind, NEW pc, At(p, kind, pc)
    PROVE  /\ stack[p] # <<>> /\ stack[p] \in Seq(Frame) /\ Front(stack[p]) \in Seq(Frame)
           /\ Top(p) \in Frame /\ Top(p) \in GoodFrame(p) /\ Top(p) = Last(stack[p])
           /\ Top(p).kind = kind /\ Top(p).pc = pc
           /\ kind # "batch" => /\ Top(p).conn \in Conn /\ ProcOf[Top(p).conn] = p
                                /\ Top(p).rest = <<>> /\ Top(p).held = <<>>
           /\ \A x, i : /\ StackLoad(Front(stack[p]), x, i) \in Nat /\ Weight(Top(p), x, i) \in Nat
                        /\ StackLoad(stack[p], x, i) = StackLoad(Front(stack[p]), x, i) + Weight(Top(p), x, i)
                        /\ kind = "sync" => Weight(Top(p), x, i) = 0
  <1>1. WaitInv /\ GoodStack(p, stack[p])
    BY DEF IInv, WaitInv, Homes
  <1>2. /\ stack[p] # <<>> /\ Top(p) = Last(stack[p]) /\ Top(p) \in GoodFrame(p)
        /\ Top(p) \in Frame /\ Top(p).kind = kind /\ Top(p).pc = pc
        /\ kind # "batch" => Top(p).conn \in Home(p) /\ Top(p).conn \in Conn
    BY <1>1, TopFacts
  <1>3. stack[p] \in Seq(Frame) /\ Front(stack[p]) \in Seq(Frame)
    BY <1>1, <1>2, StackType, FrontFacts
  <1>4. kind # "batch" => Top(p).rest = <<>> /\ Top(p).held = <<>> /\ ProcOf[Top(p).conn] = p
    BY <1>2 DEF GoodFrame, Home
  <1>5. \A x, i : /\ StackLoad(Front(stack[p]), x, i) \in Nat /\ Weight(Top(p), x, i) \in Nat
                  /\ StackLoad(stack[p], x, i) = StackLoad(Front(stack[p]), x, i) + Weight(Top(p), x, i)
    BY <1>2, <1>3, StackLoadPop
  <1>6. ASSUME NEW x, NEW i, kind = "sync" PROVE Weight(Top(p), x, i) = 0
    <2>1. "sync" # "batch" /\ "sync" # "handler"
      OBVIOUS
    <2> QED
      BY <1>2, <1>4, <1>6, <2>1, PlainWeight
  <1> QED
    BY <1>2, <1>3, <1>4, <1>5, <1>6

StackKept(p, s) ==
    \A x \in Home(p), i \in Nat :
        /\ StackLoad(s, x, i) <= StackLoad(stack[p], x, i)
        /\ client'[x] => StackLoad(s, x, i) = StackLoad(stack[p], x, i)

LEMMA StackKeepsAll ==
    ASSUME IInv, IInv', NEW p \in Proc, UNCHANGED <<outgoing, wire, delayed, incoming, toDispatch>>,
           NEW s, stack' = [stack EXCEPT ![p] = s],
           StackKept(p, s)
    PROVE  KeptAll
  <1>1. stack'[p] = s /\ Same(stack, stack', p)
    BY StackOf
  <1>2. stack[p] \in Seq(Frame) /\ s \in Seq(Frame) /\ toDispatch[p] \in Seq(Item)
    BY <1>1 DEF IInv, WaitTypes
  <1>3. ASSUME NEW x \in Home(p), NEW i \in Nat PROVE LoadKept(x, i)
    <2>1. x \in Conn /\ ProcOf[x] = p /\ incoming[x] \in Seq(Msg)
      BY DEF Home, IInv, ConnTypes
    <2>2. /\ Number(incoming[x], Request(i)) \in Nat /\ Number(toDispatch[p], RequestItem(x, i)) \in Nat
          /\ StackLoad(stack[p], x, i) \in Nat /\ StackLoad(s, x, i) \in Nat
      BY <1>2, <2>1, LoadParts
    <2>3. /\ Load(x, i, incoming[x], toDispatch[p], stack[p]) =
                 Number(incoming[x], Request(i)) + Number(toDispatch[p], RequestItem(x, i))
                     + StackLoad(stack[p], x, i)
          /\ Load(x, i, incoming[x], toDispatch[p], s) =
                 Number(incoming[x], Request(i)) + Number(toDispatch[p], RequestItem(x, i))
                     + StackLoad(s, x, i)
      BY DEF Load
    <2>4. /\ Load(x, i, incoming[x], toDispatch[p], s) <= Load(x, i, incoming[x], toDispatch[p], stack[p])
          /\ client'[x] => Load(x, i, incoming[x], toDispatch[p], s)
                               = Load(x, i, incoming[x], toDispatch[p], stack[p])
      BY <2>2, <2>3 DEF StackKept
    <2> QED
      BY <1>1, <2>1, <2>4 DEF LoadKept
  <1> QED
    BY <1>1, <1>3, Unmoved, MainKeepsAll

(* A swap moves the messages of toDispatch to the stack.                   *)
LEMMA SwapKeepsAll ==
    ASSUME IInv, IInv', NEW p \in Proc, UNCHANGED <<outgoing, wire, delayed, incoming>>,
           NEW s, stack' = [stack EXCEPT ![p] = s], toDispatch' = [toDispatch EXCEPT ![p] = <<>>],
           \A x \in Home(p), i \in Nat :
               StackLoad(s, x, i) = StackLoad(stack[p], x, i) + Number(toDispatch[p], RequestItem(x, i))
    PROVE  KeptAll
  <1>1. stack'[p] = s /\ Same(stack, stack', p)
    BY StackOf
  <1>2. stack[p] \in Seq(Frame) /\ s \in Seq(Frame) /\ toDispatch[p] \in Seq(Item)
    BY <1>1 DEF IInv, WaitTypes
  <1>3. toDispatch'[p] = <<>> /\ Same(toDispatch, toDispatch', p)
    <2>1. toDispatch \in [Proc -> Seq(Item)]
      BY TaskTypes
    <2> QED
      BY <2>1 DEF Same
  <1>4. ASSUME NEW x \in Home(p), NEW i \in Nat PROVE LoadKept(x, i)
    <2>1. x \in Conn /\ ProcOf[x] = p /\ incoming[x] \in Seq(Msg)
      BY DEF Home, IInv, ConnTypes
    <2>2. /\ Number(incoming[x], Request(i)) \in Nat /\ Number(toDispatch[p], RequestItem(x, i)) \in Nat
          /\ StackLoad(stack[p], x, i) \in Nat
      BY <1>2, <2>1, LoadParts
    <2>3. /\ Load(x, i, incoming[x], toDispatch[p], stack[p]) =
                 Number(incoming[x], Request(i)) + Number(toDispatch[p], RequestItem(x, i))
                     + StackLoad(stack[p], x, i)
          /\ Load(x, i, incoming[x], <<>>, s) = Number(incoming[x], Request(i)) + 0 + StackLoad(s, x, i)
      BY NumberOfEmpty DEF Load
    <2>4. /\ Load(x, i, incoming[x], <<>>, s) = Load(x, i, incoming[x], toDispatch[p], stack[p])
          /\ Load(x, i, incoming[x], <<>>, s) \in Nat
      BY <2>2, <2>3
    <2> QED
      BY <1>1, <1>3, <2>1, <2>4 DEF LoadKept
  <1> QED
    BY <1>1, <1>3, <1>4, Unmoved, MainKeepsAll

(* A frame that is replaced by one with the same messages.                 *)
LEMMA SameVectors ==
    ASSUME NEW f \in Frame, NEW g \in Frame, g.kind = f.kind, g.conn = f.conn, g.msg = f.msg,
           g.rest = f.rest, g.held = f.held, NEW x, NEW i
    PROVE  Weight(g, x, i) = Weight(f, x, i)
  BY DEF Weight, RequestHandler

LEMMA ReplaceKeepsAll ==
    ASSUME IInv, IInv', NEW p \in Proc, NEW kind, NEW pc, At(p, kind, pc),
           UNCHANGED <<outgoing, wire, delayed, incoming, toDispatch>>, NEW f \in Frame,
           Replace(p, f), \A x \in Home(p), i \in Nat : Weight(f, x, i) = Weight(Top(p), x, i)
    PROVE  KeptAll
  <1> DEFINE s == Front(stack[p])
             t == Append(s, f)
  <1>1. s \in Seq(Frame) /\ stack' = [stack EXCEPT ![p] = t]
    BY TopWeight DEF Replace
  <1>2. \A x \in Home(p), i \in Nat :
            /\ StackLoad(t, x, i) = StackLoad(s, x, i) + Weight(f, x, i)
            /\ StackLoad(s, x, i) \in Nat /\ Weight(f, x, i) \in Nat
    BY <1>1, StackLoadPush
  <1>3. \A x, i : StackLoad(stack[p], x, i) = StackLoad(s, x, i) + Weight(Top(p), x, i)
    BY TopWeight
  <1> HIDE DEF s, t
  <1>4. StackKept(p, t)
    BY <1>2, <1>3 DEF StackKept
  <1> QED
    BY <1>1, <1>4, StackKeepsAll

LEMMA SyncWakeFlow ==
    ASSUME IInv, IInv', NEW p \in Proc, SyncWake(p) PROVE KeptAll
  <1> DEFINE f == [Top(p) EXCEPT !.pc = "dispatch"]
  <1>1. /\ At(p, "sync", "blocked") /\ Replace(p, f)
        /\ UNCHANGED <<outgoing, wire, delayed, incoming, toDispatch>>
    BY DEF SyncWake, connVars, outVars, socketVars, otherVars
  <1>2. Top(p) \in Frame
    BY <1>1, TopWeight
  <1>3. /\ f \in Frame /\ f.kind = Top(p).kind /\ f.conn = Top(p).conn /\ f.msg = Top(p).msg
        /\ f.rest = Top(p).rest /\ f.held = Top(p).held
    BY <1>2 DEF Frame
  <1> HIDE DEF f
  <1>4. \A x \in Home(p), i \in Nat : Weight(f, x, i) = Weight(Top(p), x, i)
    BY <1>2, <1>3, SameVectors
  <1> QED
    BY <1>1, <1>3, <1>4, ReplaceKeepsAll

LEMMA IncrementFlow ==
    ASSUME IInv, IInv', NEW p \in Proc, IncrementMarkedCount(p) PROVE KeptAll
  <1> DEFINE f == Raised(Top(p))
  <1>1. /\ At(p, "handler", "run") /\ Replace(p, f)
        /\ UNCHANGED <<outgoing, wire, delayed, incoming, toDispatch>>
    BY DEF IncrementMarkedCount, Raised, outVars, socketVars, otherVars, loopVars
  <1>2. /\ Top(p) \in Frame /\ f \in Frame /\ f.rest = Top(p).rest /\ f.held = Top(p).held
        /\ Top(p).msg.kind = "async" /\ f.msg.kind = "async"
    BY RaisedFacts
  <1> HIDE DEF f
  <1>3. \A x, i : f \notin RequestHandler(x, i) /\ Top(p) \notin RequestHandler(x, i)
    BY <1>2 DEF RequestHandler, Request
  <1>4. \A x \in Home(p), i \in Nat : Weight(f, x, i) = Weight(Top(p), x, i)
    BY <1>2, <1>3 DEF Weight
  <1> QED
    BY <1>1, <1>2, <1>4, ReplaceKeepsAll

LEMMA SyncReturnFlow ==
    ASSUME IInv, IInv', NEW p \in Proc, NEW pc, At(p, "sync", pc), NEW c, NEW ok,
           SyncReturn(p, c, ok)
    PROVE  KeptAll
  <1>1. /\ stack' = [stack EXCEPT ![p] = Front(stack[p])]
        /\ UNCHANGED <<outgoing, wire, delayed, incoming, toDispatch>>
    BY DEF SyncReturn, Pop, outVars, otherVars
  <1>2. \A x \in Home(p), i \in Nat :
            /\ StackLoad(stack[p], x, i) = StackLoad(Front(stack[p]), x, i) + Weight(Top(p), x, i)
            /\ StackLoad(Front(stack[p]), x, i) \in Nat /\ Weight(Top(p), x, i) = 0
    BY TopWeight
  <1>3. StackKept(p, Front(stack[p]))
    BY <1>2 DEF StackKept
  <1> QED
    BY <1>1, <1>3, StackKeepsAll

LEMMA SyncCheckFlow ==
    ASSUME IInv, IInv', NEW p \in Proc, SyncCheck(p) PROVE KeptAll
  <1> DEFINE f == [Top(p) EXCEPT !.pc = "blocked"]
             c == Top(p).conn
  <1>1. At(p, "sync", "check")
    BY DEF SyncCheck
  <1>2. CASE StopsWaiting(c)
    <2>1. SyncReturn(p, c, Last(pending[c]).got)
      BY <1>2 DEF SyncCheck
    <2> QED
      BY <1>1, <2>1, SyncReturnFlow
  <1>3. CASE ~StopsWaiting(c)
    <2>1. Replace(p, f) /\ UNCHANGED <<outgoing, wire, delayed, incoming, toDispatch>>
      BY <1>3 DEF SyncCheck, connVars, outVars, socketVars, otherVars, loopVars
    <2>2. Top(p) \in Frame
      BY <1>1, TopWeight
    <2>3. /\ f \in Frame /\ f.kind = Top(p).kind /\ f.conn = Top(p).conn /\ f.msg = Top(p).msg
          /\ f.rest = Top(p).rest /\ f.held = Top(p).held
      BY <2>2 DEF Frame
    <2> HIDE DEF f
    <2>4. \A x \in Home(p), i \in Nat : Weight(f, x, i) = Weight(Top(p), x, i)
      BY <2>2, <2>3, SameVectors
    <2> QED
      BY <1>1, <2>1, <2>3, <2>4, ReplaceKeepsAll
  <1> QED
    BY <1>2, <1>3

LEMMA SyncTimeoutFlow ==
    ASSUME IInv, IInv', NEW p \in Proc, SyncTimeout(p) PROVE KeptAll
  <1>1. At(p, "sync", "blocked") /\ SyncReturn(p, Top(p).conn, FALSE)
    BY DEF SyncTimeout
  <1> QED
    BY <1>1, SyncReturnFlow

LEMMA DispatchMessagesTaskFlow ==
    ASSUME IInv, IInv', NEW p \in Proc, DispatchMessagesTask(p) PROVE KeptAll
  <1> DEFINE c == Head(runq[p]).conn
             f == NewFrame("batch", "swap", c, NoMsg, FALSE)
             s == Append(stack[p], f)
  <1>1. /\ runq[p] # <<>> /\ runq' = [runq EXCEPT ![p] = Tail(@)]
        /\ stack' = [stack EXCEPT ![p] = s]
        /\ UNCHANGED <<outgoing, wire, delayed, incoming, toDispatch>>
    BY DEF DispatchMessagesTask, NextTask, Push, connVars, outVars, socketVars, otherVars
  <1>2. c \in Conn
    BY <1>1, RunLoopStep DEF IInv, WaitInv, Home
  <1>3. f \in Frame /\ f.rest = <<>> /\ f.held = <<>> /\ f.kind = "batch"
    <2>1. NoMsg \in Msg
      BY DEF NoMsg, Msg
    <2> QED
      BY <1>2, <2>1, EmptySeq DEF NewFrame, Frame
  <1>4. stack[p] \in Seq(Frame)
    BY DEF IInv, WaitTypes
  <1>5. "batch" # "handler"
    OBVIOUS
  <1> HIDE DEF f
  <1>6. \A x, i : Weight(f, x, i) = 0
    BY <1>3, <1>5, PlainWeight
  <1>7. \A x, i : StackLoad(stack[p], x, i) \in Nat
                  /\ StackLoad(s, x, i) = StackLoad(stack[p], x, i) + Weight(f, x, i)
    BY <1>3, <1>4, StackLoadPush
  <1> HIDE DEF s
  <1>8. StackKept(p, s)
    BY <1>6, <1>7 DEF StackKept
  <1> QED
    BY <1>1, <1>8, StackKeepsAll

LEMMA SwapMessagesFlow ==
    ASSUME IInv, IInv', NEW p \in Proc, SwapMessages(p) PROVE KeptAll
  <1> DEFINE s == Front(stack[p])
             q == toDispatch[p]
             f == [Top(p) EXCEPT !.pc = "loop", !.rest = q]
             t == Append(s, f)
  <1>1. /\ At(p, "batch", "swap") /\ stack' = [stack EXCEPT ![p] = t]
        /\ toDispatch' = [toDispatch EXCEPT ![p] = <<>>]
        /\ UNCHANGED <<outgoing, wire, delayed, incoming>>
    BY DEF SwapMessages, Swap, connVars, outVars, socketVars, otherVars
  <1>2. /\ s \in Seq(Frame) /\ Top(p) \in Frame /\ Top(p) \in GoodFrame(p) /\ Top(p).kind = "batch"
        /\ Top(p).pc = "swap" /\ q \in Seq(Item)
    BY <1>1, TopWeight DEF IInv, WaitTypes
  <1>3. /\ f \in Frame /\ f.kind = "batch" /\ f.rest = q /\ f.held = Top(p).held
    BY <1>2 DEF Frame
  <1>4. Top(p).rest = <<>>
    BY <1>2 DEF GoodFrame
  <1>5. "batch" # "handler"
    OBVIOUS
  <1>6. \A x, i : StackLoad(stack[p], x, i) = StackLoad(s, x, i) + Weight(Top(p), x, i)
    BY <1>1, TopWeight
  <1> HIDE DEF f, s, q
  <1>7. \A x, i : /\ Weight(f, x, i) = Number(q, RequestItem(x, i)) + Number(f.held, RequestItem(x, i))
                  /\ Weight(Top(p), x, i) = 0 + Number(f.held, RequestItem(x, i))
    BY <1>2, <1>3, <1>4, <1>5, BatchWeight, NumberOfEmpty
  <1>8. \A x, i : /\ Number(q, RequestItem(x, i)) \in Nat /\ Number(f.held, RequestItem(x, i)) \in Nat
    BY <1>2, <1>3, WeightIsNat
  <1>9. \A x, i : /\ StackLoad(s, x, i) \in Nat
                  /\ StackLoad(t, x, i) = StackLoad(s, x, i) + Weight(f, x, i)
    BY <1>2, <1>3, StackLoadPush
  <1> HIDE DEF t
  <1>10. \A x \in Home(p), i \in Nat :
            StackLoad(t, x, i) = StackLoad(stack[p], x, i) + Number(q, RequestItem(x, i))
    BY <1>6, <1>7, <1>8, <1>9
  <1> QED
    BY <1>1, <1>10, SwapKeepsAll DEF q

LEMMA SyncDispatchFlow ==
    ASSUME IInv, IInv', NEW p \in Proc, SyncDispatch(p) PROVE KeptAll
  <1> DEFINE s == Front(stack[p])
             q == toDispatch[p]
             g == [Top(p) EXCEPT !.pc = "check"]
             b == Append(s, g)
             e == NewFrame("batch", "swap", NoConn, NoMsg, FALSE)
             f == [e EXCEPT !.pc = "loop", !.rest = q]
             t == Append(b, f)
  <1>1. /\ At(p, "sync", "dispatch") /\ stack' = [stack EXCEPT ![p] = t]
        /\ toDispatch' = [toDispatch EXCEPT ![p] = <<>>]
        /\ UNCHANGED <<outgoing, wire, delayed, incoming>>
    BY DEF SyncDispatch, Swap, connVars, outVars, socketVars, otherVars
  <1>2. s \in Seq(Frame) /\ Top(p) \in Frame /\ q \in Seq(Item)
    BY <1>1, TopWeight DEF IInv, WaitTypes
  <1>3. /\ g \in Frame /\ g.kind = Top(p).kind /\ g.conn = Top(p).conn /\ g.msg = Top(p).msg
        /\ g.rest = Top(p).rest /\ g.held = Top(p).held
    BY <1>2 DEF Frame
  <1>4. f \in Frame /\ f.kind = "batch" /\ f.rest = q /\ f.held = <<>>
    <2>1. NoMsg \in Msg
      BY DEF NoMsg, Msg
    <2> QED
      BY <1>2, <2>1, EmptySeq DEF NewFrame, Frame
  <1>5. "batch" # "handler"
    OBVIOUS
  <1>6. \A x, i : StackLoad(stack[p], x, i) = StackLoad(s, x, i) + Weight(Top(p), x, i)
    BY <1>1, TopWeight
  <1> HIDE DEF f, s, q, g
  <1>7. \A x, i : /\ Weight(f, x, i) = Number(q, RequestItem(x, i)) + 0
                  /\ Weight(g, x, i) = Weight(Top(p), x, i)
    BY <1>2, <1>3, <1>4, <1>5, BatchWeight, NumberOfEmpty, SameVectors
  <1>8. \A x, i : Number(q, RequestItem(x, i)) \in Nat
    BY <1>4, WeightIsNat
  <1>9. b \in Seq(Frame)
    BY <1>2, <1>3, AppendProperties
  <1>10. \A x, i : /\ StackLoad(s, x, i) \in Nat /\ Weight(g, x, i) \in Nat
                   /\ StackLoad(b, x, i) = StackLoad(s, x, i) + Weight(g, x, i)
    BY <1>2, <1>3, StackLoadPush
  <1> HIDE DEF b
  <1>11. \A x, i : StackLoad(t, x, i) = StackLoad(b, x, i) + Weight(f, x, i)
    BY <1>4, <1>9, StackLoadPush
  <1> HIDE DEF t
  <1>12. \A x \in Home(p), i \in Nat :
            StackLoad(t, x, i) = StackLoad(stack[p], x, i) + Number(q, RequestItem(x, i))
    BY <1>6, <1>7, <1>8, <1>10, <1>11
  <1> QED
    BY <1>1, <1>12, SwapKeepsAll DEF q

(* The handler that dispatchMessage calls holds the request, if its        *)
(* message is one.                                                         *)
LEMMA HandlerWeight ==
    ASSUME IInv, NEW c \in Conn, NEW m \in Msg, NEW g, g = NewFrame("handler", "run", c, m, invalid[c])
    PROVE  g \in Frame /\ \A x, i : Weight(g, x, i) = IF c = x /\ m \in Request(i) THEN 1 ELSE 0
  <1>1. invalid[c] \in BOOLEAN
    BY DEF IInv, ConnTypes
  <1>2. /\ g \in Frame /\ g.kind = "handler" /\ g.conn = c /\ g.msg = m
        /\ g.rest = <<>> /\ g.held = <<>>
    BY <1>1, EmptySeq DEF NewFrame, Frame
  <1> QED
    BY <1>2, PlainWeight

LEMMA ItemFacts ==
    ASSUME NEW item \in Item, NEW x, NEW i
    PROVE  item \in RequestItem(x, i) <=> item.conn = x /\ item.msg \in Request(i)
  BY DEF Item, RequestItem

LEMMA DispatchNextFlow ==
    ASSUME IInv, IInv', NEW p \in Proc, DispatchNext(p) PROVE KeptAll
  <1> DEFINE s == Front(stack[p])
             f == Top(p)
             item == Head(f.rest)
             c == item.conn
             m == item.msg
             next == [f EXCEPT !.rest = Tail(@)]
             aside == [next EXCEPT !.held = Append(@, Head(f.rest))]
             b == Append(s, next)
             g == NewFrame("handler", "run", c, m, invalid[c])
  <1>1. /\ At(p, "batch", "loop") /\ f.rest # <<>> /\ client' = client
        /\ UNCHANGED <<outgoing, wire, delayed, incoming, toDispatch>>
    BY DEF DispatchNext, loopVars, outVars, socketVars, otherVars
  <1>2. /\ s \in Seq(Frame) /\ f \in Frame /\ f \in GoodFrame(p) /\ f.kind = "batch" /\ f.pc = "loop"
        /\ \A x, i : StackLoad(stack[p], x, i) = StackLoad(s, x, i) + Weight(f, x, i)
    BY <1>1, TopWeight
  <1>3. /\ item \in HomeItem(p)
        /\ next \in GoodFrame(p) /\ next.kind = "batch"
        /\ next.rest = Tail(f.rest) /\ next.held = f.held
        /\ f.conn # NoConn => aside \in GoodFrame(p)
        /\ aside.kind = "batch" /\ aside.rest = Tail(f.rest) /\ aside.held = Append(f.held, item)
    <2>1. next = Advanced(f) /\ aside = SetAside(f) /\ WaitInv
      BY DEF Advanced, SetAside, IInv, WaitInv
    <2> HIDE DEF f, next, aside
    <2> QED
      BY <1>1, <1>2, <2>1, NextFrames
  <1>4. /\ next \in Frame /\ (f.conn # NoConn => aside \in Frame)
        /\ item \in Item /\ c \in Conn /\ ProcOf[c] = p /\ m \in Msg
    BY <1>3 DEF GoodFrame, HomeItem, Home, Item
  <1>5. "batch" # "handler"
    OBVIOUS
  <1> DEFINE one(x, i) == IF item \in RequestItem(x, i) THEN 1 ELSE 0
             nr(x, i) == Number(Tail(f.rest), RequestItem(x, i))
             nh(x, i) == Number(f.held, RequestItem(x, i))
  <1>6. f.rest \in Seq(Item) /\ f.held \in Seq(Item)
    BY <1>2, VectorsType
  <1>7. \A x, i : /\ nr(x, i) \in Nat /\ nh(x, i) \in Nat
                  /\ Number(f.rest, RequestItem(x, i)) = nr(x, i) + one(x, i)
                  /\ Number(Append(f.held, item), RequestItem(x, i)) = nh(x, i) + one(x, i)
    <2> HIDE DEF f, item
    <2> SUFFICES ASSUME NEW x, NEW i
                 PROVE  /\ nr(x, i) \in Nat /\ nh(x, i) \in Nat
                        /\ Number(f.rest, RequestItem(x, i)) = nr(x, i) + one(x, i)
                        /\ Number(Append(f.held, item), RequestItem(x, i)) = nh(x, i) + one(x, i)
      OBVIOUS
    <2>1. nh(x, i) \in Nat
      BY <1>6, NumberIsNat
    <2>2. nr(x, i) \in Nat /\ Number(f.rest, RequestItem(x, i)) = nr(x, i) + one(x, i)
      BY <1>1, <1>6, NumberTail DEF item
    <2>3. Number(Append(f.held, item), RequestItem(x, i)) = nh(x, i) + one(x, i)
      BY <1>4, <1>6, NumberAppend
    <2> QED
      BY <2>1, <2>2, <2>3
  <1> HIDE DEF f, item, next, aside
  <1>8. /\ \A x, i : Weight(f, x, i) = nr(x, i) + one(x, i) + nh(x, i)
        /\ \A x, i : Weight(next, x, i) = nr(x, i) + nh(x, i)
    BY <1>2, <1>3, <1>4, <1>5, <1>7, BatchWeight
  <1>9. \A x, i : one(x, i) \in Nat /\ (c # x => one(x, i) = 0)
    BY <1>4, ItemFacts
  <1>10. \A x, i : one(x, i) = IF c = x /\ m \in Request(i) THEN 1 ELSE 0
    BY <1>4, ItemFacts
  <1>11. CASE f.conn # NoConn /\ f.conn # c
    <2>1. Replace(p, aside) /\ aside \in Frame
      BY <1>4, <1>11 DEF DispatchNext, f, item, next, aside
    <2>2. \A x, i : Weight(aside, x, i) = nr(x, i) + (nh(x, i) + one(x, i))
      <3>1. \A x, i : Weight(aside, x, i) = Number(aside.rest, RequestItem(x, i))
                                                + Number(aside.held, RequestItem(x, i))
        BY <1>3, <1>5, <2>1, BatchWeight
      <3> QED
        BY <1>3, <1>7, <3>1
    <2> HIDE DEF nr, nh, one
    <2>3. \A x \in Home(p), i \in Nat : Weight(aside, x, i) = Weight(f, x, i)
      BY <1>7, <1>8, <1>9, <2>2
    <2> QED
      BY <1>1, <2>1, <2>3, ReplaceKeepsAll DEF f
  <1>12. CASE ~(f.conn # NoConn /\ f.conn # c)
    <2>1. IF client[c] THEN stack' = [stack EXCEPT ![p] = Append(b, g)]
                       ELSE stack' = [stack EXCEPT ![p] = b]
      BY <1>4, <1>12 DEF DispatchNext, DispatchMessage, f, item, next
    <2>2. b \in Seq(Frame)
      BY <1>2, <1>4, AppendProperties
    <2>3. \A x, i : /\ StackLoad(s, x, i) \in Nat
                    /\ StackLoad(b, x, i) = StackLoad(s, x, i) + Weight(next, x, i)
      BY <1>2, <1>4, StackLoadPush
    <2>4. g \in Frame /\ \A x, i : Weight(g, x, i) = IF c = x /\ m \in Request(i) THEN 1 ELSE 0
      BY <1>4, HandlerWeight
    <2> HIDE DEF b, g, s
    <2>5. \A x, i : Weight(g, x, i) = one(x, i)
      BY <1>10, <2>4
    <2>6. \A x, i : StackLoad(Append(b, g), x, i) = StackLoad(b, x, i) + Weight(g, x, i)
      BY <2>2, <2>4, StackLoadPush
    <2> HIDE DEF nr, nh, one
    <2>7. CASE client[c]
      <3>1. StackKept(p, Append(b, g))
        BY <1>2, <1>7, <1>8, <1>9, <2>3, <2>5, <2>6 DEF StackKept
      <3> QED
        BY <1>1, <2>1, <2>7, <3>1, StackKeepsAll
    <2>8. CASE ~client[c]
      <3>1. StackKept(p, b)
        <4> SUFFICES ASSUME NEW x \in Home(p), NEW i \in Nat
                     PROVE  /\ StackLoad(b, x, i) <= StackLoad(stack[p], x, i)
                            /\ client'[x] => StackLoad(b, x, i) = StackLoad(stack[p], x, i)
          BY DEF StackKept
        <4>1. /\ StackLoad(stack[p], x, i) = StackLoad(b, x, i) + one(x, i)
              /\ StackLoad(b, x, i) \in Nat /\ one(x, i) \in Nat
          BY <1>2, <1>7, <1>8, <1>9, <2>3
        <4>2. client'[x] => one(x, i) = 0
          BY <1>1, <1>9, <2>8
        <4> QED
          BY <4>1, <4>2
      <3> QED
        BY <1>1, <2>1, <2>8, <3>1, StackKeepsAll
    <2> QED
      BY <2>7, <2>8
  <1> QED
    BY <1>11, <1>12

LEMMA PutBackFlow ==
    ASSUME IInv, IInv', NEW p \in Proc, PutBack(p) PROVE KeptAll
  <1> DEFINE s == Front(stack[p])
             f == Top(p)
             q == toDispatch[p]
             t == q \o f.held
  <1>1. /\ At(p, "batch", "loop") /\ f.rest = <<>> /\ stack' = [stack EXCEPT ![p] = s]
        /\ toDispatch' = [toDispatch EXCEPT ![p] = t]
        /\ UNCHANGED <<outgoing, wire, delayed, incoming>>
    BY DEF PutBack, Pop, connVars, outVars, socketVars, otherVars
  <1>2. /\ s \in Seq(Frame) /\ f \in Frame /\ f.kind = "batch"
        /\ \A x, i : /\ StackLoad(stack[p], x, i) = StackLoad(s, x, i) + Weight(f, x, i)
                     /\ StackLoad(s, x, i) \in Nat
    BY <1>1, TopWeight
  <1>3. q \in Seq(Item) /\ f.held \in Seq(Item)
    BY <1>2, VectorsType DEF IInv, WaitTypes
  <1>4. "batch" # "handler"
    OBVIOUS
  <1>5. toDispatch'[p] = t /\ Same(toDispatch, toDispatch', p) /\ stack'[p] = s /\ Same(stack, stack', p)
    <2>1. toDispatch \in [Proc -> Seq(Item)]
      BY TaskTypes
    <2>2. stack'[p] = s /\ Same(stack, stack', p)
      BY <1>1, StackOf
    <2> HIDE DEF t
    <2> QED
      BY <1>1, <2>1, <2>2 DEF Same
  <1> HIDE DEF f, q, s
  <1>6. \A x, i : /\ Number(t, RequestItem(x, i)) = Number(q, RequestItem(x, i)) + Number(f.held, RequestItem(x, i))
                  /\ Weight(f, x, i) = 0 + Number(f.held, RequestItem(x, i))
                  /\ Number(q, RequestItem(x, i)) \in Nat /\ Number(f.held, RequestItem(x, i)) \in Nat
    BY <1>1, <1>2, <1>3, <1>4, NumberConcat, BatchWeight, NumberOfEmpty, NumberIsNat
  <1> HIDE DEF t
  <1>7. ASSUME NEW x \in Home(p), NEW i \in Nat PROVE LoadKept(x, i)
    <2>1. x \in Conn /\ ProcOf[x] = p /\ incoming[x] \in Seq(Msg)
      BY DEF Home, IInv, ConnTypes
    <2>2. Number(incoming[x], Request(i)) \in Nat
      BY <2>1, NumberIsNat
    <2>3. /\ Load(x, i, incoming[x], q, stack[p]) =
                 Number(incoming[x], Request(i)) + Number(q, RequestItem(x, i)) + StackLoad(stack[p], x, i)
          /\ Load(x, i, incoming[x], t, s) =
                 Number(incoming[x], Request(i)) + Number(t, RequestItem(x, i)) + StackLoad(s, x, i)
      BY DEF Load
    <2>4. /\ Load(x, i, incoming[x], t, s) = Load(x, i, incoming[x], q, stack[p])
          /\ Load(x, i, incoming[x], t, s) \in Nat
      BY <1>2, <1>6, <2>2, <2>3
    <2> QED
      BY <1>1, <1>5, <2>1, <2>4 DEF LoadKept, q
  <1> QED
    BY <1>1, <1>5, <1>7, Unmoved, MainKeepsAll

LEMMA DispatchOneMessageFlow ==
    ASSUME IInv, IInv', NEW p \in Proc, DispatchOneMessage(p) PROVE KeptAll
  <1> DEFINE c == Head(runq[p]).conn
             m == Head(incoming[c])
             g == NewFrame("handler", "run", c, m, invalid[c])
             t == Append(<<>>, g)
  <1>1. /\ runq[p] # <<>> /\ stack[p] = <<>> /\ runq' = [runq EXCEPT ![p] = Tail(@)]
        /\ UNCHANGED <<client, outgoing, wire, delayed, toDispatch>>
    BY DEF DispatchOneMessage, NextTask, outVars, socketVars, otherVars
  <1>2. c \in Conn /\ ProcOf[c] = p
    BY <1>1, RunLoopStep DEF IInv, WaitInv, Home
  <1>3. incoming \in [Conn -> Seq(Msg)] /\ toDispatch[p] \in Seq(Item)
    BY DEF IInv, ConnTypes, WaitTypes
  <1>4. CASE incoming[c] = <<>>
    <2>1. UNCHANGED <<incoming, stack>>
      BY <1>4 DEF DispatchOneMessage
    <2>2. \A x \in Conn : Untouched(x)
      BY <1>1, <2>1 DEF Untouched
    <2> QED
      BY <2>2, UntouchedKept DEF KeptAll
  <1>5. CASE incoming[c] # <<>>
    <2>1. /\ incoming' = [incoming EXCEPT ![c] = Tail(@)]
          /\ IF client[c] THEN stack' = [stack EXCEPT ![p] = t] ELSE stack' = [stack EXCEPT ![p] = <<>>]
      BY <1>2, <1>5 DEF DispatchOneMessage, DispatchMessage
    <2>2. m \in Msg /\ \A i : /\ Number(Tail(incoming[c]), Request(i)) \in Nat
                              /\ Number(incoming[c], Request(i)) =
                                     Number(Tail(incoming[c]), Request(i)) + IF m \in Request(i) THEN 1 ELSE 0
      BY <1>2, <1>3, <1>5, NumberTail, HeadTailProperties
    <2>3. g \in Frame /\ \A x, i : Weight(g, x, i) = IF c = x /\ m \in Request(i) THEN 1 ELSE 0
      BY <1>2, <2>2, HandlerWeight
    <2> HIDE DEF g, m, c
    <2>4. \A x, i : StackLoad(<<>>, x, i) = 0 /\ StackLoad(t, x, i) = StackLoad(<<>>, x, i) + Weight(g, x, i)
      <3>1. <<>> \in Seq(Frame)
        BY EmptySeq
      <3> QED
        BY <2>3, <3>1, StackLoadPush, StackLoadEmpty
    <2>5. \A x, i : StackLoad(<<>>, x, i) = 0 /\ StackLoad(t, x, i) = IF c = x /\ m \in Request(i) THEN 1 ELSE 0
      BY <2>3, <2>4
    <2> HIDE DEF t
    <2>6. incoming'[c] = Tail(incoming[c]) /\ \A x \in Conn : x # c => incoming'[x] = incoming[x]
      BY <1>2, <1>3, <2>1
    <2>7. Same(stack, stack', p) /\ stack'[p] = IF client[c] THEN t ELSE <<>>
      BY <2>1, StackOf
    <2>8. ASSUME NEW x \in Home(p), NEW i \in Nat PROVE LoadKept(x, i)
      <3>1. x \in Conn /\ ProcOf[x] = p /\ incoming[x] \in Seq(Msg)
        BY <1>3 DEF Home
      <3>2. Number(incoming[x], Request(i)) \in Nat /\ Number(toDispatch[p], RequestItem(x, i)) \in Nat
        BY <1>3, <3>1, NumberIsNat
      <3>3. /\ Load(x, i, incoming[x], toDispatch[p], <<>>) =
                   Number(incoming[x], Request(i)) + Number(toDispatch[p], RequestItem(x, i)) + 0
            /\ Load(x, i, incoming'[x], toDispatch[p], stack'[p]) =
                   Number(incoming'[x], Request(i)) + Number(toDispatch[p], RequestItem(x, i))
                       + StackLoad(stack'[p], x, i)
        BY <2>5 DEF Load
      <3>4. CASE x # c
        <4>1. incoming'[x] = incoming[x] /\ StackLoad(stack'[p], x, i) = 0
          BY <2>5, <2>6, <2>7, <3>1, <3>4
        <4>2. /\ Load(x, i, incoming'[x], toDispatch[p], stack'[p]) = Load(x, i, incoming[x], toDispatch[p], <<>>)
              /\ Load(x, i, incoming[x], toDispatch[p], <<>>) \in Nat
          BY <3>2, <3>3, <4>1
        <4> QED
          BY <1>1, <3>1, <4>2 DEF LoadKept
      <3>5. CASE x = c
        <4>1. /\ Number(incoming'[x], Request(i)) \in Nat
              /\ Number(incoming[x], Request(i)) =
                     Number(incoming'[x], Request(i)) + IF m \in Request(i) THEN 1 ELSE 0
          BY <2>2, <2>6, <3>5
        <4>2. StackLoad(stack'[p], x, i) = IF client[x] /\ m \in Request(i) THEN 1 ELSE 0
          BY <2>5, <2>7, <3>5
        <4>3. /\ Load(x, i, incoming'[x], toDispatch[p], stack'[p]) <= Load(x, i, incoming[x], toDispatch[p], <<>>)
              /\ client[x] => Load(x, i, incoming'[x], toDispatch[p], stack'[p])
                                  = Load(x, i, incoming[x], toDispatch[p], <<>>)
          BY <3>2, <3>3, <4>1, <4>2
        <4> QED
          BY <1>1, <3>1, <4>3 DEF LoadKept
      <3> QED
        BY <3>4, <3>5
    <2>9. SameConn(incoming, incoming', p)
      BY <1>2, <2>6 DEF SameConn
    <2> QED
      BY <1>1, <2>7, <2>8, <2>9, Unmoved, MainKeepsAll
  <1> QED
    BY <1>4, <1>5

(* Answering: what the end x holds is on its stack, a kept reply encoder,  *)
(* an outgoing reply or elsewhere.                                         *)
KeptOne(x, i) == IF i \in delayed[x] THEN 1 ELSE 0

LEMMA HoldsParts ==
    ASSUME IInv, IInv', NEW x \in Conn, NEW i \in Nat, wire'[x] = wire[x],
           incoming'[x] = incoming[x], toDispatch'[ProcOf[x]] = toDispatch[ProcOf[x]]
    PROVE  /\ StackLoad(stack[ProcOf[x]], x, i) \in Nat /\ StackLoad(stack'[ProcOf[x]], x, i) \in Nat
           /\ Number(outgoing[x], ReplyTo(i)) \in Nat /\ Number(outgoing'[x], ReplyTo(i)) \in Nat
           /\ Holds(x, i) \in Nat /\ Holds(x, i)' \in Nat
           /\ KeptOne(x, i) \in Nat /\ KeptOne(x, i)' \in Nat
           /\ \E b \in Nat :
                /\ Holds(x, i) = b + StackLoad(stack[ProcOf[x]], x, i) + KeptOne(x, i)
                                   + Number(outgoing[x], ReplyTo(i))
                /\ Holds(x, i)' = b + StackLoad(stack'[ProcOf[x]], x, i) + KeptOne(x, i)'
                                   + Number(outgoing'[x], ReplyTo(i))
  <1> DEFINE p == ProcOf[x]
             b == Number(wire[x], Request(i)) + Number(incoming[x], Request(i))
                      + Number(toDispatch[p], RequestItem(x, i))
  <1>1. /\ p \in Proc /\ incoming[x] \in Seq(Msg) /\ wire[x] \in Seq(Msg)
        /\ toDispatch[p] \in Seq(Item) /\ stack[p] \in Seq(Frame) /\ stack'[p] \in Seq(Frame)
    BY ConnAssumption DEF IInv, ConnTypes, WaitTypes
  <1>2. /\ StackLoad(stack[p], x, i) \in Nat /\ StackLoad(stack'[p], x, i) \in Nat
        /\ Number(incoming[x], Request(i)) \in Nat /\ Number(wire[x], Request(i)) \in Nat
        /\ Number(toDispatch[p], RequestItem(x, i)) \in Nat
    BY <1>1, StackLoadIsNat, NumberIsNat
  <1>3. KeptOne(x, i) \in Nat /\ KeptOne(x, i)' \in Nat
    BY DEF KeptOne
  <1>4. /\ Unanswered(x, i) = Load(x, i, incoming[x], toDispatch[p], stack[p]) + KeptOne(x, i)
        /\ Number(outgoing[x], ReplyTo(i)) \in Nat
    BY Sums DEF PartSums, KeptOne
  <1>5. /\ Unanswered(x, i)' = Load(x, i, incoming[x], toDispatch[p], stack'[p]) + KeptOne(x, i)'
        /\ Number(outgoing'[x], ReplyTo(i)) \in Nat
    BY NextSums DEF PartSums, KeptOne
  <1>6. /\ Load(x, i, incoming[x], toDispatch[p], stack[p]) =
               Number(incoming[x], Request(i)) + Number(toDispatch[p], RequestItem(x, i))
                   + StackLoad(stack[p], x, i)
        /\ Load(x, i, incoming[x], toDispatch[p], stack'[p]) =
               Number(incoming[x], Request(i)) + Number(toDispatch[p], RequestItem(x, i))
                   + StackLoad(stack'[p], x, i)
    BY DEF Load
  <1>7. /\ Holds(x, i) = Number(wire[x], Request(i)) + Unanswered(x, i) + Number(outgoing[x], ReplyTo(i))
        /\ Holds(x, i)' = Number(wire[x], Request(i)) + Unanswered(x, i)' + Number(outgoing'[x], ReplyTo(i))
    BY DEF Holds
  <1>8. b \in Nat
    BY <1>2
  <1> HIDE DEF p
  <1>9. /\ Holds(x, i) = b + StackLoad(stack[p], x, i) + KeptOne(x, i) + Number(outgoing[x], ReplyTo(i))
        /\ Holds(x, i)' = b + StackLoad(stack'[p], x, i) + KeptOne(x, i)' + Number(outgoing'[x], ReplyTo(i))
    BY <1>2, <1>3, <1>4, <1>5, <1>6, <1>7
  <1> HIDE DEF b
  <1>10. Holds(x, i) \in Nat /\ Holds(x, i)' \in Nat
    BY <1>2, <1>3, <1>4, <1>5, <1>8, <1>9
  <1> QED
    BY <1>2, <1>3, <1>4, <1>5, <1>8, <1>9, <1>10 DEF p

(* Which requests and replies are counted.                                 *)
LEMMA Counted ==
    ASSUME NEW m \in Msg, NEW i
    PROVE  /\ m \in Request(i) <=> m.kind = "sync" /\ m.id = i
           /\ m \in ReplyTo(i) <=> m.kind = "reply" /\ m.id = i
  BY DEF Msg, Request, ReplyTo

LEMMA ReplyCounted ==
    ASSUME NEW j \in Nat, NEW i
    PROVE  Reply(j) \in Msg /\ Reply(j) \notin Request(i) /\ (Reply(j) \in ReplyTo(i) <=> j = i)
  BY ReplyFacts, Counted DEF Reply

(* A request that x holds twice would have two tokens.                     *)
LEMMA HeldOnce ==
    ASSUME IInv, RInv, NEW x \in Conn, NEW i \in Nat
    PROVE  Holds(x, i) <= 1
  <1>1. Peer[x] \in Conn /\ Peer[Peer[x]] = x
    BY PeerFacts
  <1>2. Tokens(Peer[x], i) <= 1
    BY <1>1 DEF RInv, Account
  <1>3. /\ Tokens(Peer[x], i) = Number(outgoing[Peer[x]], Request(i)) + Holds(x, i)
                                    + Number(wire[Peer[x]], ReplyTo(i))
        /\ Number(outgoing[Peer[x]], Request(i)) \in Nat /\ Number(wire[Peer[x]], ReplyTo(i)) \in Nat
        /\ Holds(x, i) \in Nat
    BY <1>1, Splits DEF SplitTokens, HoldSums
  <1> QED
    BY <1>2, <1>3

LEMMA EndDispatchFlow ==
    ASSUME IInv, IInv', RInv, NEW p \in Proc, EndDispatch(p) PROVE KeptAll
  <1> DEFINE f == Top(p)
             c == f.conn
             id == f.msg.id
  <1>1. /\ At(p, "handler", "run") /\ stack' = [stack EXCEPT ![p] = Front(stack[p])]
        /\ UNCHANGED <<wire, incoming, toDispatch>>
    BY DEF EndDispatch, Pop, loopVars, socketVars
  <1>2. PICK kept \in BOOLEAN :
            /\ IF kept
               THEN /\ f.msg.kind = "sync" /\ Spend(c, "delay")
                    /\ delayed' = [delayed EXCEPT ![c] = @ \cup {id}]
               ELSE UNCHANGED <<delayed, left>>
            /\ outgoing' = [outgoing EXCEPT ![c] =
                             IF SendsReply(c, f, kept) THEN Append(@, Reply(id)) ELSE @]
            /\ client' = [client EXCEPT ![c] = @ /\ ~(invalid[c] /\ client[c])]
    BY DEF EndDispatch
  <1>3. /\ f \in Frame /\ c \in Conn /\ ProcOf[c] = p /\ f.rest = <<>> /\ f.held = <<>>
        /\ f.kind = "handler"
        /\ \A x, i : /\ StackLoad(Front(stack[p]), x, i) \in Nat
                     /\ StackLoad(stack[p], x, i) = StackLoad(Front(stack[p]), x, i) + Weight(f, x, i)
    BY <1>1, TopWeight
  <1>4. f.msg \in Msg /\ id \in Nat
    BY <1>3 DEF Frame, Msg
  <1>5. /\ client \in [Conn -> BOOLEAN] /\ outgoing \in [Conn -> Seq(Msg)]
        /\ delayed \in [Conn -> SUBSET Nat]
    BY DEF IInv, ConnTypes
  <1> HIDE DEF f
  <1>6. \A x, i : Weight(f, x, i) = IF c = x /\ f.msg.kind = "sync" /\ id = i THEN 1 ELSE 0
    <2>1. \A x, i : Weight(f, x, i) =
              IF f.kind = "handler" /\ f.conn = x /\ f.msg \in Request(i) THEN 1 ELSE 0
      BY <1>3, PlainWeight
    <2> QED
      BY <1>3, <1>4, <2>1, Counted
  <1>7. stack'[p] = Front(stack[p]) /\ Same(stack, stack', p)
    BY <1>1, StackOf
  <1>8. /\ \A x \in Conn : x # c => outgoing'[x] = outgoing[x] /\ delayed'[x] = delayed[x]
        /\ outgoing'[c] = IF SendsReply(c, f, kept) THEN Append(outgoing[c], Reply(id)) ELSE outgoing[c]
        /\ delayed'[c] = IF kept THEN delayed[c] \cup {id} ELSE delayed[c]
        /\ client'[c] => client[c]
        /\ kept => f.msg.kind = "sync"
    BY <1>2, <1>3, <1>5
  <1> HIDE DEF c, id
  <1>9. \A i : /\ Number(outgoing'[c], ReplyTo(i)) = Number(outgoing[c], ReplyTo(i))
                        + IF SendsReply(c, f, kept) /\ id = i THEN 1 ELSE 0
               /\ Number(outgoing'[c], Request(i)) = Number(outgoing[c], Request(i))
    <2> SUFFICES ASSUME NEW i
                 PROVE  /\ Number(outgoing'[c], ReplyTo(i)) = Number(outgoing[c], ReplyTo(i))
                                + IF SendsReply(c, f, kept) /\ id = i THEN 1 ELSE 0
                        /\ Number(outgoing'[c], Request(i)) = Number(outgoing[c], Request(i))
      OBVIOUS
    <2>1. /\ outgoing[c] \in Seq(Msg) /\ Reply(id) \in Msg /\ Reply(id) \notin Request(i)
          /\ Reply(id) \in ReplyTo(i) <=> id = i
      BY <1>3, <1>4, <1>5, ReplyCounted
    <2>2. Number(outgoing[c], ReplyTo(i)) \in Nat /\ Number(outgoing[c], Request(i)) \in Nat
      BY <2>1, NumberIsNat
    <2>3. /\ Number(Append(outgoing[c], Reply(id)), ReplyTo(i)) =
                 Number(outgoing[c], ReplyTo(i)) + IF Reply(id) \in ReplyTo(i) THEN 1 ELSE 0
          /\ Number(Append(outgoing[c], Reply(id)), Request(i)) =
                 Number(outgoing[c], Request(i)) + IF Reply(id) \in Request(i) THEN 1 ELSE 0
      BY <2>1, NumberAppend
    <2> QED
      BY <1>8, <2>1, <2>2, <2>3
  <1> SUFFICES ASSUME NEW x \in Conn, NEW i \in Nat PROVE OwnKept(x, i) /\ HeldKept(x, i)
    BY DEF KeptAll
  <1>10. ProcOf[x] \in Proc
    BY ConnAssumption
  <1>11. CASE ProcOf[x] # p
    <2>1. x # c
      BY <1>3, <1>11
    <2>2. Untouched(x)
      BY <1>1, <1>7, <1>8, <1>10, <1>11, <2>1 DEF Untouched, Same
    <2> QED
      BY <2>2, UntouchedKept
  <1>12. CASE ProcOf[x] = p
    <2> DEFINE SL == StackLoad(stack[p], x, i)
               SF == StackLoad(Front(stack[p]), x, i)
               R == Number(outgoing[x], ReplyTo(i))
               RR == Number(outgoing'[x], ReplyTo(i))
    <2>1. /\ SL \in Nat /\ SF \in Nat /\ R \in Nat /\ RR \in Nat
          /\ Holds(x, i) \in Nat /\ Holds(x, i)' \in Nat
          /\ KeptOne(x, i) \in Nat /\ KeptOne(x, i)' \in Nat
          /\ \E b \in Nat : /\ Holds(x, i) = b + SL + KeptOne(x, i) + R
                            /\ Holds(x, i)' = b + SF + KeptOne(x, i)' + RR
      <3>1. /\ wire'[x] = wire[x] /\ incoming'[x] = incoming[x]
            /\ toDispatch'[ProcOf[x]] = toDispatch[ProcOf[x]]
        BY <1>1
      <3>2. stack[ProcOf[x]] = stack[p] /\ stack'[ProcOf[x]] = Front(stack[p])
        BY <1>7, <1>12
      <3>3. /\ StackLoad(stack[ProcOf[x]], x, i) \in Nat /\ StackLoad(stack'[ProcOf[x]], x, i) \in Nat
            /\ R \in Nat /\ RR \in Nat
            /\ Holds(x, i) \in Nat /\ Holds(x, i)' \in Nat
            /\ KeptOne(x, i) \in Nat /\ KeptOne(x, i)' \in Nat
            /\ \E b \in Nat :
                 /\ Holds(x, i) = b + StackLoad(stack[ProcOf[x]], x, i) + KeptOne(x, i) + R
                 /\ Holds(x, i)' = b + StackLoad(stack'[ProcOf[x]], x, i) + KeptOne(x, i)' + RR
        BY <3>1, HoldsParts
      <3> QED
        BY <3>2, <3>3
    <2>2. PICK b \in Nat : /\ Holds(x, i) = b + SL + KeptOne(x, i) + R
                           /\ Holds(x, i)' = b + SF + KeptOne(x, i)' + RR
      BY <2>1
    <2>3. SL = SF + IF c = x /\ f.msg.kind = "sync" /\ id = i THEN 1 ELSE 0
      BY <1>3, <1>6
    <2>4. Number(outgoing'[x], Request(i)) = Number(outgoing[x], Request(i))
      BY <1>8, <1>9
    <2>5. OwnKept(x, i)
      <3>1. Number(outgoing[x], Request(i)) \in Nat /\ Number(wire[x], ReplyTo(i)) \in Nat
        BY Splits DEF HoldSums
      <3> QED
        BY <1>1, <2>4, <3>1 DEF OwnKept
    <2>6. RR = IF c = x /\ SendsReply(c, f, kept) /\ id = i THEN R + 1 ELSE R
      BY <1>8, <1>9, <2>1
    <2>7. Holds(x, i) <= 1
      BY HeldOnce
    <2>8. KeptOne(x, i)' = IF c = x /\ kept /\ id = i THEN 1 ELSE KeptOne(x, i)
      <3>1. (i \in delayed'[x]) <=> (i \in delayed[x] \/ (c = x /\ kept /\ id = i))
        BY <1>8
      <3> QED
        BY <3>1 DEF KeptOne
    <2>9. KeptOne(x, i) \in {0, 1}
      BY DEF KeptOne
    <2>10. SendsReply(c, f, kept) <=> f.msg.kind = "sync" /\ client[c] /\ ~kept
      BY DEF SendsReply
    <2>11. Works(x)' => client'[x]
      BY DEF Works
    <2> HIDE DEF SL, SF, R, RR
    <2>12. CASE ~(c = x /\ id = i /\ f.msg.kind = "sync")
      <3>1. SL = SF /\ RR = R /\ KeptOne(x, i)' = KeptOne(x, i)
        BY <1>8, <2>1, <2>3, <2>6, <2>8, <2>10, <2>12
      <3> QED
        BY <2>1, <2>2, <2>5, <3>1 DEF HeldKept
    <2>13. CASE c = x /\ id = i /\ f.msg.kind = "sync"
      <3>1. SL = SF + 1
        BY <2>3, <2>13
      <3>2. KeptOne(x, i) = 0
        BY <2>1, <2>2, <2>7, <2>9, <3>1
      <3>3. CASE kept
        <4>1. RR = R /\ KeptOne(x, i)' = 1
          BY <2>6, <2>8, <2>10, <2>13, <3>3
        <4> QED
          BY <2>1, <2>2, <2>5, <3>1, <3>2, <4>1 DEF HeldKept
      <3>4. CASE ~kept
        <4>1. KeptOne(x, i)' = 0 /\ RR = IF client[c] THEN R + 1 ELSE R
          BY <2>6, <2>8, <2>10, <2>13, <3>2, <3>4
        <4>2. Works(x)' => client[c]
          BY <1>8, <2>11, <2>13
        <4>3. Holds(x, i)' <= Holds(x, i) /\ (client[c] => Holds(x, i)' = Holds(x, i))
          BY <2>1, <2>2, <3>1, <3>2, <4>1
        <4> QED
          BY <2>5, <4>2, <4>3 DEF HeldKept
      <3> QED
        BY <3>3, <3>4
    <2> QED
      BY <2>12, <2>13
  <1> QED
    BY <1>11, <1>12

LEMMA SendDelayedReplyFlow ==
    ASSUME IInv, IInv', NEW c \in Conn, SendDelayedReply(c) PROVE KeptAll
  <1>1. /\ UNCHANGED <<client, wire, incoming, toDispatch, stack>>
    BY DEF SendDelayedReply, socketVars, procVars, loopVars, mainVars
  <1>2. PICK id \in delayed[c] : /\ SendMessage(c, Reply(id))
                                 /\ delayed' = [delayed EXCEPT ![c] = @ \ {id}]
    BY DEF SendDelayedReply
  <1>3. /\ outgoing \in [Conn -> Seq(Msg)] /\ delayed \in [Conn -> SUBSET Nat] /\ id \in Nat
    BY DEF IInv, ConnTypes
  <1>4. /\ \A x \in Conn : x # c => outgoing'[x] = outgoing[x] /\ delayed'[x] = delayed[x]
        /\ outgoing'[c] = IF client[c] THEN Append(outgoing[c], Reply(id)) ELSE outgoing[c]
        /\ delayed'[c] = delayed[c] \ {id}
    BY <1>2, <1>3 DEF SendMessage, outVars
  <1> SUFFICES ASSUME NEW x \in Conn, NEW i \in Nat PROVE OwnKept(x, i) /\ HeldKept(x, i)
    BY DEF KeptAll
  <1>5. CASE x # c
    <2>1. Untouched(x)
      BY <1>1, <1>4, <1>5 DEF Untouched
    <2> QED
      BY <2>1, UntouchedKept
  <1>6. CASE x = c
    <2> DEFINE SL == StackLoad(stack[ProcOf[x]], x, i)
               R == Number(outgoing[x], ReplyTo(i))
               RR == Number(outgoing'[x], ReplyTo(i))
    <2>1. /\ SL \in Nat /\ R \in Nat /\ RR \in Nat
          /\ Holds(x, i) \in Nat /\ Holds(x, i)' \in Nat
          /\ KeptOne(x, i) \in Nat /\ KeptOne(x, i)' \in Nat
          /\ \E b \in Nat : /\ Holds(x, i) = b + SL + KeptOne(x, i) + R
                            /\ Holds(x, i)' = b + SL + KeptOne(x, i)' + RR
      BY <1>1, HoldsParts
    <2>2. PICK b \in Nat : /\ Holds(x, i) = b + SL + KeptOne(x, i) + R
                           /\ Holds(x, i)' = b + SL + KeptOne(x, i)' + RR
      BY <2>1
    <2>3. /\ outgoing[x] \in Seq(Msg) /\ Reply(id) \in Msg /\ Reply(id) \notin Request(i)
          /\ Reply(id) \in ReplyTo(i) <=> id = i
      BY <1>3, ReplyCounted
    <2>4. Number(outgoing[x], Request(i)) \in Nat /\ Number(wire[x], ReplyTo(i)) \in Nat
      BY Splits DEF HoldSums
    <2>5. /\ Number(Append(outgoing[x], Reply(id)), ReplyTo(i)) =
                 Number(outgoing[x], ReplyTo(i)) + IF Reply(id) \in ReplyTo(i) THEN 1 ELSE 0
          /\ Number(Append(outgoing[x], Reply(id)), Request(i)) =
                 Number(outgoing[x], Request(i)) + IF Reply(id) \in Request(i) THEN 1 ELSE 0
      BY <2>3, NumberAppend
    <2>6. Number(outgoing'[x], Request(i)) = Number(outgoing[x], Request(i))
      BY <1>4, <1>6, <2>3, <2>4, <2>5
    <2>7. OwnKept(x, i)
      BY <1>1, <2>4, <2>6 DEF OwnKept
    <2>8. RR = IF client[x] /\ id = i THEN R + 1 ELSE R
      BY <1>4, <1>6, <2>1, <2>3, <2>5
    <2>9. /\ id = i => KeptOne(x, i) = 1 /\ KeptOne(x, i)' = 0
          /\ id # i => KeptOne(x, i)' = KeptOne(x, i)
      BY <1>4, <1>6 DEF KeptOne
    <2>10. Works(x)' => client[x]
      BY <1>1 DEF Works
    <2> HIDE DEF SL, R, RR
    <2>11. Holds(x, i)' <= Holds(x, i) /\ (client[x] => Holds(x, i)' = Holds(x, i))
      BY <2>1, <2>2, <2>8, <2>9
    <2> QED
      BY <2>7, <2>10, <2>11 DEF HeldKept
  <1> QED
    BY <1>5, <1>6

(* Reading: what the end x holds is in the socket, in one of its two       *)
(* queues or elsewhere.                                                    *)
LEMMA ReadParts ==
    ASSUME IInv, IInv', NEW x \in Conn, NEW i \in Nat, UNCHANGED <<outgoing, delayed, stack>>
    PROVE  /\ Number(wire[x], Request(i)) \in Nat /\ Number(wire'[x], Request(i)) \in Nat
           /\ Number(incoming[x], Request(i)) \in Nat /\ Number(incoming'[x], Request(i)) \in Nat
           /\ Number(toDispatch[ProcOf[x]], RequestItem(x, i)) \in Nat
           /\ Number(toDispatch'[ProcOf[x]], RequestItem(x, i)) \in Nat
           /\ \E b \in Nat :
                /\ Holds(x, i) = b + Number(wire[x], Request(i)) + Number(incoming[x], Request(i))
                                   + Number(toDispatch[ProcOf[x]], RequestItem(x, i))
                /\ Holds(x, i)' = b + Number(wire'[x], Request(i)) + Number(incoming'[x], Request(i))
                                   + Number(toDispatch'[ProcOf[x]], RequestItem(x, i))
  <1> DEFINE p == ProcOf[x]
             b == StackLoad(stack[p], x, i) + KeptOne(x, i) + Number(outgoing[x], ReplyTo(i))
  <1>1. /\ p \in Proc /\ incoming[x] \in Seq(Msg) /\ wire[x] \in Seq(Msg) /\ outgoing[x] \in Seq(Msg)
        /\ toDispatch[p] \in Seq(Item) /\ stack[p] \in Seq(Frame)
        /\ incoming'[x] \in Seq(Msg) /\ wire'[x] \in Seq(Msg) /\ toDispatch'[p] \in Seq(Item)
    BY ConnAssumption DEF IInv, ConnTypes, WaitTypes
  <1>2. /\ StackLoad(stack[p], x, i) \in Nat /\ Number(outgoing[x], ReplyTo(i)) \in Nat
        /\ Number(incoming[x], Request(i)) \in Nat /\ Number(wire[x], Request(i)) \in Nat
        /\ Number(toDispatch[p], RequestItem(x, i)) \in Nat
        /\ Number(incoming'[x], Request(i)) \in Nat /\ Number(wire'[x], Request(i)) \in Nat
        /\ Number(toDispatch'[p], RequestItem(x, i)) \in Nat
    BY <1>1, StackLoadIsNat, NumberIsNat
  <1>3. KeptOne(x, i) \in Nat /\ KeptOne(x, i)' = KeptOne(x, i)
    BY DEF KeptOne
  <1>4. Unanswered(x, i) = Load(x, i, incoming[x], toDispatch[p], stack[p]) + KeptOne(x, i)
    BY Sums DEF PartSums, KeptOne
  <1>5. Unanswered(x, i)' = Load(x, i, incoming'[x], toDispatch'[p], stack[p]) + KeptOne(x, i)
    BY NextSums DEF PartSums, KeptOne
  <1>6. /\ Load(x, i, incoming[x], toDispatch[p], stack[p]) =
               Number(incoming[x], Request(i)) + Number(toDispatch[p], RequestItem(x, i))
                   + StackLoad(stack[p], x, i)
        /\ Load(x, i, incoming'[x], toDispatch'[p], stack[p]) =
               Number(incoming'[x], Request(i)) + Number(toDispatch'[p], RequestItem(x, i))
                   + StackLoad(stack[p], x, i)
    BY DEF Load
  <1>7. /\ Holds(x, i) = Number(wire[x], Request(i)) + Unanswered(x, i) + Number(outgoing[x], ReplyTo(i))
        /\ Holds(x, i)' = Number(wire'[x], Request(i)) + Unanswered(x, i)' + Number(outgoing[x], ReplyTo(i))
    BY DEF Holds
  <1>8. b \in Nat
    BY <1>2, <1>3
  <1> HIDE DEF p
  <1>9. /\ Holds(x, i) = b + Number(wire[x], Request(i)) + Number(incoming[x], Request(i))
                             + Number(toDispatch[p], RequestItem(x, i))
        /\ Holds(x, i)' = b + Number(wire'[x], Request(i)) + Number(incoming'[x], Request(i))
                             + Number(toDispatch'[p], RequestItem(x, i))
    BY <1>2, <1>3, <1>4, <1>5, <1>6, <1>7
  <1> HIDE DEF b
  <1> QED
    BY <1>2, <1>8, <1>9 DEF p

(* The head of the socket's buffer leaves it.                              *)
LEMMA ConsumeParts ==
    ASSUME IInv, NEW c \in Conn, Readable(c), Consume(c)
    PROVE  /\ Head(wire[c]) \in Msg /\ wire'[c] = Tail(wire[c])
           /\ \A x \in Conn : x # c => wire'[x] = wire[x]
           /\ \A P : /\ Number(wire'[c], P) \in Nat
                     /\ Number(wire[c], P) = Number(wire'[c], P) + IF Head(wire[c]) \in P THEN 1 ELSE 0
  <1>1. wire \in [Conn -> Seq(Msg)] /\ wire[c] # <<>> /\ wire' = [wire EXCEPT ![c] = Tail(@)]
    BY DEF IInv, ConnTypes, Readable, Consume
  <1>2. wire'[c] = Tail(wire[c]) /\ \A x \in Conn : x # c => wire'[x] = wire[x]
    BY <1>1
  <1>3. wire[c] \in Seq(Msg) /\ Head(wire[c]) \in Msg
    BY <1>1, HeadTailProperties
  <1>4. \A P : /\ Number(Tail(wire[c]), P) \in Nat
               /\ Number(wire[c], P) = Number(Tail(wire[c]), P) + IF Head(wire[c]) \in P THEN 1 ELSE 0
    BY <1>1, <1>3, NumberTail
  <1> QED
    BY <1>2, <1>3, <1>4

(* It is not a reply, and goes to one of the queues.                       *)
LEMMA ReadKeepsAll ==
    ASSUME IInv, IInv', NEW c \in Conn, Readable(c), Consume(c), Head(wire[c]).kind # "reply",
           UNCHANGED <<outgoing, delayed, stack>>,
           \A x \in Conn, i \in Nat :
               Number(incoming'[x], Request(i)) + Number(toDispatch'[ProcOf[x]], RequestItem(x, i)) =
                   Number(incoming[x], Request(i)) + Number(toDispatch[ProcOf[x]], RequestItem(x, i))
                       + IF x = c /\ Head(wire[c]) \in Request(i) THEN 1 ELSE 0
    PROVE  KeptAll
  <1> SUFFICES ASSUME NEW x \in Conn, NEW i \in Nat PROVE OwnKept(x, i) /\ HeldKept(x, i)
    BY DEF KeptAll
  <1> DEFINE m == Head(wire[c])
             w == Number(wire[x], Request(i))
             ww == Number(wire'[x], Request(i))
             n == Number(incoming[x], Request(i))
             nn == Number(incoming'[x], Request(i))
             q == Number(toDispatch[ProcOf[x]], RequestItem(x, i))
             qq == Number(toDispatch'[ProcOf[x]], RequestItem(x, i))
  <1>1. /\ w \in Nat /\ ww \in Nat /\ n \in Nat /\ nn \in Nat /\ q \in Nat /\ qq \in Nat
        /\ \E b \in Nat : /\ Holds(x, i) = b + w + n + q
                          /\ Holds(x, i)' = b + ww + nn + qq
    BY ReadParts
  <1>2. PICK b \in Nat : Holds(x, i) = b + w + n + q /\ Holds(x, i)' = b + ww + nn + qq
    BY <1>1
  <1>3. nn + qq = n + q + IF x = c /\ m \in Request(i) THEN 1 ELSE 0
    OBVIOUS
  <1>4. w = ww + IF x = c /\ m \in Request(i) THEN 1 ELSE 0
    BY <1>1, ConsumeParts
  <1>5. m \notin ReplyTo(i)
    BY ConsumeParts, Counted
  <1>6. /\ Number(outgoing[x], Request(i)) \in Nat /\ Number(wire[x], ReplyTo(i)) \in Nat
        /\ Holds(x, i) \in Nat
    BY Splits DEF HoldSums
  <1>7. Number(wire'[x], ReplyTo(i)) = Number(wire[x], ReplyTo(i))
    <2>1. CASE x = c
      BY <1>5, <2>1, ConsumeParts
    <2>2. CASE x # c
      BY <2>2, ConsumeParts
    <2> QED
      BY <2>1, <2>2
  <1>8. OwnKept(x, i)
    BY <1>6, <1>7 DEF OwnKept
  <1> HIDE DEF w, ww, n, nn, q, qq, m
  <1>9. Holds(x, i)' = Holds(x, i)
    BY <1>1, <1>2, <1>3, <1>4
  <1> QED
    BY <1>6, <1>8, <1>9 DEF HeldKept

LEMMA EnqueueFlow ==
    ASSUME IInv, IInv', NEW c \in Conn, EnqueueIncomingMessage(c) PROVE KeptAll
  <1> DEFINE m == Head(wire[c])
  <1>1. /\ Readable(c) /\ Consume(c) /\ Head(wire[c]).kind # "reply"
        /\ incoming' = [incoming EXCEPT ![c] = Append(@, Head(wire[c]))]
        /\ UNCHANGED <<outgoing, delayed, stack, toDispatch>>
    BY DEF EnqueueIncomingMessage, outVars, otherVars, mainVars
  <1>2. incoming \in [Conn -> Seq(Msg)] /\ toDispatch \in [Proc -> Seq(Item)]
    BY DEF IInv, ConnTypes, WaitTypes
  <1>3. m \in Msg
    BY <1>1, ConsumeParts
  <1>4. incoming'[c] = Append(incoming[c], m) /\ \A x \in Conn : x # c => incoming'[x] = incoming[x]
    BY <1>1, <1>2
  <1> HIDE DEF m
  <1>5. ASSUME NEW x \in Conn, NEW i \in Nat
        PROVE  Number(incoming'[x], Request(i)) + Number(toDispatch'[ProcOf[x]], RequestItem(x, i)) =
                   Number(incoming[x], Request(i)) + Number(toDispatch[ProcOf[x]], RequestItem(x, i))
                       + IF x = c /\ m \in Request(i) THEN 1 ELSE 0
    <2>1. Number(incoming'[x], Request(i)) = Number(incoming[x], Request(i))
                 + IF x = c /\ m \in Request(i) THEN 1 ELSE 0
      <3>1. Number(incoming[x], Request(i)) \in Nat
        BY <1>2, NumberIsNat
      <3>2. CASE x = c
        <4>1. Number(Append(incoming[c], m), Request(i)) =
                  Number(incoming[c], Request(i)) + IF m \in Request(i) THEN 1 ELSE 0
          BY <1>2, <1>3, NumberAppend
        <4> QED
          BY <1>4, <3>2, <4>1
      <3>3. CASE x # c
        BY <1>4, <3>1, <3>3
      <3> QED
        BY <3>2, <3>3
    <2>2. Number(incoming[x], Request(i)) \in Nat /\ Number(toDispatch[ProcOf[x]], RequestItem(x, i)) \in Nat
      <3>1. ProcOf[x] \in Proc
        BY ConnAssumption
      <3> QED
        BY <1>2, <3>1, NumberIsNat
    <2> QED
      BY <1>1, <2>1, <2>2
  <1> QED
    BY <1>1, <1>5, ReadKeepsAll DEF m

LEMMA ProcessMarkedMessageFlow ==
    ASSUME IInv, IInv', NEW c \in Conn, ProcessMarkedMessage(c) PROVE KeptAll
  <1> DEFINE m == Head(wire[c])
             p == ProcOf[c]
             item == [conn |-> c, msg |-> m]
  <1>1. /\ Readable(c) /\ Consume(c) /\ Head(wire[c]).kind # "reply"
        /\ toDispatch' = [toDispatch EXCEPT ![p] = Append(@, item)]
        /\ UNCHANGED <<outgoing, delayed, stack, incoming>>
    BY DEF ProcessMarkedMessage, outVars, otherVars, mainVars
  <1>2. incoming \in [Conn -> Seq(Msg)] /\ toDispatch \in [Proc -> Seq(Item)] /\ p \in Proc
    BY ConnAssumption DEF IInv, ConnTypes, WaitTypes
  <1>3. m \in Msg
    BY <1>1, ConsumeParts
  <1>4. item \in Item /\ item.conn = c /\ item.msg = m
    BY <1>3 DEF Item
  <1> HIDE DEF m, item
  <1>5. toDispatch'[p] = Append(toDispatch[p], item) /\ \A q \in Proc : q # p => toDispatch'[q] = toDispatch[q]
    BY <1>1, <1>2
  <1>6. \A x, i : item \in RequestItem(x, i) <=> x = c /\ m \in Request(i)
    BY <1>4, ItemFacts
  <1>7. ASSUME NEW x \in Conn, NEW i \in Nat
        PROVE  Number(incoming'[x], Request(i)) + Number(toDispatch'[ProcOf[x]], RequestItem(x, i)) =
                   Number(incoming[x], Request(i)) + Number(toDispatch[ProcOf[x]], RequestItem(x, i))
                       + IF x = c /\ m \in Request(i) THEN 1 ELSE 0
    <2>1. ProcOf[x] \in Proc
      BY ConnAssumption
    <2>2. Number(incoming[x], Request(i)) \in Nat /\ Number(toDispatch[ProcOf[x]], RequestItem(x, i)) \in Nat
      BY <1>2, <2>1, NumberIsNat
    <2>3. Number(toDispatch'[ProcOf[x]], RequestItem(x, i)) =
              Number(toDispatch[ProcOf[x]], RequestItem(x, i)) + IF x = c /\ m \in Request(i) THEN 1 ELSE 0
      <3>1. CASE ProcOf[x] = p
        <4>1. Number(Append(toDispatch[p], item), RequestItem(x, i)) =
                  Number(toDispatch[p], RequestItem(x, i)) + IF item \in RequestItem(x, i) THEN 1 ELSE 0
          BY <1>2, <1>4, NumberAppend
        <4> QED
          BY <1>5, <1>6, <3>1, <4>1
      <3>2. CASE ProcOf[x] # p
        BY <1>5, <2>1, <2>2, <3>2
      <3> QED
        BY <3>1, <3>2
    <2> QED
      BY <1>1, <2>2, <2>3
  <1> QED
    BY <1>1, <1>7, ReadKeepsAll DEF m

(* Closing the socket loses what is in its buffer.                         *)
LEMMA CloseKeepsAll ==
    ASSUME IInv, IInv', NEW c \in Conn, wire' = [wire EXCEPT ![c] = <<>>],
           connected' = [connected EXCEPT ![c] = FALSE],
           UNCHANGED <<outgoing, delayed, stack, incoming, toDispatch>>
    PROVE  KeptAll
  <1> SUFFICES ASSUME NEW x \in Conn, NEW i \in Nat PROVE OwnKept(x, i) /\ HeldKept(x, i)
    BY DEF KeptAll
  <1>1. wire \in [Conn -> Seq(Msg)] /\ connected \in [Conn -> BOOLEAN]
    BY DEF IInv, ConnTypes
  <1>2. CASE x # c
    <2>1. Untouched(x)
      BY <1>1, <1>2 DEF Untouched
    <2> QED
      BY <2>1, UntouchedKept
  <1>3. CASE x = c
    <2>1. wire'[x] = <<>> /\ ~Works(x)'
      BY <1>1, <1>3 DEF Works
    <2>2. Unanswered(x, i)' = Unanswered(x, i)
      BY DEF Unanswered
    <2>3. /\ Number(outgoing[x], Request(i)) \in Nat /\ Number(wire[x], ReplyTo(i)) \in Nat
          /\ Number(wire[x], Request(i)) \in Nat /\ Number(outgoing[x], ReplyTo(i)) \in Nat
          /\ Unanswered(x, i) \in Nat
      BY Splits DEF HoldSums
    <2>4. Number(wire'[x], ReplyTo(i)) = 0 /\ Number(wire'[x], Request(i)) = 0
      BY <2>1, NumberOfEmpty
    <2>5. OwnKept(x, i)
      BY <2>1, <2>3, <2>4 DEF OwnKept
    <2>6. /\ Holds(x, i) = Number(wire[x], Request(i)) + Unanswered(x, i) + Number(outgoing[x], ReplyTo(i))
          /\ Holds(x, i)' = Number(wire'[x], Request(i)) + Unanswered(x, i) + Number(outgoing[x], ReplyTo(i))
      BY <2>2 DEF Holds
    <2>7. Holds(x, i)' <= Holds(x, i)
      BY <2>3, <2>4, <2>6
    <2> QED
      BY <2>1, <2>5, <2>7 DEF HeldKept
  <1> QED
    BY <1>2, <1>3

(* A sequence loses one element when it is cut in two around it.           *)
LEMMA NumberPieces ==
    ASSUME NEW S, NEW s \in Seq(S), NEW k \in DOMAIN s, NEW P
    PROVE  Number(SubSeq(s, 1, k - 1), P) + Number(SubSeq(s, k + 1, Len(s)), P) <= Number(s, P)
  <1> DEFINE a == SubSeq(s, 1, k - 1)
             t == SubSeq(s, k, Len(s))
             b == SubSeq(s, k + 1, Len(s))
  <1>1. Len(s) \in Nat /\ DOMAIN s = 1..Len(s) /\ k \in 1..Len(s)
    BY LenProperties
  <1>2. \A j \in 1..Len(s) : s[j] \in S
    BY ElementOfSeq
  <1>3. a \in Seq(S) /\ b \in Seq(S)
    BY PieceOfSeq
  <1>4. t \in Seq(S) /\ Len(t) = Len(s) - k + 1
    BY <1>1, <1>2, SubSeqProperties
  <1>5. t # <<>>
    <2>1. Len(t) # 0
      BY <1>1, <1>4
    <2> HIDE DEF t
    <2> QED
      BY <2>1, EmptySeq
  <1>6. Tail(t) = b
    <2>1. Len(s) \in k..Len(s)
      BY <1>1
    <2> QED
      BY <1>1, <2>1, HeadTailOfSubSeq
  <1>7. s = a \o t
    <2>1. SubSeq(s, 1, Len(s)) = s
      BY SubSeqFull
    <2>2. SubSeq(s, 1, k - 1) \o SubSeq(s, (k - 1) + 1, Len(s)) = SubSeq(s, 1, Len(s))
      <3>1. 1 \in 1..Len(s) + 1 /\ k - 1 \in 1 - 1..Len(s) /\ Len(s) \in k - 1..Len(s)
        BY <1>1
      <3> QED
        BY <3>1, ConcatAdjacentSubSeq
    <2>3. (k - 1) + 1 = k
      BY <1>1
    <2> QED
      BY <2>1, <2>2, <2>3
  <1> HIDE DEF a, b, t
  <1>8. Number(a \o t, P) = Number(a, P) + Number(t, P)
    BY <1>3, <1>4, NumberConcat
  <1>9. Number(Tail(t), P) \in Nat /\ Number(t, P) = Number(Tail(t), P) + IF Head(t) \in P THEN 1 ELSE 0
    BY <1>4, <1>5, NumberTail
  <1>10. Number(a, P) \in Nat
    BY <1>3, NumberIsNat
  <1>11. Number(s, P) = Number(a, P) + Number(t, P) /\ Number(Tail(t), P) = Number(b, P)
    BY <1>6, <1>7, <1>8
  <1>12. Number(a, P) + Number(b, P) <= Number(s, P)
    BY <1>9, <1>10, <1>11
  <1> QED
    BY <1>12 DEF a, b

(* A write moves messages from the queue of c to the buffer of the other   *)
(* end, or loses them.                                                     *)
Carried(c, P) ==
    LET now  == Number(outgoing[c], P) + Number(wire[Peer[c]], P)
        next == Number(outgoing'[c], P) + Number(wire'[Peer[c]], P)
    IN  next <= now /\ (Works(c)' /\ Works(Peer[c])' => next = now)

LEMMA WriteFlows ==
    ASSUME IInv, IInv', NEW c \in Conn,
           UNCHANGED <<incoming, delayed, toDispatch, stack>>,
           \A x \in Conn : /\ x # c => outgoing'[x] = outgoing[x]
                           /\ x # Peer[c] => wire'[x] = wire[x],
           \A P : Carried(c, P), NEW x \in Conn
    PROVE  Flows(x)
  <1> SUFFICES ASSUME NEW i \in Nat
               PROVE  /\ Tokens(x, i)' <= Tokens(x, i)
                      /\ Works(x)' /\ Works(Peer[x])' => Tokens(x, i)' = Tokens(x, i)
    BY DEF Flows
  <1> DEFINE y == Peer[x]
  <1>1. y \in Conn /\ Peer[y] = x /\ y # x /\ Peer[c] \in Conn /\ Peer[Peer[c]] = c /\ Peer[c] # c
    BY PeerFacts
  <1>2. Unanswered(y, i)' = Unanswered(y, i)
    BY DEF Unanswered
  <1>3. /\ Tokens(x, i) = Number(outgoing[x], Request(i)) + Number(wire[y], Request(i)) + Unanswered(y, i)
                            + Number(outgoing[y], ReplyTo(i)) + Number(wire[x], ReplyTo(i))
        /\ Tokens(x, i)' = Number(outgoing'[x], Request(i)) + Number(wire'[y], Request(i)) + Unanswered(y, i)
                            + Number(outgoing'[y], ReplyTo(i)) + Number(wire'[x], ReplyTo(i))
    BY <1>2 DEF Tokens
  <1>4. /\ Number(outgoing[x], Request(i)) \in Nat /\ Number(wire[y], Request(i)) \in Nat
        /\ Unanswered(y, i) \in Nat
        /\ Number(outgoing[y], ReplyTo(i)) \in Nat /\ Number(wire[x], ReplyTo(i)) \in Nat
    BY <1>1, Splits DEF HoldSums
  <1>5. /\ Number(outgoing'[x], Request(i)) \in Nat /\ Number(wire'[y], Request(i)) \in Nat
        /\ Number(outgoing'[y], ReplyTo(i)) \in Nat /\ Number(wire'[x], ReplyTo(i)) \in Nat
    BY <1>1, NextSplits DEF HoldSums
  <1> HIDE DEF y
  <1>6. CASE x = c
    <2>1. Carried(c, Request(i))
      OBVIOUS
    <2>2. y = Peer[c] /\ outgoing'[y] = outgoing[y] /\ wire'[x] = wire[x]
      BY <1>1, <1>6 DEF y
    <2>3. /\ Number(outgoing'[x], Request(i)) + Number(wire'[y], Request(i))
                 <= Number(outgoing[x], Request(i)) + Number(wire[y], Request(i))
          /\ Works(x)' /\ Works(y)' =>
                 Number(outgoing'[x], Request(i)) + Number(wire'[y], Request(i))
                     = Number(outgoing[x], Request(i)) + Number(wire[y], Request(i))
      BY <1>6, <2>1, <2>2 DEF Carried
    <2>4. Tokens(x, i)' <= Tokens(x, i)
      BY <1>3, <1>4, <1>5, <2>2, <2>3
    <2>5. ASSUME Works(x)', Works(y)' PROVE Tokens(x, i)' = Tokens(x, i)
      BY <1>3, <1>4, <1>5, <2>2, <2>3, <2>5
    <2> QED
      BY <2>4, <2>5 DEF y
  <1>7. CASE x = Peer[c]
    <2>1. Carried(c, ReplyTo(i))
      OBVIOUS
    <2>2. y = c /\ outgoing'[x] = outgoing[x] /\ wire'[y] = wire[y]
      BY <1>1, <1>7 DEF y
    <2>3. /\ Number(outgoing'[y], ReplyTo(i)) + Number(wire'[x], ReplyTo(i))
                 <= Number(outgoing[y], ReplyTo(i)) + Number(wire[x], ReplyTo(i))
          /\ Works(x)' /\ Works(y)' =>
                 Number(outgoing'[y], ReplyTo(i)) + Number(wire'[x], ReplyTo(i))
                     = Number(outgoing[y], ReplyTo(i)) + Number(wire[x], ReplyTo(i))
      BY <1>7, <2>1, <2>2 DEF Carried
    <2>4. Tokens(x, i)' <= Tokens(x, i)
      BY <1>3, <1>4, <1>5, <2>2, <2>3
    <2>5. ASSUME Works(x)', Works(y)' PROVE Tokens(x, i)' = Tokens(x, i)
      BY <1>3, <1>4, <1>5, <2>2, <2>3, <2>5
    <2> QED
      BY <2>4, <2>5 DEF y
  <1>8. CASE x # c /\ x # Peer[c]
    <2>1. y # c /\ y # Peer[c]
      BY <1>1, <1>8
    <2>2. /\ outgoing'[x] = outgoing[x] /\ wire'[y] = wire[y]
          /\ outgoing'[y] = outgoing[y] /\ wire'[x] = wire[x]
      BY <1>1, <1>8, <2>1
    <2> QED
      BY <1>3, <1>4, <2>2
  <1> QED
    BY <1>6, <1>7, <1>8

LEMMA SendOutgoingFlow ==
    ASSUME IInv, IInv', RInv, \A x \in Conn : Wears(x), NEW c \in Conn, SendOutgoingMessages(c)
    PROVE  \A x \in Conn : Flows(x)
  <1> DEFINE d == Peer[c]
             out == outgoing[c]
  <1>1. UNCHANGED <<connected, incoming, delayed, toDispatch, stack>>
    BY DEF SendOutgoingMessages, otherVars, procVars, loopVars, mainVars
  <1>2. d \in Conn /\ d # c
    BY PeerFacts
  <1>3. /\ outgoing \in [Conn -> Seq(Msg)] /\ wire \in [Conn -> Seq(Msg)]
        /\ left \in [Conn -> [Ops -> Nat]] /\ "fail" \in Ops
    BY DEF IInv, ConnTypes, Ops
  <1>4. out \in Seq(Msg) /\ wire[d] \in Seq(Msg)
    BY <1>2, <1>3
  <1>5. \A P : Number(out, P) \in Nat /\ Number(wire[d], P) \in Nat
    BY <1>4, NumberIsNat
  <1>6. ASSUME NEW o, outgoing' = [outgoing EXCEPT ![c] = o],
               NEW w, wire' = [wire EXCEPT ![d] = w],
               \A P : /\ Number(o, P) + Number(w, P) <= Number(out, P) + Number(wire[d], P)
                      /\ Works(c)' /\ Works(d)' =>
                             Number(o, P) + Number(w, P) = Number(out, P) + Number(wire[d], P)
        PROVE  \A x \in Conn : Flows(x)
    <2>1. /\ outgoing'[c] = o /\ wire'[d] = w
          /\ \A x \in Conn : (x # c => outgoing'[x] = outgoing[x]) /\ (x # d => wire'[x] = wire[x])
      BY <1>2, <1>3, <1>6
    <2>2. \A P : Carried(c, P)
      BY <1>6, <2>1 DEF Carried
    <2> QED
      BY <1>1, <2>1, <2>2, WriteFlows
  <1>7. CASE UNCHANGED <<outgoing, wire>>
    <2>1. outgoing' = [outgoing EXCEPT ![c] = out] /\ wire' = [wire EXCEPT ![d] = wire[d]]
      BY <1>3, <1>7
    <2>2. \A P : /\ Number(out, P) + Number(wire[d], P) <= Number(out, P) + Number(wire[d], P)
                 /\ Number(out, P) + Number(wire[d], P) = Number(out, P) + Number(wire[d], P)
      BY <1>5
    <2> HIDE DEF out
    <2> QED
      BY <1>6, <2>1, <2>2
  <1>8. CASE wire' = [wire EXCEPT ![d] = @ \o out] /\ outgoing' = [outgoing EXCEPT ![c] = <<>>]
    <2>1. \A P : Number(<<>>, P) = 0 /\ Number(wire[d] \o out, P) = Number(wire[d], P) + Number(out, P)
      BY <1>4, NumberOfEmpty, NumberConcat
    <2>2. \A P : /\ Number(<<>>, P) + Number(wire[d] \o out, P) <= Number(out, P) + Number(wire[d], P)
                 /\ Number(<<>>, P) + Number(wire[d] \o out, P) = Number(out, P) + Number(wire[d], P)
      BY <1>5, <2>1
    <2> QED
      BY <1>6, <1>8, <2>2
  <1>9. CASE /\ ~connected[d] /\ out # <<>> /\ outgoing' = [outgoing EXCEPT ![c] = Tail(@)]
             /\ UNCHANGED wire
    <2>1. ~Works(d)'
      BY <1>1, <1>9 DEF Works
    <2>2. wire' = [wire EXCEPT ![d] = wire[d]]
      BY <1>3, <1>9
    <2>3. \A P : /\ Number(Tail(out), P) \in Nat
                 /\ Number(out, P) = Number(Tail(out), P) + IF Head(out) \in P THEN 1 ELSE 0
      BY <1>4, <1>9, NumberTail
    <2>4. \A P : Number(Tail(out), P) + Number(wire[d], P) <= Number(out, P) + Number(wire[d], P)
      BY <1>5, <2>3
    <2> QED
      BY <1>6, <1>9, <2>1, <2>2, <2>4
  <1>10. CASE /\ Spend(c, "fail")
              /\ \E k \in DOMAIN out :
                  /\ Write(c, SubSeq(out, 1, k - 1))
                  /\ outgoing' = [outgoing EXCEPT ![c] = SubSeq(@, k + 1, Len(@))]
    <2>1. PICK k \in DOMAIN out :
              /\ wire' = [wire EXCEPT ![d] = @ \o SubSeq(out, 1, k - 1)]
              /\ outgoing' = [outgoing EXCEPT ![c] = SubSeq(out, k + 1, Len(out))]
      BY <1>10 DEF Write
    <2> DEFINE a == SubSeq(out, 1, k - 1)
               b == SubSeq(out, k + 1, Len(out))
    <2>2. ~Works(c)'
      <3>1. left'[c]["fail"] = left[c]["fail"] - 1 /\ left[c]["fail"] \in Nat
        BY <1>3, <1>10 DEF Spend
      <3>2. Works(c)' => left'[c]["fail"] = left[c]["fail"]
        BY WornOut DEF RInv
      <3> QED
        BY <3>1, <3>2
    <2>3. a \in Seq(Msg) /\ b \in Seq(Msg)
      BY <1>4, PieceOfSeq
    <2>4. \A P : Number(a, P) + Number(b, P) <= Number(out, P)
      BY <1>4, NumberPieces
    <2> HIDE DEF a, b
    <2>5. \A P : /\ Number(wire[d] \o a, P) = Number(wire[d], P) + Number(a, P)
                 /\ Number(a, P) \in Nat /\ Number(b, P) \in Nat
      BY <1>4, <2>3, NumberConcat, NumberIsNat
    <2>6. \A P : Number(b, P) + Number(wire[d] \o a, P) <= Number(out, P) + Number(wire[d], P)
      BY <1>5, <2>4, <2>5
    <2>7. wire' = [wire EXCEPT ![d] = wire[d] \o a] /\ outgoing' = [outgoing EXCEPT ![c] = b]
      BY <2>1 DEF a, b
    <2> QED
      BY <1>6, <2>2, <2>6, <2>7
  <1> QED
    BY <1>7, <1>8, <1>9, <1>10 DEF SendOutgoingMessages, Write

-----------------------------------------------------------------------------
(* An end never recovers: a step closes, kills and spends.                 *)
Falling == /\ \A x \in Conn : (client'[x] => client[x]) /\ (connected'[x] => connected[x])
           /\ \A p \in Proc : alive'[p] => alive[p]

Paid == UNCHANGED left \/ \E c \in Conn, op \in Ops : Spend(c, op)

LEMMA FallingWears ==
    ASSUME IInv, Falling, Paid, NEW x \in Conn PROVE Wears(x)
  <1>1. left \in [Conn -> [Ops -> Nat]] /\ "fail" \in Ops /\ ProcOf[x] \in Proc
    BY ConnAssumption DEF IInv, ConnTypes, Ops
  <1>2. left[x]["fail"] \in Nat
    BY <1>1
  <1>3. left'[x]["fail"] <= left[x]["fail"]
    <2>1. CASE UNCHANGED left
      BY <1>2, <2>1
    <2>2. CASE \E c \in Conn, op \in Ops : Spend(c, op)
      <3>1. PICK c \in Conn, op \in Ops : Spend(c, op)
        BY <2>2
      <3>2. left' = [left EXCEPT ![c][op] = @ - 1]
        BY <3>1 DEF Spend
      <3>3. left'[x]["fail"] = left[x]["fail"] \/ left'[x]["fail"] = left[x]["fail"] - 1
        BY <1>1, <3>2
      <3> QED
        BY <1>2, <3>3
    <2> QED
      BY <2>1, <2>2 DEF Paid
  <1> QED
    BY <1>1, <1>3 DEF Wears, Falling

LEMMA OpNames ==
    /\ "async" \in Ops /\ "urgent" \in Ops /\ "sync" \in Ops /\ "secondary" \in Ops
    /\ "delay" \in Ops /\ "invalidate" \in Ops /\ "invalid" \in Ops /\ "timeout" \in Ops
    /\ "increment" \in Ops /\ "fail" \in Ops /\ "posted" \in Ops /\ "crash" \in Ops
  BY DEF Ops

LEMMA FallSame == ASSUME UNCHANGED <<client, connected, alive>> PROVE Falling
  BY DEF Falling

LEMMA FallTerminates ==
    ASSUME NEW p \in Proc, alive \in [Proc -> BOOLEAN], UNCHANGED client, Terminate(p) PROVE Falling
  BY DEF Falling, Terminate

LEMMA ClientWears ==
    ASSUME IInv, NEW c \in Conn, Client(c) \/ SendDelayedReply(c) PROVE Falling /\ Paid
  <1>1. /\ client \in [Conn -> BOOLEAN] /\ alive \in [Proc -> BOOLEAN] /\ ProcOf[c] \in Proc
    BY ConnAssumption DEF IInv, ConnTypes
  <1>2. CASE Send(c)
    <2>1. UNCHANGED <<client, connected, alive>>
      BY <1>2 DEF Send, socketVars, procVars, mainVars
    <2>2. \E op \in {"async", "urgent"} : Spend(c, op)
      BY <1>2 DEF Send
    <2> QED
      BY <2>1, <2>2, FallSame, OpNames DEF Paid
  <1>3. CASE SendSync(c)
    <2>1. Spend(c, "sync") /\ UNCHANGED client
      BY <1>3 DEF SendSync
    <2>2. UNCHANGED <<alive, connected>> \/ Terminate(ProcOf[c])
      BY <1>3 DEF SendSync, DidFailToSendSyncMessage
    <2> QED
      BY <1>1, <2>1, <2>2, FallSame, FallTerminates, OpNames DEF Paid
  <1>4. CASE Invalidate(c)
    <2>1. Spend(c, "invalidate") /\ client' = [client EXCEPT ![c] = FALSE] /\ UNCHANGED <<connected, alive>>
      BY <1>4 DEF Invalidate, socketVars, procVars, mainVars
    <2> QED
      BY <1>1, <2>1, OpNames DEF Paid, Falling
  <1>5. CASE SecondaryBegin(c)
    <2>1. Spend(c, "secondary") /\ UNCHANGED <<client, connected, alive>>
      BY <1>5 DEF SecondaryBegin, socketVars, procVars, mainVars
    <2> QED
      BY <2>1, FallSame, OpNames DEF Paid
  <1>6. CASE PostConnectionDidClose(c)
    <2>1. Spend(c, "posted") /\ UNCHANGED <<client, connected, alive>>
      BY <1>6 DEF PostConnectionDidClose, socketVars, procVars, mainVars
    <2> QED
      BY <2>1, FallSame, OpNames DEF Paid
  <1>7. CASE Crash(c)
    <2>1. Spend(c, "crash") /\ UNCHANGED client /\ Terminate(ProcOf[c])
      BY <1>7 DEF Crash
    <2> QED
      BY <1>1, <2>1, FallTerminates, OpNames DEF Paid
  <1>8. CASE SendDelayedReply(c)
    <2>1. UNCHANGED <<client, connected, alive, left>>
      BY <1>8 DEF SendDelayedReply, socketVars, procVars, mainVars, countVars
    <2> QED
      BY <2>1, FallSame DEF Paid
  <1> QED
    BY <1>2, <1>3, <1>4, <1>5, <1>6, <1>7, <1>8 DEF Client

LEMMA QueueWears ==
    ASSUME IInv, NEW c \in Conn,
           \/ QueueThread(c) \/ SecondaryThread(c) \/ SecondaryReturn(c, TRUE)
    PROVE  Falling /\ Paid
  <1>1. connected \in [Conn -> BOOLEAN]
    BY DEF IInv, ConnTypes
  <1>2. CASE SendOutgoingMessages(c)
    <2>1. UNCHANGED <<client, connected, alive>> /\ (UNCHANGED left \/ Spend(c, "fail"))
      BY <1>2 DEF SendOutgoingMessages, procVars, mainVars
    <2> QED
      BY <2>1, FallSame, OpNames DEF Paid
  <1>3. CASE PlatformInvalidate(c) \/ ReadEndOfFile(c) \/ PostedDidClose(c)
    <2>1. connected' = [connected EXCEPT ![c] = FALSE] /\ UNCHANGED <<client, alive, left>>
      BY <1>3 DEF PlatformInvalidate, ReadEndOfFile, PostedDidClose, ConnectionDidClose, procVars,
                  mainVars, countVars
    <2> QED
      BY <1>1, <2>1 DEF Falling, Paid
  <1>4. CASE \/ ProcessIncomingSyncReply(c) \/ ProcessMarkedMessage(c)
             \/ WakeUpClientRunLoop(c) \/ EnqueueIncomingMessage(c)
    <2>1. UNCHANGED <<client, connected, alive, left>>
      BY <1>4 DEF ProcessIncomingSyncReply, ProcessMarkedMessage, WakeUpClientRunLoop,
                  EnqueueIncomingMessage, mainVars, countVars
    <2> QED
      BY <2>1, FallSame DEF Paid
  <1>5. CASE SecondarySend(c) \/ SecondaryReturn(c, FALSE) \/ SecondaryReturn(c, TRUE)
    <2>1. UNCHANGED <<client, connected, alive>> /\ (UNCHANGED left \/ Spend(c, "timeout"))
      BY <1>5 DEF SecondarySend, SecondaryReturn, socketVars, procVars, mainVars
    <2> QED
      BY <2>1, FallSame, OpNames DEF Paid
  <1> QED
    BY <1>2, <1>3, <1>4, <1>5 DEF QueueThread, SecondaryThread

LEMMA MainWears ==
    ASSUME IInv, NEW p \in Proc,
           MainThread(p) \/ MarkInvalid(p) \/ IncrementMarkedCount(p) \/ SyncTimeout(p)
    PROVE  Falling /\ Paid
  <1>1. /\ client \in [Conn -> BOOLEAN] /\ alive \in [Proc -> BOOLEAN]
        /\ \A x \in Conn : ProcOf[x] \in Proc
    BY ConnAssumption DEF IInv, ConnTypes
  <1>2. "handler" # "batch" /\ "sync" # "batch"
    OBVIOUS
  <1>3. CASE EndDispatch(p)
    <2>1. At(p, "handler", "run") /\ UNCHANGED <<connected, alive>>
      BY <1>3 DEF EndDispatch, socketVars
    <2>2. Top(p).conn \in Conn
      BY <1>2, <2>1, TopWeight
    <2>3. /\ UNCHANGED left \/ Spend(Top(p).conn, "delay")
          /\ client' = [client EXCEPT ![Top(p).conn] =
                            @ /\ ~(invalid[Top(p).conn] /\ client[Top(p).conn])]
      BY <1>3 DEF EndDispatch
    <2>4. \A x \in Conn : client'[x] => client[x]
      BY <1>1, <2>2, <2>3
    <2> QED
      BY <2>1, <2>2, <2>3, <2>4, OpNames DEF Falling, Paid
  <1>4. CASE DispatchConnectionDidClose(p)
    <2>1. client' = [client EXCEPT ![Head(runq[p]).conn] = FALSE] /\ UNCHANGED <<connected, alive, left>>
      BY <1>4 DEF DispatchConnectionDidClose, socketVars, mainVars, countVars
    <2> QED
      BY <1>1, <2>1 DEF Falling, Paid
  <1>5. CASE \/ DispatchOneMessage(p) \/ DispatchMessagesTask(p) \/ SwapMessages(p)
             \/ DispatchNext(p) \/ PutBack(p) \/ SyncDispatch(p) \/ SyncWake(p)
    <2>1. UNCHANGED <<client, connected, alive, left>>
      BY <1>5 DEF DispatchOneMessage, DispatchMessagesTask, SwapMessages, DispatchNext, PutBack,
                  SyncDispatch, SyncWake, connVars, socketVars, mainVars, countVars
    <2> QED
      BY <2>1, FallSame DEF Paid
  <1>6. ASSUME NEW pc, At(p, "sync", pc), NEW ok, SyncReturn(p, Top(p).conn, ok) PROVE Falling
    <2>1. Top(p).conn \in Conn
      BY <1>2, <1>6, TopWeight
    <2>2. UNCHANGED client /\ (UNCHANGED <<alive, connected>> \/ Terminate(ProcOf[Top(p).conn]))
      BY <1>6 DEF SyncReturn, DidFailToSendSyncMessage
    <2> QED
      BY <1>1, <2>1, <2>2, FallSame, FallTerminates
  <1>7. CASE SyncCheck(p)
    <2>1. /\ UNCHANGED left /\ At(p, "sync", "check")
          /\ \/ SyncReturn(p, Top(p).conn, Last(pending[Top(p).conn]).got)
             \/ UNCHANGED <<client, connected, alive>>
      BY <1>7 DEF SyncCheck, connVars, socketVars
    <2> QED
      BY <1>6, <2>1, FallSame DEF Paid
  <1>8. CASE SyncTimeout(p)
    <2>1. At(p, "sync", "blocked") /\ Spend(Top(p).conn, "timeout") /\ SyncReturn(p, Top(p).conn, FALSE)
      BY <1>8 DEF SyncTimeout
    <2>2. Top(p).conn \in Conn
      BY <1>2, <2>1, TopWeight
    <2> QED
      BY <1>6, <2>1, <2>2, OpNames DEF Paid
  <1>9. CASE MarkInvalid(p) \/ IncrementMarkedCount(p)
    <2>1. /\ At(p, "handler", "run") /\ UNCHANGED <<client, connected, alive>>
          /\ Spend(Top(p).conn, "invalid") \/ Spend(Top(p).conn, "increment")
      BY <1>9 DEF MarkInvalid, IncrementMarkedCount, socketVars, procVars, mainVars
    <2>2. Top(p).conn \in Conn
      BY <1>2, <2>1, TopWeight
    <2> QED
      BY <2>1, <2>2, FallSame, OpNames DEF Paid
  <1> QED
    BY <1>3, <1>4, <1>5, <1>7, <1>8, <1>9 DEF MainThread

LEMMA NextWears == ASSUME IInv, [Next]_vars PROVE \A x \in Conn : Wears(x)
  <1>1. CASE UNCHANGED vars
    <2>1. UNCHANGED <<client, connected, alive, left>>
      BY <1>1 DEF vars, connVars, procVars, socketVars, mainVars, countVars
    <2>2. Falling /\ Paid
      BY <2>1, FallSame DEF Paid
    <2> QED
      BY <2>2, FallingWears
  <1>2. CASE Next
    <2>1. Falling /\ Paid
      BY <1>2, ClientWears, QueueWears, MainWears DEF Next
    <2> QED
      BY <2>1, FallingWears
  <1> QED
    BY <1>1, <1>2

-----------------------------------------------------------------------------
(* The calls and their identifiers.  A call that is not touched, or loses  *)
(* its top, or returns: no call begins and no identifier appears.          *)
LEMMA SameCalls ==
    ASSUME NEW c \in Conn, Identified(c), pending'[c] = pending[c], secondary'[c] = secondary[c],
           requestID'[c] = requestID[c]
    PROVE  Identified(c)' /\ Calm(c)
  BY DEF Identified, Calm, Unsent, InCall

LEMMA CallReturns ==
    ASSUME IInv, NEW c \in Conn, Identified(c), pending[c] # <<>>, pending'[c] = Front(pending[c]),
           secondary'[c] = secondary[c], requestID'[c] = requestID[c]
    PROVE  Identified(c)' /\ Calm(c)
  <1> DEFINE w == pending[c]
  <1>1. w \in Seq(PendingReply)
    BY DEF IInv, WaitTypes
  <1>2. /\ Front(w) \in Seq(PendingReply) /\ Len(Front(w)) = Len(w) - 1 /\ Len(w) \in Nat \ {0}
        /\ \A k \in 1..Len(w) - 1 : Front(w)[k] = w[k]
    BY <1>1, FrontFacts
  <1>3. DOMAIN w = 1..Len(w) /\ DOMAIN Front(w) = 1..Len(w) - 1
    BY <1>1, <1>2, LenProperties
  <1>4. \A k \in DOMAIN Front(w) : k \in DOMAIN w /\ Front(w)[k] = w[k]
    BY <1>2, <1>3
  <1> HIDE DEF w
  <1>5. pending'[c] = Front(w) /\ pending[c] = w
    BY DEF w
  <1>6. Identified(c)'
    BY <1>4, <1>5 DEF Identified
  <1>7. \A i \in Nat : Unsent(c, i)' => Unsent(c, i)
    BY DEF Unsent
  <1>8. \A i \in Nat, got \in BOOLEAN : InCall(c, i, got)' => InCall(c, i, got)
    BY <1>4, <1>5 DEF InCall
  <1> QED
    BY <1>6, <1>7, <1>8 DEF Calm

(* A secondary thread whose call ends, or is told of the close.            *)
LEMMA SecondaryEnds ==
    ASSUME NEW c \in Conn, Identified(c), pending'[c] = pending[c], requestID'[c] = requestID[c],
           \/ secondary'[c].pc = "idle"
           \/ /\ secondary'[c].pc = secondary[c].pc /\ secondary'[c].id = secondary[c].id
              /\ secondary'[c].got = secondary[c].got
    PROVE  Identified(c)' /\ Calm(c)
  <1>1. Identified(c)'
    BY DEF Identified
  <1>2. \A i \in Nat : Unsent(c, i)' => Unsent(c, i)
    BY DEF Unsent
  <1>3. \A i \in Nat, got \in BOOLEAN : InCall(c, i, got)' => InCall(c, i, got)
    BY DEF InCall
  <1> QED
    BY <1>1, <1>2, <1>3 DEF Calm

(* A call that fails at once, or a secondary thread that has not sent its  *)
(* message: the next identifier is given out.                              *)
LEMMA NewIdentifier ==
    ASSUME IInv, NEW c \in Conn, Identified(c), pending'[c] = pending[c],
           requestID'[c] = requestID[c] + 1,
           \/ secondary'[c] = secondary[c]
           \/ secondary'[c] = [pc |-> "send", id |-> requestID[c] + 1, got |-> FALSE, set |-> FALSE]
    PROVE  Identified(c)' /\ Calm(c)
  <1> DEFINE r == requestID[c]
             w == pending[c]
  <1>1. /\ r \in Nat /\ secondary[c].id \in Nat
        /\ \A k \in DOMAIN w : w[k].id \in Nat
    <2>1. w \in Seq(PendingReply)
      BY DEF IInv, WaitTypes
    <2>2. \A k \in DOMAIN w : w[k] \in PendingReply
      BY <2>1, ElementOfSeq, LenProperties
    <2> QED
      BY <2>2 DEF IInv, ConnTypes, SecondaryCall, PendingReply
  <1>2. /\ \A k \in DOMAIN w : w[k].id <= r
        /\ secondary[c].pc # "idle" => /\ secondary[c].id <= r
                                       /\ \A k \in DOMAIN w : w[k].id # secondary[c].id
        /\ secondary[c].pc = "send" => ~secondary[c].got
    BY DEF Identified
  <1> HIDE DEF r, w
  <1>3. /\ pending'[c] = w /\ pending[c] = w /\ requestID[c] = r /\ requestID'[c] = r + 1
    BY DEF r, w
  <1>4. CASE secondary'[c] = secondary[c]
    <2>1. Identified(c)'
      BY <1>1, <1>2, <1>3, <1>4 DEF Identified
    <2>2. \A i \in Nat : Unsent(c, i)' => Unsent(c, i)
      BY <1>1, <1>3, <1>4 DEF Unsent
    <2>3. \A i \in Nat, got \in BOOLEAN : InCall(c, i, got)' => InCall(c, i, got)
      BY <1>3, <1>4 DEF InCall
    <2> QED
      BY <2>1, <2>2, <2>3 DEF Calm
  <1>5. CASE secondary'[c] = [pc |-> "send", id |-> r + 1, got |-> FALSE, set |-> FALSE]
    <2>1. secondary'[c].pc = "send" /\ secondary'[c].id = r + 1 /\ secondary'[c].got = FALSE
      BY <1>5
    <2>2. Identified(c)'
      BY <1>1, <1>2, <1>3, <2>1 DEF Identified
    <2>3. \A i \in Nat : Unsent(c, i)' => Unsent(c, i)
      BY <1>1, <1>3, <2>1 DEF Unsent
    <2>4. \A i \in Nat, got \in BOOLEAN : InCall(c, i, got)' => InCall(c, i, got)
      BY <1>3, <2>1 DEF InCall
    <2> QED
      BY <2>2, <2>3, <2>4 DEF Calm
  <1> QED
    BY <1>3, <1>4, <1>5

(* A step in which nothing of the sort happens anywhere but on c.          *)
LEMMA KeptInv ==
    ASSUME IInv, IInv', RInv, \A x \in Conn : Wears(x), NEW c \in Conn,
           \A x \in Conn \ {c} : Identified(x)' /\ Calm(x) /\ Flows(x),
           Identified(c)', \A i \in Nat : Account(c, i)'
    PROVE  RInv'
  <1>1. Spent'
    BY WornOut DEF RInv
  <1>2. \A x \in Conn \ {c} : \A i \in Nat : Account(x, i)'
    BY FlowKeeps
  <1> QED
    BY <1>1, <1>2 DEF RInv

LEMMA CalmInv ==
    ASSUME IInv, IInv', RInv, \A x \in Conn : Wears(x),
           \A x \in Conn : Identified(x)' /\ Calm(x) /\ Flows(x)
    PROVE  RInv'
  <1>1. Spent'
    BY WornOut DEF RInv
  <1>2. \A x \in Conn : \A i \in Nat : Account(x, i)'
    BY FlowKeeps
  <1> QED
    BY <1>1, <1>2 DEF RInv

LEMMA KeptAllFlows ==
    ASSUME IInv, IInv', KeptAll PROVE \A x \in Conn : Flows(x)
  BY PeerFacts, KeptFlows DEF KeptAll

(* The calls are left alone.                                               *)
LEMMA QuietInv ==
    ASSUME IInv, IInv', RInv, \A x \in Conn : Wears(x), KeptAll,
           UNCHANGED <<pending, secondary, requestID>>
    PROVE  RInv'
  <1>1. \A x \in Conn : Flows(x)
    BY KeptAllFlows
  <1>2. \A x \in Conn : Identified(x)' /\ Calm(x)
    BY SameCalls DEF RInv
  <1> QED
    BY <1>1, <1>2, CalmInv

(* One connection is touched.                                              *)
LEMMA OneCallInv ==
    ASSUME IInv, IInv', RInv, \A x \in Conn : Wears(x), KeptAll, NEW c \in Conn,
           \A x \in Conn \ {c} : /\ pending'[x] = pending[x] /\ secondary'[x] = secondary[x]
                                 /\ requestID'[x] = requestID[x],
           Identified(c)', Calm(c)
    PROVE  RInv'
  <1>1. \A x \in Conn : Flows(x)
    BY KeptAllFlows
  <1>2. \A x \in Conn \ {c} : Identified(x)' /\ Calm(x)
    BY SameCalls DEF RInv
  <1>3. \A x \in Conn : Identified(x)' /\ Calm(x)
    BY <1>2
  <1> QED
    BY <1>1, <1>3, CalmInv

LEMMA SameKept ==
    ASSUME IInv, UNCHANGED <<outgoing, wire, incoming, delayed, toDispatch, stack>> PROVE KeptAll
  <1>1. \A x \in Conn : Untouched(x)
    BY DEF Untouched
  <1> QED
    BY <1>1, UntouchedKept DEF KeptAll

LEMMA SyncReturnInv ==
    ASSUME IInv, IInv', RInv, \A x \in Conn : Wears(x), NEW p \in Proc, NEW pc,
           At(p, "sync", pc), NEW ok, SyncReturn(p, Top(p).conn, ok)
    PROVE  RInv'
  <1>1. KeptAll
    BY SyncReturnFlow
  <1>2. "sync" # "batch"
    OBVIOUS
  <1>3. WaitInv /\ pending \in [Conn -> Seq(PendingReply)]
    BY DEF IInv, WaitInv, WaitTypes
  <1>4. /\ Top(p).conn \in Conn /\ Top(p).conn \in Home(p)
        /\ \A x \in Conn : /\ Number(Front(stack[p]), SyncFrame(x)) \in Nat
                          /\ Number(stack[p], SyncFrame(x)) = Number(Front(stack[p]), SyncFrame(x))
                                 + IF "sync" = "sync" /\ Top(p).conn = x THEN 1 ELSE 0
    BY <1>2, <1>3, TopFacts
  <1>5. PICK c \in Conn : c = Top(p).conn
    BY <1>4
  <1>6. pending' = [pending EXCEPT ![c] = Front(pending[c])] /\ UNCHANGED <<secondary, requestID>>
    BY <1>5 DEF SyncReturn, PopPending, otherVars
  <1>7. Len(pending[c]) = Number(stack[p], SyncFrame(c))
    BY <1>3, <1>4, <1>5, HomeFacts
  <1>8. pending[c] # <<>>
    <2>1. Len(pending[c]) # 0
      BY <1>4, <1>5, <1>7
    <2> QED
      BY <2>1, EmptySeq
  <1>9. pending'[c] = Front(pending[c]) /\ \A x \in Conn \ {c} : pending'[x] = pending[x]
    BY <1>3, <1>6
  <1>10. \A x \in Conn : secondary'[x] = secondary[x] /\ requestID'[x] = requestID[x] /\ Identified(x)
    BY <1>6 DEF RInv
  <1>11. Identified(c)' /\ Calm(c)
    BY <1>8, <1>9, <1>10, CallReturns
  <1> QED
    BY <1>1, <1>9, <1>10, <1>11, OneCallInv

LEMMA SecondaryInv ==
    ASSUME IInv, IInv', RInv, \A x \in Conn : Wears(x), NEW c \in Conn,
           SecondaryBegin(c) \/ SecondaryReturn(c, FALSE) \/ SecondaryReturn(c, TRUE)
    PROVE  RInv'
  <1>1. /\ UNCHANGED <<outgoing, wire, incoming, delayed, toDispatch, stack>> /\ UNCHANGED pending
    BY DEF SecondaryBegin, SecondaryReturn, outVars, socketVars, procVars, loopVars, mainVars, replyVars
  <1>2. KeptAll
    BY <1>1, SameKept
  <1>3. secondary \in [Conn -> SecondaryCall] /\ requestID \in [Conn -> Nat] /\ Identified(c)
    BY DEF IInv, ConnTypes, RInv
  <1>4. CASE SecondaryBegin(c)
    <2> DEFINE call == [pc |-> "send", id |-> requestID[c] + 1, got |-> FALSE, set |-> FALSE]
    <2>1. /\ requestID' = [requestID EXCEPT ![c] = @ + 1]
          /\ secondary' = secondary \/ secondary' = [secondary EXCEPT ![c] = call]
      BY <1>4 DEF SecondaryBegin
    <2> HIDE DEF call
    <2>2. /\ requestID'[c] = requestID[c] + 1 /\ \A x \in Conn \ {c} : requestID'[x] = requestID[x]
          /\ secondary'[c] = secondary[c] \/ secondary'[c] = call
          /\ \A x \in Conn \ {c} : secondary'[x] = secondary[x]
      BY <1>3, <2>1
    <2>3. Identified(c)' /\ Calm(c)
      BY <1>1, <1>3, <2>2, NewIdentifier DEF call
    <2> QED
      BY <1>1, <1>2, <2>2, <2>3, OneCallInv
  <1>5. CASE SecondaryReturn(c, FALSE) \/ SecondaryReturn(c, TRUE)
    <2>1. UNCHANGED requestID /\ secondary' = [secondary EXCEPT ![c] = NoCall]
      BY <1>5 DEF SecondaryReturn, replyVars
    <2>2. secondary'[c].pc = "idle" /\ \A x \in Conn \ {c} : secondary'[x] = secondary[x]
      BY <1>3, <2>1 DEF NoCall
    <2>3. Identified(c)' /\ Calm(c)
      BY <1>1, <1>3, <2>1, <2>2, SecondaryEnds
    <2> QED
      BY <1>1, <1>2, <2>1, <2>2, <2>3, OneCallInv
  <1> QED
    BY <1>4, <1>5

LEMMA DidCloseInv ==
    ASSUME IInv, IInv', RInv, \A x \in Conn : Wears(x), NEW c \in Conn, ConnectionDidClose(c)
    PROVE  RInv'
  <1>1. /\ wire' = [wire EXCEPT ![c] = <<>>] /\ connected' = [connected EXCEPT ![c] = FALSE]
        /\ UNCHANGED <<outgoing, delayed, stack, incoming, toDispatch, pending, requestID>>
        /\ secondary' = [secondary EXCEPT ![c].set = SecondaryAtClose(c)]
    BY DEF ConnectionDidClose, mainVars
  <1>2. KeptAll
    BY <1>1, CloseKeepsAll
  <1>3. secondary \in [Conn -> SecondaryCall] /\ Identified(c)
    BY DEF IInv, ConnTypes, RInv
  <1>4. /\ secondary'[c].pc = secondary[c].pc /\ secondary'[c].id = secondary[c].id
        /\ secondary'[c].got = secondary[c].got
        /\ \A x \in Conn \ {c} : secondary'[x] = secondary[x]
    BY <1>1, <1>3 DEF SecondaryCall
  <1>5. Identified(c)' /\ Calm(c)
    BY <1>1, <1>3, <1>4, SecondaryEnds
  <1> QED
    BY <1>1, <1>2, <1>4, <1>5, OneCallInv

(* A request goes out with an identifier that nothing has yet.             *)
LEMMA IssueInv ==
    ASSUME IInv, IInv', RInv, \A x \in Conn : Wears(x), NEW c \in Conn, NEW m \in Msg,
           m.kind = "sync", SendMessage(c, m), client' = client,
           UNCHANGED <<wire, incoming, delayed, toDispatch>>,
           \A x \in Conn, i \in Nat :
               StackLoad(stack'[ProcOf[x]], x, i) = StackLoad(stack[ProcOf[x]], x, i),
           \A x \in Conn \ {c} : /\ pending'[x] = pending[x] /\ secondary'[x] = secondary[x]
                                 /\ requestID'[x] = requestID[x],
           Identified(c)', Unsent(c, m.id), ~Unsent(c, m.id)', ~InCall(c, m.id, TRUE)',
           \A i \in Nat : i # m.id =>
               /\ Unsent(c, i)' => Unsent(c, i)
               /\ \A got \in BOOLEAN : InCall(c, i, got)' => InCall(c, i, got)
    PROVE  RInv'
  <1> DEFINE j == m.id
             one(i) == IF client[c] /\ j = i THEN 1 ELSE 0
  <1>1. outgoing \in [Conn -> Seq(Msg)] /\ j \in Nat
    BY DEF IInv, ConnTypes, Msg
  <1>2. /\ outgoing'[c] = IF client[c] THEN Append(outgoing[c], m) ELSE outgoing[c]
        /\ \A x \in Conn \ {c} : outgoing'[x] = outgoing[x]
    BY <1>1 DEF SendMessage, outVars
  <1>3. \A i : m \notin ReplyTo(i) /\ (m \in Request(i) <=> j = i)
    BY Counted
  <1>4. ASSUME NEW i \in Nat
        PROVE  /\ Number(outgoing'[c], Request(i)) = Number(outgoing[c], Request(i)) + one(i)
               /\ Number(outgoing'[c], ReplyTo(i)) = Number(outgoing[c], ReplyTo(i))
    <2>1. Number(outgoing[c], Request(i)) \in Nat /\ Number(outgoing[c], ReplyTo(i)) \in Nat
      BY <1>1, NumberIsNat
    <2>2. /\ Number(Append(outgoing[c], m), Request(i)) =
                 Number(outgoing[c], Request(i)) + IF m \in Request(i) THEN 1 ELSE 0
          /\ Number(Append(outgoing[c], m), ReplyTo(i)) =
                 Number(outgoing[c], ReplyTo(i)) + IF m \in ReplyTo(i) THEN 1 ELSE 0
      BY <1>1, NumberAppend
    <2> HIDE DEF j
    <2> QED
      BY <1>2, <1>3, <2>1, <2>2
  <1>5. ASSUME NEW x \in Conn, NEW i \in Nat PROVE Holds(x, i)' = Holds(x, i) /\ Holds(x, i) \in Nat
    <2>1. Number(outgoing'[x], ReplyTo(i)) = Number(outgoing[x], ReplyTo(i))
      BY <1>2, <1>4
    <2>2. KeptOne(x, i)' = KeptOne(x, i)
      BY DEF KeptOne
    <2>3. StackLoad(stack'[ProcOf[x]], x, i) = StackLoad(stack[ProcOf[x]], x, i)
      OBVIOUS
    <2>4. /\ Holds(x, i) \in Nat
          /\ \E b \in Nat :
                /\ Holds(x, i) = b + StackLoad(stack[ProcOf[x]], x, i) + KeptOne(x, i)
                                   + Number(outgoing[x], ReplyTo(i))
                /\ Holds(x, i)' = b + StackLoad(stack'[ProcOf[x]], x, i) + KeptOne(x, i)'
                                   + Number(outgoing'[x], ReplyTo(i))
      BY HoldsParts
    <2> QED
      BY <2>1, <2>2, <2>3, <2>4
  <1>6. \A x \in Conn, i \in Nat : HeldKept(x, i)
    BY <1>5 DEF HeldKept
  <1>7. ASSUME NEW x \in Conn \ {c} PROVE Identified(x)' /\ Calm(x) /\ Flows(x)
    <2>1. \A i \in Nat : OwnKept(x, i)
      <3> TAKE i \in Nat
      <3>1. Number(outgoing[x], Request(i)) \in Nat /\ Number(wire[x], ReplyTo(i)) \in Nat
        BY Splits DEF HoldSums
      <3>2. outgoing'[x] = outgoing[x]
        BY <1>2
      <3> QED
        BY <3>1, <3>2 DEF OwnKept
    <2>2. Flows(x)
      BY <1>6, <2>1, PeerFacts, KeptFlows
    <2>3. Identified(x)
      BY DEF RInv
    <2> QED
      BY <2>2, <2>3, SameCalls
  <1>8. ASSUME NEW i \in Nat PROVE Account(c, i)'
    <2>1. Peer[c] \in Conn
      BY PeerFacts
    <2>2. /\ Tokens(c, i) = Number(outgoing[c], Request(i)) + Holds(Peer[c], i) + Number(wire[c], ReplyTo(i))
          /\ Tokens(c, i) \in Nat
          /\ Number(outgoing[c], Request(i)) \in Nat /\ Number(wire[c], ReplyTo(i)) \in Nat
      BY Splits DEF SplitTokens, HoldSums
    <2>3. Tokens(c, i)' = Number(outgoing'[c], Request(i)) + Holds(Peer[c], i)' + Number(wire[c], ReplyTo(i))
      BY NextSplits DEF SplitTokens
    <2>4. /\ Number(outgoing'[c], Request(i)) = Number(outgoing[c], Request(i)) + one(i)
          /\ Holds(Peer[c], i)' = Holds(Peer[c], i) /\ Holds(Peer[c], i) \in Nat
      BY <1>4, <1>5, <2>1
    <2>5. one(i) \in Nat
      OBVIOUS
    <2>6. Tokens(c, i)' = Tokens(c, i) + one(i)
      <3> HIDE DEF one
      <3> QED
        BY <2>2, <2>3, <2>4, <2>5
    <2>7. Account(c, i) /\ Spent
      BY DEF RInv
    <2>8. Works(c)' /\ Works(Peer[c])' => Works(c) /\ Works(Peer[c]) /\ client[c]
      BY <2>1, <2>7, WornOut DEF Works
    <2>9. CASE i = j
      <3>1. Tokens(c, i) = 0
        <4>1. Unsent(c, i)
          BY <2>9
        <4> QED
          BY <2>7, <4>1 DEF Account
      <3>2. Tokens(c, i)' = IF client[c] THEN 1 ELSE 0
        BY <2>6, <2>9, <3>1
      <3>3. ~Unsent(c, i)' /\ ~InCall(c, i, TRUE)'
        BY <2>9
      <3>4. Tokens(c, i)' <= 1 /\ (client[c] => Tokens(c, i)' = 1)
        BY <3>2
      <3> QED
        BY <2>8, <3>3, <3>4 DEF Account
    <2>10. CASE i # j
      <3>1. Tokens(c, i)' = Tokens(c, i)
        BY <2>2, <2>6, <2>10
      <3>2. /\ Unsent(c, i)' => Unsent(c, i)
            /\ InCall(c, i, TRUE)' => InCall(c, i, TRUE)
            /\ InCall(c, i, FALSE)' => InCall(c, i, FALSE)
        BY <2>10
      <3> QED
        BY <2>7, <2>8, <3>1, <3>2 DEF Account
    <2> QED
      BY <2>9, <2>10
  <1> QED
    BY <1>7, <1>8, KeptInv

LEMMA SecondarySendInv ==
    ASSUME IInv, IInv', RInv, \A x \in Conn : Wears(x), NEW c \in Conn, SecondarySend(c)
    PROVE  RInv'
  <1>1. /\ secondary \in [Conn -> SecondaryCall] /\ requestID[c] \in Nat /\ sent[c] \in Nat
        /\ secondary[c].id \in Nat
    BY DEF IInv, ConnTypes, SecondaryCall
  <1>2. [kind |-> "sync", id |-> secondary[c].id, marked |-> ShouldMark(c, FALSE), n |-> sent[c] + 1] \in Msg
    <2>1. ShouldMark(c, FALSE) \in BOOLEAN
      BY ShouldMarkType, Zenon
    <2>2. sent[c] + 1 \in Nat
      BY <1>1
    <2> QED
      BY <1>1, <2>1, <2>2, MessageTypes
  <1>3. PICK m \in Msg :
            m = [kind |-> "sync", id |-> secondary[c].id, marked |-> ShouldMark(c, FALSE), n |-> sent[c] + 1]
    BY <1>2
  <1>4. m.kind = "sync" /\ m.id = secondary[c].id
    BY <1>3
  <1>5. /\ SendMessage(c, m) /\ client' = client
        /\ UNCHANGED <<wire, incoming, delayed, toDispatch, stack, pending, requestID>>
        /\ secondary' = [secondary EXCEPT ![c].pc = "blocked"] /\ secondary[c].pc = "send"
    BY <1>3 DEF SecondarySend, replyVars, socketVars, procVars, loopVars, mainVars
  <1>6. /\ secondary'[c].pc = "blocked" /\ secondary'[c].id = secondary[c].id
        /\ secondary'[c].got = secondary[c].got
        /\ \A x \in Conn \ {c} : secondary'[x] = secondary[x]
    BY <1>1, <1>5 DEF SecondaryCall
  <1>7. /\ \A k \in DOMAIN pending[c] : pending[c][k].id <= requestID[c] /\ pending[c][k].id # m.id
        /\ m.id <= requestID[c] /\ m.id \in Nat /\ ~secondary[c].got
    <2>1. Identified(c)
      BY DEF RInv
    <2>2. secondary[c].pc = "send" /\ "send" # "idle"
      BY <1>5
    <2> QED
      BY <1>1, <1>4, <2>1, <2>2 DEF Identified
  <1>8. Identified(c)'
    BY <1>4, <1>5, <1>6, <1>7 DEF Identified
  <1>9. Unsent(c, m.id)
    BY <1>4, <1>5 DEF Unsent
  <1>10. ~Unsent(c, m.id)'
    BY <1>1, <1>5, <1>6, <1>7 DEF Unsent
  <1>11. ~InCall(c, m.id, TRUE)'
    BY <1>5, <1>6, <1>7 DEF InCall
  <1>12. ASSUME NEW i \in Nat, i # m.id
         PROVE  /\ Unsent(c, i)' => Unsent(c, i)
                /\ \A got \in BOOLEAN : InCall(c, i, got)' => InCall(c, i, got)
    <2>1. Unsent(c, i)' => Unsent(c, i)
      BY <1>5, <1>6 DEF Unsent
    <2>2. \A got \in BOOLEAN : InCall(c, i, got)' => InCall(c, i, got)
      BY <1>4, <1>5, <1>6, <1>12 DEF InCall
    <2> QED
      BY <2>1, <2>2
  <1>13. \A x \in Conn \ {c} : /\ pending'[x] = pending[x] /\ secondary'[x] = secondary[x]
                               /\ requestID'[x] = requestID[x]
    BY <1>5, <1>6
  <1>14. \A x \in Conn, i \in Nat : StackLoad(stack'[ProcOf[x]], x, i) = StackLoad(stack[ProcOf[x]], x, i)
    BY <1>5
  <1>15. UNCHANGED <<wire, incoming, delayed, toDispatch>>
    BY <1>5
  <1> QED
    BY <1>4, <1>5, <1>8, <1>9, <1>10, <1>11, <1>12, <1>13, <1>14, <1>15, IssueInv

(* A call of the main thread: its frame holds no request of the other end. *)
LEMMA SyncPushLoad ==
    ASSUME IInv, NEW p \in Proc, NEW f \in Frame, f.kind = "sync", f.rest = <<>>, f.held = <<>>, Push(p, f)
    PROVE  \A x \in Conn, i \in Nat :
               StackLoad(stack'[ProcOf[x]], x, i) = StackLoad(stack[ProcOf[x]], x, i)
  <1> TAKE x \in Conn, i \in Nat
  <1>1. stack \in [Proc -> Seq(Frame)] /\ ProcOf[x] \in Proc
    BY ConnAssumption DEF IInv, WaitTypes
  <1>2. stack'[p] = Append(stack[p], f) /\ \A q \in Proc : q # p => stack'[q] = stack[q]
    BY <1>1 DEF Push
  <1>3. Weight(f, x, i) = 0
    <2>1. "sync" # "handler"
      OBVIOUS
    <2> QED
      BY <2>1, PlainWeight
  <1>4. /\ StackLoad(stack[p], x, i) \in Nat
        /\ StackLoad(Append(stack[p], f), x, i) = StackLoad(stack[p], x, i) + Weight(f, x, i)
    BY <1>1, StackLoadPush
  <1>5. StackLoad(stack'[p], x, i) = StackLoad(stack[p], x, i)
    BY <1>2, <1>3, <1>4
  <1> QED
    BY <1>1, <1>2, <1>5

LEMMA SendSyncInv ==
    ASSUME IInv, IInv', RInv, \A x \in Conn : Wears(x), NEW c \in Conn, SendSync(c)
    PROVE  RInv'
  <1> DEFINE p == ProcOf[c]
             r == requestID[c]
             w == pending[c]
             new == [kind |-> "sync", id |-> r + 1, marked |-> ShouldMark(c, TRUE), n |-> sent[c] + 1]
  <1>1. /\ requestID \in [Conn -> Nat] /\ pending \in [Conn -> Seq(PendingReply)] /\ r \in Nat
        /\ w \in Seq(PendingReply) /\ sent[c] \in Nat /\ p \in Proc /\ secondary[c].id \in Nat
    BY ConnAssumption DEF IInv, ConnTypes, WaitTypes, SecondaryCall
  <1>2. /\ UNCHANGED <<secondary, wire, incoming, delayed, toDispatch>> /\ client' = client
        /\ requestID' = [requestID EXCEPT ![c] = r + 1]
    BY DEF SendSync, otherVars, loopVars
  <1>3. requestID'[c] = r + 1 /\ \A x \in Conn \ {c} : requestID'[x] = requestID[x]
    BY <1>1, <1>2
  <1>4. CASE ~(client[c] /\ shouldWait[c])
    <2>1. UNCHANGED <<pending, stack, outgoing>>
      BY <1>4 DEF SendSync, outVars
    <2>2. KeptAll
      BY <1>2, <2>1, SameKept
    <2>3. Identified(c)
      BY DEF RInv
    <2>4. Identified(c)' /\ Calm(c)
      BY <1>2, <1>3, <2>1, <2>3, NewIdentifier
    <2> QED
      BY <1>2, <1>3, <2>1, <2>2, <2>4, OneCallInv
  <1>5. CASE client[c] /\ shouldWait[c]
    <2> DEFINE q == [id |-> r + 1, got |-> FALSE]
    <2>1. new \in Msg
      <3>1. ShouldMark(c, TRUE) \in BOOLEAN
        BY ShouldMarkType, Zenon
      <3>2. sent[c] + 1 \in Nat /\ r + 1 \in Nat
        BY <1>1
      <3> QED
        BY <3>1, <3>2, MessageTypes
    <2>2. PICK m \in Msg : m = new
      BY <2>1
    <2>3. m.kind = "sync" /\ m.id = r + 1
      BY <2>2
    <2>4. /\ pending' = [pending EXCEPT ![c] = Append(@, q)] /\ SendMessage(c, m)
          /\ Push(p, NewFrame("sync", "dispatch", c, m, FALSE))
      BY <1>5, <2>2 DEF SendSync
    <2>5. PICK f \in Frame : f = NewFrame("sync", "dispatch", c, m, FALSE)
      BY EmptySeq DEF NewFrame, Frame
    <2>6. f.kind = "sync" /\ f.rest = <<>> /\ f.held = <<>> /\ Push(p, f)
      BY <2>4, <2>5 DEF NewFrame
    <2>7. \A x \in Conn, i \in Nat : StackLoad(stack'[ProcOf[x]], x, i) = StackLoad(stack[ProcOf[x]], x, i)
      BY <1>1, <2>6, SyncPushLoad
    <2>8. q \in PendingReply /\ q.id = r + 1 /\ q.got = FALSE
      BY <1>1 DEF PendingReply
    <2> HIDE DEF q
    <2>9. pending'[c] = Append(w, q) /\ \A x \in Conn \ {c} : pending'[x] = pending[x]
      BY <1>1, <2>4
    <2>10. /\ \A k \in DOMAIN w : k \in DOMAIN Append(w, q) /\ Append(w, q)[k] = w[k] /\ w[k].id \in Nat
           /\ \A k \in DOMAIN Append(w, q) : k \in DOMAIN w \/ Append(w, q)[k] = q
      <3>1. /\ Append(w, q) \in Seq(PendingReply) /\ Len(Append(w, q)) = Len(w) + 1 /\ Len(w) \in Nat
            /\ \A k \in 1..Len(w) : Append(w, q)[k] = w[k]
            /\ Append(w, q)[Len(w) + 1] = q
        BY <1>1, <2>8, AppendProperties
      <3>2. DOMAIN w = 1..Len(w) /\ DOMAIN Append(w, q) = 1..Len(w) + 1
        BY <1>1, <3>1, LenProperties
      <3>3. \A k \in 1..Len(w) : w[k].id \in Nat
        <4>1. \A k \in 1..Len(w) : w[k] \in PendingReply
          BY <1>1, ElementOfSeq
        <4> QED
          BY <4>1 DEF PendingReply
      <3> QED
        BY <3>1, <3>2, <3>3
    <2> HIDE DEF w, r, new
    <2>11. /\ \A k \in DOMAIN w : w[k].id <= r
           /\ secondary[c].pc # "idle" => /\ secondary[c].id <= r
                                          /\ \A k \in DOMAIN w : w[k].id # secondary[c].id
           /\ secondary[c].pc = "send" => ~secondary[c].got
      BY DEF RInv, Identified, r, w
    <2>12. r \in Nat /\ requestID[c] = r /\ pending[c] = w /\ secondary[c].id \in Nat /\ m.id \in Nat
      BY <1>1, <2>3 DEF r, w
    <2>13. /\ \A k \in DOMAIN Append(w, q) : \/ k \in DOMAIN w /\ Append(w, q)[k] = w[k] /\ w[k].id <= r /\ w[k].id \in Nat
                                            \/ Append(w, q)[k] = q
      BY <2>10, <2>11
    <2>14. Identified(c)'
      <3>1. \A k \in DOMAIN Append(w, q) : Append(w, q)[k].id <= r + 1
        BY <2>8, <2>12, <2>13
      <3>2. secondary[c].pc # "idle" => /\ secondary[c].id <= r + 1
                                        /\ \A k \in DOMAIN Append(w, q) : Append(w, q)[k].id # secondary[c].id
        BY <2>8, <2>11, <2>12, <2>13
      <3> QED
        BY <1>2, <1>3, <2>9, <2>11, <3>1, <3>2 DEF Identified
    <2>15. Unsent(c, m.id)
      BY <2>3, <2>12 DEF Unsent
    <2>16. ~Unsent(c, m.id)'
      <3>1. secondary[c].pc = "send" => secondary[c].id <= r
        <4>1. "send" # "idle"
          OBVIOUS
        <4> QED
          BY <2>11, <4>1
      <3> QED
        BY <1>2, <1>3, <2>3, <2>12, <3>1 DEF Unsent
    <2>17. ~InCall(c, m.id, TRUE)'
      <3>1. ~(secondary[c].pc = "blocked" /\ secondary[c].id = r + 1)
        <4>1. "blocked" # "idle"
          OBVIOUS
        <4> QED
          BY <2>11, <2>12, <4>1
      <3>2. \A k \in DOMAIN Append(w, q) : Append(w, q)[k].id = r + 1 => Append(w, q)[k] = q
        BY <2>8, <2>12, <2>13
      <3> QED
        BY <1>2, <2>3, <2>8, <2>9, <3>1, <3>2 DEF InCall
    <2>18. ASSUME NEW i \in Nat, i # m.id
           PROVE  /\ Unsent(c, i)' => Unsent(c, i)
                  /\ \A got \in BOOLEAN : InCall(c, i, got)' => InCall(c, i, got)
      <3>1. Unsent(c, i)' => Unsent(c, i)
        BY <1>2, <1>3, <2>12 DEF Unsent
      <3>2. \A k \in DOMAIN Append(w, q) : Append(w, q)[k].id = i => k \in DOMAIN w /\ Append(w, q)[k] = w[k]
        BY <2>3, <2>8, <2>13, <2>18
      <3>3. \A got \in BOOLEAN : InCall(c, i, got)' => InCall(c, i, got)
        BY <1>2, <2>9, <2>12, <3>2 DEF InCall
      <3> QED
        BY <3>1, <3>3
    <2>19. \A x \in Conn \ {c} : /\ pending'[x] = pending[x] /\ secondary'[x] = secondary[x]
                                 /\ requestID'[x] = requestID[x]
      BY <1>2, <1>3, <2>9
    <2>20. client' = client /\ UNCHANGED <<wire, incoming, delayed, toDispatch>>
      BY <1>2
    <2> QED
      BY <2>3, <2>4, <2>7, <2>14, <2>15, <2>16, <2>17, <2>18, <2>19, <2>20, IssueInv
  <1> QED
    BY <1>4, <1>5

(* processIncomingSyncReply: the calls with the identifier j have their    *)
(* reply, and the others are left alone.                                   *)
LEMMA ReplyMarks ==
    ASSUME IInv, NEW c \in Conn, Identified(c), ProcessIncomingSyncReply(c), NEW j \in Nat,
           j = Head(wire[c]).id
    PROVE  /\ \A x \in Conn \ {c} : pending'[x] = pending[x] /\ secondary'[x] = secondary[x]
           /\ DOMAIN pending'[c] = DOMAIN pending[c]
           /\ \A k \in DOMAIN pending[c] : /\ pending'[c][k].id = pending[c][k].id
                                           /\ pending[c][k].id # j => pending'[c][k] = pending[c][k]
                                           /\ pending[c][k].id = j => pending'[c][k].got
           /\ secondary'[c].pc = secondary[c].pc /\ secondary'[c].id = secondary[c].id
           /\ secondary[c].id # j => secondary'[c].got = secondary[c].got
           /\ secondary[c].pc # "idle" /\ secondary[c].id = j => secondary'[c].got
  <1> DEFINE w == pending[c]
             hits == {i \in DOMAIN w : w[i].id = j}
             mark(i) == IF i \in hits THEN [w[i] EXCEPT !.got = TRUE] ELSE w[i]
             t == [i \in DOMAIN w |-> mark(i)]
  <1>1. /\ pending \in [Conn -> Seq(PendingReply)] /\ secondary \in [Conn -> SecondaryCall]
        /\ \A k \in DOMAIN w : w[k] \in PendingReply
    <2>1. pending \in [Conn -> Seq(PendingReply)] /\ secondary \in [Conn -> SecondaryCall]
      BY DEF IInv, ConnTypes, WaitTypes
    <2>2. w \in Seq(PendingReply) /\ DOMAIN w = 1..Len(w)
      BY <2>1, LenProperties
    <2> QED
      BY <2>1, <2>2, ElementOfSeq
  <1>2. CASE hits = {}
    <2>1. /\ UNCHANGED pending
          /\ secondary' = IF secondary[c].pc # "idle" /\ secondary[c].id = j
                          THEN [secondary EXCEPT ![c].got = TRUE, ![c].set = TRUE]
                          ELSE secondary
      BY <1>2 DEF ProcessIncomingSyncReply
    <2>2. \A k \in DOMAIN w : w[k].id # j
      BY <1>2
    <2>3. CASE secondary[c].pc # "idle" /\ secondary[c].id = j
      <3>1. secondary' = [secondary EXCEPT ![c].got = TRUE, ![c].set = TRUE]
        BY <2>1, <2>3
      <3>2. /\ secondary'[c].pc = secondary[c].pc /\ secondary'[c].id = secondary[c].id
            /\ secondary'[c].got = TRUE /\ \A x \in Conn \ {c} : secondary'[x] = secondary[x]
        BY <1>1, <3>1 DEF SecondaryCall
      <3> QED
        BY <2>1, <2>2, <2>3, <3>2
    <2>4. CASE ~(secondary[c].pc # "idle" /\ secondary[c].id = j)
      <3>1. secondary' = secondary
        BY <2>1, <2>4
      <3> QED
        BY <2>1, <2>2, <2>4, <3>1
    <2> QED
      BY <2>3, <2>4
  <1>3. CASE hits # {}
    <2>1. pending' = [pending EXCEPT ![c] = t] /\ UNCHANGED secondary
      BY <1>3 DEF ProcessIncomingSyncReply
    <2>2. \A k \in DOMAIN w : /\ mark(k).id = w[k].id
                              /\ w[k].id # j => mark(k) = w[k]
                              /\ w[k].id = j => mark(k).got
      BY <1>1 DEF PendingReply
    <2>3. DOMAIN t = DOMAIN w /\ \A k \in DOMAIN w : t[k] = mark(k)
      OBVIOUS
    <2>4. ~(secondary[c].pc # "idle" /\ secondary[c].id = j)
      BY <1>3 DEF Identified
    <2> HIDE DEF t, mark, hits
    <2>5. pending'[c] = t /\ \A x \in Conn \ {c} : pending'[x] = pending[x]
      BY <1>1, <2>1
    <2> QED
      BY <2>1, <2>2, <2>3, <2>4, <2>5
  <1> QED
    BY <1>2, <1>3

(* The reply leaves the socket, and the request is nowhere any more.       *)
LEMMA ReplyTokens ==
    ASSUME IInv, IInv', NEW c \in Conn, ProcessIncomingSyncReply(c), NEW j \in Nat,
           j = Head(wire[c]).id
    PROVE  /\ \A x \in Conn \ {c} : Flows(x)
           /\ \A i \in Nat : Tokens(c, i) \in Nat /\ Tokens(c, i)' \in Nat
           /\ \A i \in Nat : i # j => Tokens(c, i)' = Tokens(c, i)
           /\ Tokens(c, j) = Tokens(c, j)' + 1
  <1>1. /\ Readable(c) /\ Consume(c) /\ Head(wire[c]).kind = "reply"
        /\ UNCHANGED <<outgoing, delayed, stack, incoming, toDispatch>>
    BY DEF ProcessIncomingSyncReply, outVars, mainVars
  <1>2. PICK m \in Msg : m = Head(wire[c])
    BY <1>1, ConsumeParts
  <1>3. /\ \A x \in Conn : x # c => wire'[x] = wire[x]
        /\ \A P : /\ Number(wire'[c], P) \in Nat
                  /\ Number(wire[c], P) = Number(wire'[c], P) + IF m \in P THEN 1 ELSE 0
    BY <1>1, <1>2, ConsumeParts
  <1>4. \A i : m \notin Request(i) /\ (m \in ReplyTo(i) <=> j = i)
    BY <1>1, <1>2, Counted
  <1>5. ASSUME NEW x \in Conn, NEW i \in Nat PROVE Holds(x, i)' = Holds(x, i) /\ Holds(x, i) \in Nat
    <2>1. Unanswered(x, i)' = Unanswered(x, i)
      BY <1>1 DEF Unanswered
    <2>2. Number(wire'[x], Request(i)) = Number(wire[x], Request(i))
      <3>1. CASE x = c
        BY <1>3, <1>4, <3>1
      <3>2. CASE x # c
        BY <1>3, <3>2
      <3> QED
        BY <3>1, <3>2
    <2>3. Holds(x, i) \in Nat
      BY Splits DEF HoldSums
    <2> QED
      BY <1>1, <2>1, <2>2, <2>3 DEF Holds
  <1>6. \A x \in Conn, i \in Nat : HeldKept(x, i)
    BY <1>5 DEF HeldKept
  <1>7. ASSUME NEW x \in Conn \ {c} PROVE Flows(x)
    <2>1. \A i \in Nat : OwnKept(x, i)
      <3> TAKE i \in Nat
      <3>1. Number(outgoing[x], Request(i)) \in Nat /\ Number(wire[x], ReplyTo(i)) \in Nat
        BY Splits DEF HoldSums
      <3> QED
        BY <1>1, <1>3, <3>1 DEF OwnKept
    <2> QED
      BY <1>6, <2>1, PeerFacts, KeptFlows
  <1>8. ASSUME NEW i \in Nat
        PROVE  /\ Tokens(c, i) \in Nat /\ Tokens(c, i)' \in Nat
               /\ Tokens(c, i) = Tokens(c, i)' + IF i = j THEN 1 ELSE 0
    <2>1. Peer[c] \in Conn
      BY PeerFacts
    <2>2. /\ Tokens(c, i) = Number(outgoing[c], Request(i)) + Holds(Peer[c], i) + Number(wire[c], ReplyTo(i))
          /\ Tokens(c, i) \in Nat
          /\ Number(outgoing[c], Request(i)) \in Nat /\ Number(wire[c], ReplyTo(i)) \in Nat
      BY Splits DEF SplitTokens, HoldSums
    <2>3. /\ Tokens(c, i)' = Number(outgoing[c], Request(i)) + Holds(Peer[c], i)' + Number(wire'[c], ReplyTo(i))
          /\ Tokens(c, i)' \in Nat
      BY <1>1, NextSplits DEF SplitTokens
    <2>4. Holds(Peer[c], i)' = Holds(Peer[c], i) /\ Holds(Peer[c], i) \in Nat
      BY <1>5, <2>1
    <2>5. /\ Number(wire'[c], ReplyTo(i)) \in Nat
          /\ Number(wire[c], ReplyTo(i)) = Number(wire'[c], ReplyTo(i)) + IF i = j THEN 1 ELSE 0
      BY <1>3, <1>4
    <2> QED
      BY <2>2, <2>3, <2>4, <2>5
  <1>9. ASSUME NEW i \in Nat, i # j PROVE Tokens(c, i)' = Tokens(c, i)
    BY <1>8, <1>9
  <1>10. Tokens(c, j) = Tokens(c, j)' + 1
    BY <1>8
  <1> QED
    BY <1>7, <1>8, <1>9, <1>10

LEMMA ReplyInv ==
    ASSUME IInv, IInv', RInv, \A x \in Conn : Wears(x), NEW c \in Conn, ProcessIncomingSyncReply(c)
    PROVE  RInv'
  <1>1. PICK j \in Nat : j = Head(wire[c]).id
    <2>1. Head(wire[c]) \in Msg
      BY ConsumeParts DEF ProcessIncomingSyncReply
    <2> QED
      BY <2>1 DEF Msg
  <1>2. UNCHANGED requestID /\ Identified(c) /\ Spent /\ \A i \in Nat : Account(c, i)
    BY DEF ProcessIncomingSyncReply, RInv
  <1>3. /\ \A x \in Conn \ {c} : pending'[x] = pending[x] /\ secondary'[x] = secondary[x]
        /\ DOMAIN pending'[c] = DOMAIN pending[c]
        /\ \A k \in DOMAIN pending[c] : /\ pending'[c][k].id = pending[c][k].id
                                        /\ pending[c][k].id # j => pending'[c][k] = pending[c][k]
                                        /\ pending[c][k].id = j => pending'[c][k].got
        /\ secondary'[c].pc = secondary[c].pc /\ secondary'[c].id = secondary[c].id
        /\ secondary[c].id # j => secondary'[c].got = secondary[c].got
        /\ secondary[c].pc # "idle" /\ secondary[c].id = j => secondary'[c].got
    BY <1>1, <1>2, ReplyMarks
  <1>4. /\ \A x \in Conn \ {c} : Flows(x)
        /\ \A i \in Nat : Tokens(c, i) \in Nat /\ Tokens(c, i)' \in Nat
        /\ \A i \in Nat : i # j => Tokens(c, i)' = Tokens(c, i)
        /\ Tokens(c, j) = Tokens(c, j)' + 1
    BY <1>1, ReplyTokens
  <1>5. Tokens(c, j)' = 0 /\ Tokens(c, j) = 1
    <2>1. Tokens(c, j) <= 1
      BY <1>2 DEF Account
    <2>2. Tokens(c, j) \in Nat /\ Tokens(c, j)' \in Nat /\ Tokens(c, j) = Tokens(c, j)' + 1
      BY <1>4
    <2> QED
      BY <2>1, <2>2
  <1>6. ~Unsent(c, j)
    <2>1. ASSUME Unsent(c, j) PROVE Tokens(c, j) = 0
      BY <1>2, <2>1 DEF Account
    <2>2. Tokens(c, j) # 0
      BY <1>5
    <2> QED
      BY <2>1, <2>2, Zenon
  <1>7. Identified(c)'
    <2>1. secondary[c].pc = "send" => secondary[c].id # j
      BY <1>6 DEF Unsent
    <2> QED
      BY <1>2, <1>3, <2>1 DEF Identified
  <1>8. \A i \in Nat : Unsent(c, i)' => Unsent(c, i)
    BY <1>2, <1>3 DEF Unsent
  <1>9. ~InCall(c, j, FALSE)'
    <2>1. "blocked" # "idle"
      OBVIOUS
    <2> QED
      BY <1>3, <2>1 DEF InCall
  <1>10. \A i \in Nat, got \in BOOLEAN : i # j => (InCall(c, i, got)' => InCall(c, i, got))
    BY <1>3 DEF InCall
  <1>11. ASSUME NEW i \in Nat PROVE Account(c, i)'
    <2>1. Account(c, i)
      BY <1>2
    <2>2. CASE i = j
      <3>1. Tokens(c, i)' = 0 /\ ~InCall(c, i, FALSE)'
        BY <1>5, <1>9, <2>2
      <3>2. Tokens(c, i)' <= 1
        BY <3>1
      <3> QED
        BY <3>1, <3>2 DEF Account
    <2>3. CASE i # j
      <3>1. /\ Tokens(c, i)' = Tokens(c, i) /\ (Unsent(c, i)' => Unsent(c, i))
            /\ InCall(c, i, TRUE)' => InCall(c, i, TRUE)
            /\ InCall(c, i, FALSE)' => InCall(c, i, FALSE)
        BY <1>4, <1>8, <1>10, <2>3
      <3>2. Works(c)' /\ Works(Peer[c])' => Works(c) /\ Works(Peer[c])
        BY <1>2, PeerFacts, WornOut
      <3> QED
        BY <2>1, <3>1, <3>2 DEF Account
    <2> QED
      BY <2>2, <2>3
  <1>12. ASSUME NEW x \in Conn \ {c} PROVE Identified(x)' /\ Calm(x) /\ Flows(x)
    <2>1. Identified(x) /\ requestID'[x] = requestID[x]
      BY <1>2 DEF RInv
    <2> QED
      BY <1>3, <1>4, <2>1, SameCalls
  <1> QED
    BY <1>7, <1>11, <1>12, KeptInv

(* Connection::send: the message is neither a request nor a reply.         *)
LEMMA SendFlow ==
    ASSUME IInv, IInv', NEW c \in Conn, Send(c) PROVE KeptAll
  <1>1. PICK op \in {"async", "urgent"} :
            SendMessage(c, [kind |-> "async", id |-> 0,
                            marked |-> ShouldMark(c, op = "urgent"), n |-> sent[c] + 1])
    BY DEF Send
  <1>2. UNCHANGED <<wire, incoming, delayed, toDispatch, stack>>
    BY DEF Send, otherVars, socketVars, procVars, loopVars, mainVars
  <1>3. [kind |-> "async", id |-> 0, marked |-> ShouldMark(c, op = "urgent"), n |-> sent[c] + 1] \in Msg
    <2>1. ShouldMark(c, op = "urgent") \in BOOLEAN
      BY ShouldMarkType, Zenon
    <2>2. sent[c] + 1 \in Nat /\ 0 \in Nat
      BY DEF IInv, ConnTypes
    <2> QED
      BY <2>1, <2>2, MessageTypes
  <1>4. PICK m \in Msg : SendMessage(c, m) /\ m.kind = "async"
    BY <1>1, <1>3
  <1>5. \A i : m \notin Request(i) /\ m \notin ReplyTo(i)
    <2>1. "async" # "sync" /\ "async" # "reply"
      OBVIOUS
    <2> QED
      BY <1>4, <2>1, Counted
  <1>6. outgoing \in [Conn -> Seq(Msg)]
    BY DEF IInv, ConnTypes
  <1>7. /\ outgoing'[c] = outgoing[c] \/ outgoing'[c] = Append(outgoing[c], m)
        /\ \A x \in Conn : x # c => outgoing'[x] = outgoing[x]
    BY <1>4, <1>6 DEF SendMessage, outVars
  <1> SUFFICES ASSUME NEW x \in Conn, NEW i \in Nat PROVE OwnKept(x, i) /\ HeldKept(x, i)
    BY DEF KeptAll
  <1>8. /\ Number(outgoing'[x], Request(i)) = Number(outgoing[x], Request(i))
        /\ Number(outgoing'[x], ReplyTo(i)) = Number(outgoing[x], ReplyTo(i))
    <2>1. /\ Number(outgoing[c], Request(i)) \in Nat /\ Number(outgoing[c], ReplyTo(i)) \in Nat
          /\ Number(Append(outgoing[c], m), Request(i)) =
                 Number(outgoing[c], Request(i)) + IF m \in Request(i) THEN 1 ELSE 0
          /\ Number(Append(outgoing[c], m), ReplyTo(i)) =
                 Number(outgoing[c], ReplyTo(i)) + IF m \in ReplyTo(i) THEN 1 ELSE 0
      BY <1>6, NumberIsNat, NumberAppend
    <2>2. /\ Number(Append(outgoing[c], m), Request(i)) = Number(outgoing[c], Request(i))
          /\ Number(Append(outgoing[c], m), ReplyTo(i)) = Number(outgoing[c], ReplyTo(i))
      BY <1>5, <2>1
    <2>3. CASE x = c
      BY <1>7, <2>2, <2>3
    <2>4. CASE x # c
      BY <1>7, <2>4
    <2> QED
      BY <2>3, <2>4
  <1>9. /\ Number(outgoing[x], Request(i)) \in Nat /\ Number(wire[x], ReplyTo(i)) \in Nat
        /\ Holds(x, i) \in Nat
    BY Splits DEF HoldSums
  <1>10. OwnKept(x, i)
    BY <1>2, <1>8, <1>9 DEF OwnKept
  <1>11. Holds(x, i)' = Holds(x, i)
    <2>1. Unanswered(x, i)' = Unanswered(x, i)
      BY <1>2 DEF Unanswered
    <2> QED
      BY <1>2, <1>8, <2>1 DEF Holds
  <1> QED
    BY <1>9, <1>10, <1>11 DEF HeldKept

-----------------------------------------------------------------------------
(* The invariant holds.                                                    *)
LEMMA QuietStep ==
    ASSUME IInv, IInv', RInv, \A x \in Conn : Wears(x),
           UNCHANGED <<outgoing, wire, incoming, delayed, toDispatch, stack>>,
           UNCHANGED <<pending, secondary, requestID>>
    PROVE  RInv'
  BY SameKept, QuietInv

LEMMA ClientInv ==
    ASSUME IInv, IInv', RInv, \A x \in Conn : Wears(x), NEW c \in Conn, Client(c) \/ SendDelayedReply(c)
    PROVE  RInv'
  <1>1. CASE Send(c)
    <2>1. UNCHANGED <<pending, secondary, requestID>>
      BY <1>1 DEF Send, replyVars, otherVars
    <2> QED
      BY <1>1, <2>1, SendFlow, QuietInv
  <1>2. CASE SendDelayedReply(c)
    <2>1. UNCHANGED <<pending, secondary, requestID>>
      BY <1>2 DEF SendDelayedReply, replyVars
    <2> QED
      BY <1>2, <2>1, SendDelayedReplyFlow, QuietInv
  <1>3. CASE Invalidate(c) \/ PostConnectionDidClose(c) \/ Crash(c)
    <2>1. /\ UNCHANGED <<outgoing, wire, incoming, delayed, toDispatch, stack>>
          /\ UNCHANGED <<pending, secondary, requestID>>
      BY <1>3 DEF Invalidate, PostConnectionDidClose, Crash, replyVars, otherVars, outVars,
                  socketVars, procVars, loopVars, mainVars
    <2> QED
      BY <2>1, QuietStep
  <1> QED
    BY <1>1, <1>2, <1>3, SendSyncInv, SecondaryInv DEF Client

LEMMA QueueInv ==
    ASSUME IInv, IInv', RInv, \A x \in Conn : Wears(x), NEW c \in Conn, QueueThread(c)
    PROVE  RInv'
  <1>1. CASE SendOutgoingMessages(c)
    <2>1. UNCHANGED <<pending, secondary, requestID>>
      BY <1>1 DEF SendOutgoingMessages, replyVars, otherVars
    <2>2. \A x \in Conn : Flows(x)
      BY <1>1, SendOutgoingFlow
    <2>3. \A x \in Conn : Identified(x)' /\ Calm(x)
      BY <2>1, SameCalls DEF RInv
    <2> QED
      BY <2>2, <2>3, CalmInv
  <1>2. CASE PlatformInvalidate(c)
    <2>1. /\ wire' = [wire EXCEPT ![c] = <<>>] /\ connected' = [connected EXCEPT ![c] = FALSE]
          /\ UNCHANGED <<outgoing, delayed, stack, incoming, toDispatch>>
          /\ UNCHANGED <<pending, secondary, requestID>>
      BY <1>2 DEF PlatformInvalidate, replyVars, otherVars, procVars, loopVars, mainVars
    <2> QED
      BY <2>1, CloseKeepsAll, QuietInv
  <1>3. CASE ReadEndOfFile(c) \/ PostedDidClose(c)
    BY <1>3, DidCloseInv DEF ReadEndOfFile, PostedDidClose
  <1>4. CASE ProcessMarkedMessage(c)
    <2>1. UNCHANGED <<pending, secondary, requestID>>
      BY <1>4 DEF ProcessMarkedMessage, replyVars, otherVars
    <2> QED
      BY <1>4, <2>1, ProcessMarkedMessageFlow, QuietInv
  <1>5. CASE EnqueueIncomingMessage(c)
    <2>1. UNCHANGED <<pending, secondary, requestID>>
      BY <1>5 DEF EnqueueIncomingMessage, replyVars, otherVars
    <2> QED
      BY <1>5, <2>1, EnqueueFlow, QuietInv
  <1>6. CASE WakeUpClientRunLoop(c)
    <2>1. /\ UNCHANGED <<outgoing, wire, incoming, delayed, toDispatch, stack>>
          /\ UNCHANGED <<pending, secondary, requestID>>
      BY <1>6 DEF WakeUpClientRunLoop, replyVars, otherVars, outVars, mainVars
    <2> QED
      BY <2>1, QuietStep
  <1> QED
    BY <1>1, <1>2, <1>3, <1>4, <1>5, <1>6, ReplyInv DEF QueueThread

LEMMA MainInv ==
    ASSUME IInv, IInv', RInv, \A x \in Conn : Wears(x), NEW p \in Proc, MainThread(p)
    PROVE  RInv'
  <1>1. CASE DispatchConnectionDidClose(p)
    <2>1. /\ UNCHANGED <<outgoing, wire, incoming, delayed, toDispatch, stack>>
          /\ UNCHANGED <<pending, secondary, requestID>>
      BY <1>1 DEF DispatchConnectionDidClose, replyVars, otherVars, outVars, socketVars, mainVars
    <2> QED
      BY <2>1, QuietStep
  <1>2. CASE EndDispatch(p)
    <2>1. UNCHANGED <<pending, secondary, requestID>>
      BY <1>2 DEF EndDispatch, replyVars
    <2> QED
      BY <1>2, <2>1, EndDispatchFlow, QuietInv
  <1>3. CASE DispatchOneMessage(p) \/ DispatchNext(p)
    <2>1. UNCHANGED <<pending, secondary, requestID>>
      BY <1>3 DEF DispatchOneMessage, DispatchNext, replyVars, otherVars
    <2>2. KeptAll
      BY <1>3, DispatchOneMessageFlow, DispatchNextFlow
    <2> QED
      BY <2>1, <2>2, QuietInv
  <1>4. CASE DispatchMessagesTask(p) \/ SwapMessages(p) \/ PutBack(p) \/ SyncDispatch(p) \/ SyncWake(p)
    <2>1. UNCHANGED connVars
      BY <1>4 DEF DispatchMessagesTask, SwapMessages, PutBack, SyncDispatch, SyncWake
    <2>2. UNCHANGED <<pending, secondary, requestID>>
      BY <2>1 DEF connVars, replyVars, otherVars
    <2>3. KeptAll
      BY <1>4, DispatchMessagesTaskFlow, SwapMessagesFlow, PutBackFlow, SyncDispatchFlow, SyncWakeFlow
    <2> QED
      BY <2>2, <2>3, QuietInv
  <1>5. CASE SyncCheck(p)
    <2>1. At(p, "sync", "check")
      BY <1>5 DEF SyncCheck
    <2>2. CASE StopsWaiting(Top(p).conn)
      <3>1. SyncReturn(p, Top(p).conn, Last(pending[Top(p).conn]).got)
        BY <1>5, <2>2 DEF SyncCheck
      <3> QED
        BY <2>1, <3>1, SyncReturnInv
    <2>3. CASE ~StopsWaiting(Top(p).conn)
      <3>1. UNCHANGED <<pending, secondary, requestID>>
        BY <1>5, <2>3 DEF SyncCheck, connVars, replyVars, otherVars
      <3> QED
        BY <1>5, <3>1, SyncCheckFlow, QuietInv
    <2> QED
      BY <2>2, <2>3
  <1> QED
    BY <1>1, <1>2, <1>3, <1>4, <1>5 DEF MainThread

LEMMA RInvStays == IInv /\ RInv /\ [Next]_vars => RInv'
  <1> SUFFICES ASSUME IInv, RInv, [Next]_vars PROVE RInv'
    OBVIOUS
  <1>1. IInv' /\ \A x \in Conn : Wears(x)
    BY NextInv, NextWears
  <1>2. ASSUME NEW c \in Conn, SecondaryThread(c) \/ SecondaryReturn(c, TRUE) PROVE RInv'
    BY <1>1, <1>2, SecondarySendInv, SecondaryInv DEF SecondaryThread
  <1>3. ASSUME NEW p \in Proc, MarkInvalid(p) PROVE RInv'
    <2>1. /\ UNCHANGED <<outgoing, wire, incoming, delayed, toDispatch, stack>>
          /\ UNCHANGED <<pending, secondary, requestID>>
      BY <1>3 DEF MarkInvalid, replyVars, otherVars, outVars, socketVars, procVars, loopVars, mainVars
    <2> QED
      BY <1>1, <2>1, QuietStep
  <1>4. ASSUME NEW p \in Proc, SyncTimeout(p) PROVE RInv'
    <2>1. At(p, "sync", "blocked") /\ SyncReturn(p, Top(p).conn, FALSE)
      BY <1>4 DEF SyncTimeout
    <2> QED
      BY <1>1, <2>1, SyncReturnInv
  <1>5. ASSUME NEW p \in Proc, IncrementMarkedCount(p) PROVE RInv'
    <2>1. UNCHANGED <<pending, secondary, requestID>>
      BY <1>5 DEF IncrementMarkedCount, replyVars, otherVars
    <2> QED
      BY <1>1, <1>5, <2>1, IncrementFlow, QuietInv
  <1>6. CASE UNCHANGED vars
    <2>1. /\ UNCHANGED <<outgoing, wire, incoming, delayed, toDispatch, stack>>
          /\ UNCHANGED <<pending, secondary, requestID>>
      BY <1>6 DEF vars, connVars, procVars, replyVars, otherVars, outVars, socketVars, loopVars, mainVars
    <2> QED
      BY <1>1, <2>1, QuietStep
  <1> QED
    BY <1>1, <1>2, <1>3, <1>4, <1>5, <1>6, ClientInv, QueueInv, MainInv DEF Next

(* At the start nothing has been sent.                                     *)
LEMMA RInvInit == Init => RInv
  <1> SUFFICES ASSUME Init PROVE RInv
    OBVIOUS
  <1>1. Spent
    <2>1. left \in Budgets
      BY DEF Init
    <2>2. \A c \in Conn : left[c]["fail"] \in Nat
      BY <2>1, OpNames, ConnAssumption
    <2>3. \A c \in Conn : left[c]["fail"] <= left[c]["fail"]
      BY <2>2
    <2> QED
      BY <2>1, <2>3 DEF Spent
  <1>2. ASSUME NEW c \in Conn PROVE Identified(c)
    BY <1>2 DEF Init, Identified, NoCall
  <1>3. ASSUME NEW c \in Conn, NEW i \in Nat PROVE Account(c, i)
    <2>1. IInv
      BY InitInv
    <2>2. Peer[c] \in Conn /\ ProcOf[Peer[c]] \in Proc
      BY PeerFacts, ConnAssumption
    <2>3. /\ outgoing[c] = <<>> /\ wire[c] = <<>> /\ outgoing[Peer[c]] = <<>> /\ wire[Peer[c]] = <<>>
          /\ incoming[Peer[c]] = <<>> /\ delayed[Peer[c]] = {} /\ pending[c] = <<>>
          /\ toDispatch[ProcOf[Peer[c]]] = <<>> /\ stack[ProcOf[Peer[c]]] = <<>>
          /\ secondary[c].pc = "idle"
      BY <2>2 DEF Init, NoCall
    <2>4. Tokens(c, i) = 0
      <3>1. \A P : Number(<<>>, P) = 0 /\ NumberTaken(<<>>, P) = 0
        BY NumberOfEmpty, TakenEmpty
      <3>2. Unanswered(Peer[c], i) = 0
        BY <2>3, <3>1 DEF Unanswered
      <3> QED
        BY <2>3, <3>1, <3>2 DEF Tokens
    <2>5. ~InCall(c, i, FALSE)
      <3>1. DOMAIN pending[c] = {}
        BY <2>3
      <3>2. "idle" # "blocked"
        OBVIOUS
      <3> QED
        BY <2>3, <3>1, <3>2 DEF InCall
    <2>6. Tokens(c, i) <= 1
      BY <2>4
    <2> QED
      BY <2>4, <2>5, <2>6 DEF Account
  <1> QED
    BY <1>1, <1>2, <1>3 DEF RInv

LEMMA RInvHolds == Spec => [](IInv /\ RInv)
  BY InitInv, NextInv, RInvInit, RInvStays, PTL DEF Spec

LEMMA InvReply == IInv /\ RInv => OneReplyPerRequest
  <1> SUFFICES ASSUME IInv, RInv, NEW c \in Conn, NEW i \in 1..requestID[c]
               PROVE  /\ Tokens(c, i) <= 1
                      /\ InCall(c, i, TRUE) => Tokens(c, i) = 0
                      /\ InCall(c, i, FALSE) /\ Works(c) /\ Works(Peer[c]) => Tokens(c, i) = 1
    BY DEF OneReplyPerRequest
  <1>1. requestID[c] \in Nat
    BY DEF IInv, ConnTypes
  <1>2. i \in Nat
    BY <1>1
  <1>3. Account(c, i)
    BY <1>2 DEF RInv
  <1> QED
    BY <1>3 DEF Account

(* In every system of connections and with every budget, a request is in   *)
(* one place at most on its way to the other process and back, nowhere     *)
(* once its reply has been read, and somewhere while the call waits and    *)
(* both ends work.  processIncomingSyncReply therefore never finds a reply *)
(* that is already there, and no reply is lost between the socket, the     *)
(* queues of the two processes, the vectors and handlers on the stacks of  *)
(* their nested waits and the encoders that clients keep.                  *)
THEOREM RequestsAreAnsweredOnce == Spec => []OneReplyPerRequest
  BY RInvHolds, InvReply, PTL

-----------------------------------------------------------------------------
(* Two callers on one connection are not stuck.                            *)

(* A dispatchMessages handles marked messages only; while it is not on top *)
(* of the stack, the handler of one of them is above it; and a call that   *)
(* was not marked began when no marked message was being dispatched.       *)
AllMarked(q) == \A i \in DOMAIN q : q[i].msg.marked

Shape(s) ==
    /\ \A k \in DOMAIN s : AllMarked(s[k].rest) /\ AllMarked(s[k].held)
    /\ \A k \in DOMAIN s : s[k].kind = "batch" /\ k < Len(s) =>
           s[k + 1].kind = "handler" /\ s[k + 1].msg.marked
    /\ \A k \in DOMAIN s : s[k].kind = "sync" /\ ~s[k].msg.marked =>
           /\ OnlySend[s[k].conn]
           /\ \A m \in 1..k - 1 : s[m] \notin MarkedFrame(s[k].conn)

(* No call begins when the stack s becomes t, and what is below a call     *)
(* stays.                                                                  *)
NoMore(s, t) ==
    \A k \in DOMAIN t : t[k].kind = "sync" =>
        /\ k \in DOMAIN s /\ s[k].kind = "sync" /\ s[k].conn = t[k].conn /\ s[k].msg = t[k].msg
        /\ \A m \in 1..k - 1 : t[m] = s[m]

(* The new handlers are those of marked messages.                          *)
Handled(s, t) ==
    \A k \in DOMAIN t : t[k].kind = "handler" => t[k].msg.marked \/ (k \in DOMAIN s /\ t[k] = s[k])

Grown(s, t) == NoMore(s, t) /\ Handled(s, t) /\ Shape(t)

LEMMA PopFacts ==
    ASSUME NEW s \in Seq(Frame), s # <<>>
    PROVE  /\ Len(s) \in Nat \ {0} /\ DOMAIN s = 1..Len(s) /\ DOMAIN Front(s) = 1..Len(s) - 1
           /\ Len(Front(s)) = Len(s) - 1 /\ Front(s) \in Seq(Frame) /\ Last(s) \in Frame
           /\ \A k \in 1..Len(s) - 1 : Front(s)[k] = s[k]
           /\ Last(s) = s[Len(s)]
  <1>1. /\ Front(s) \in Seq(Frame) /\ Len(Front(s)) = Len(s) - 1 /\ Len(s) \in Nat \ {0}
        /\ \A k \in 1..Len(s) - 1 : Front(s)[k] = s[k]
        /\ Last(s) = s[Len(s)] /\ Last(s) \in Frame
    BY FrontFacts
  <1> QED
    BY <1>1, LenProperties

LEMMA PushFacts ==
    ASSUME NEW s \in Seq(Frame), NEW f \in Frame
    PROVE  /\ Len(s) \in Nat /\ DOMAIN s = 1..Len(s) /\ DOMAIN Append(s, f) = 1..Len(s) + 1
           /\ Len(Append(s, f)) = Len(s) + 1 /\ Append(s, f) \in Seq(Frame) /\ Append(s, f) # <<>>
           /\ \A k \in 1..Len(s) : Append(s, f)[k] = s[k]
           /\ Append(s, f)[Len(s) + 1] = f
  <1>1. /\ Append(s, f) \in Seq(Frame) /\ Len(Append(s, f)) = Len(s) + 1 /\ Len(s) \in Nat
        /\ \A k \in 1..Len(s) : Append(s, f)[k] = s[k]
        /\ Append(s, f)[Len(s) + 1] = f /\ Append(s, f) # <<>>
    BY AppendProperties
  <1> QED
    BY <1>1, LenProperties

LEMMA ShapePop == ASSUME NEW s \in Seq(Frame), s # <<>>, Shape(s) PROVE Shape(Front(s)) /\ Grown(s, Front(s))
  <1> DEFINE t == Front(s)
             n == Len(s)
  <1>1. /\ n \in Nat \ {0} /\ DOMAIN s = 1..n /\ DOMAIN t = 1..n - 1 /\ Len(t) = n - 1
        /\ \A k \in 1..n - 1 : t[k] = s[k]
    BY PopFacts
  <1> HIDE DEF t, n
  <1>2. \A k \in DOMAIN t : k \in DOMAIN s /\ k < n /\ t[k] = s[k] /\ (k < n - 1 => t[k + 1] = s[k + 1])
    BY <1>1
  <1>3. \A k \in DOMAIN t : \A m \in 1..k - 1 : t[m] = s[m]
    BY <1>1
  <1>4. \A k \in DOMAIN s : s[k].kind = "batch" /\ k < n => s[k + 1].kind = "handler" /\ s[k + 1].msg.marked
    BY DEF Shape, n
  <1>5. Shape(t)
    <2>1. \A k \in DOMAIN t : AllMarked(t[k].rest) /\ AllMarked(t[k].held)
      BY <1>2 DEF Shape
    <2>2. \A k \in DOMAIN t : t[k].kind = "batch" /\ k < Len(t) =>
              t[k + 1].kind = "handler" /\ t[k + 1].msg.marked
      BY <1>1, <1>2, <1>4
    <2>3. \A k \in DOMAIN t : t[k].kind = "sync" /\ ~t[k].msg.marked =>
              /\ OnlySend[t[k].conn]
              /\ \A m \in 1..k - 1 : t[m] \notin MarkedFrame(t[k].conn)
      BY <1>2, <1>3 DEF Shape
    <2> QED
      BY <2>1, <2>2, <2>3 DEF Shape
  <1>6. NoMore(s, t) /\ Handled(s, t)
    BY <1>2, <1>3 DEF NoMore, Handled
  <1> QED
    BY <1>5, <1>6 DEF Grown, t

LEMMA ShapePush ==
    ASSUME NEW s \in Seq(Frame), Shape(s), NEW f \in Frame, AllMarked(f.rest), AllMarked(f.held),
           s # <<>> /\ Last(s).kind = "batch" => f.kind = "handler" /\ f.msg.marked,
           f.kind = "sync" /\ ~f.msg.marked =>
               OnlySend[f.conn] /\ \A m \in DOMAIN s : s[m] \notin MarkedFrame(f.conn)
    PROVE  /\ Shape(Append(s, f))
           /\ f.kind # "sync" => NoMore(s, Append(s, f))
           /\ f.kind = "handler" /\ f.msg.marked => Handled(s, Append(s, f))
           /\ f.kind # "handler" => Handled(s, Append(s, f))
  <1> DEFINE t == Append(s, f)
             n == Len(s)
  <1>1. /\ n \in Nat /\ DOMAIN s = 1..n /\ DOMAIN t = 1..n + 1 /\ Len(t) = n + 1
        /\ \A k \in 1..n : t[k] = s[k]
        /\ t[n + 1] = f
    BY PushFacts
  <1>2. n # 0 => s # <<>> /\ Last(s) = s[n]
    BY EmptySeq DEF Last
  <1>3. \A k \in DOMAIN s : s[k].kind = "batch" /\ k < n => s[k + 1].kind = "handler" /\ s[k + 1].msg.marked
    BY DEF Shape
  <1> HIDE DEF t, n
  <1>4. \A k \in DOMAIN t : (k \in DOMAIN s /\ t[k] = s[k]) \/ (k = n + 1 /\ t[k] = f)
    BY <1>1
  <1>5. \A k \in DOMAIN t : \A m \in 1..k - 1 : m \in DOMAIN s /\ t[m] = s[m]
    BY <1>1
  <1>6. Shape(t)
    <2>1. \A k \in DOMAIN t : AllMarked(t[k].rest) /\ AllMarked(t[k].held)
      BY <1>4 DEF Shape
    <2>2. ASSUME NEW k \in DOMAIN t, t[k].kind = "batch", k < Len(t)
          PROVE  t[k + 1].kind = "handler" /\ t[k + 1].msg.marked
      <3>1. k \in 1..n /\ t[k] = s[k]
        BY <1>1, <2>2
      <3>2. CASE k = n
        BY <1>1, <1>2, <2>2, <3>1, <3>2
      <3>3. CASE k # n
        <4>1. k < n /\ k + 1 \in 1..n /\ k \in DOMAIN s
          BY <1>1, <3>1, <3>3
        <4> QED
          BY <1>1, <1>3, <2>2, <3>1, <4>1
      <3> QED
        BY <3>2, <3>3
    <2>3. ASSUME NEW k \in DOMAIN t, t[k].kind = "sync", ~t[k].msg.marked
          PROVE  /\ OnlySend[t[k].conn]
                 /\ \A m \in 1..k - 1 : t[m] \notin MarkedFrame(t[k].conn)
      <3>1. CASE k \in DOMAIN s /\ t[k] = s[k]
        BY <1>5, <2>3, <3>1 DEF Shape
      <3>2. CASE t[k] = f
        BY <1>5, <2>3, <3>2
      <3> QED
        BY <1>4, <3>1, <3>2
    <2> QED
      BY <2>1, <2>2, <2>3 DEF Shape
  <1>7. f.kind # "sync" => NoMore(s, t)
    BY <1>4, <1>5 DEF NoMore
  <1>8. f.kind # "handler" \/ f.msg.marked => Handled(s, t)
    BY <1>4 DEF Handled
  <1> QED
    BY <1>6, <1>7, <1>8 DEF t

LEMMA ShapeReplace ==
    ASSUME NEW s \in Seq(Frame), s # <<>>, Shape(s), NEW f \in Frame,
           f.kind = Last(s).kind, f.conn = Last(s).conn,
           IF f.kind = "handler" THEN f.msg.marked ELSE f.msg = Last(s).msg,
           AllMarked(f.rest), AllMarked(f.held)
    PROVE  Grown(s, Append(Front(s), f)) /\ Append(Front(s), f) \in Seq(Frame)
  <1> DEFINE b == Front(s)
             t == Append(b, f)
             n == Len(s)
  <1>1. /\ n \in Nat \ {0} /\ DOMAIN s = 1..n /\ Len(b) = n - 1
        /\ b \in Seq(Frame) /\ s[n] = Last(s)
        /\ \A k \in 1..n - 1 : b[k] = s[k]
    BY PopFacts
  <1>2. /\ DOMAIN t = 1..Len(b) + 1 /\ t \in Seq(Frame)
        /\ \A k \in 1..Len(b) : t[k] = b[k]
        /\ t[Len(b) + 1] = f /\ Len(t) = Len(b) + 1
    BY <1>1, PushFacts
  <1> HIDE DEF t, b, n
  <1>3. /\ DOMAIN t = 1..n /\ t[n] = f /\ Len(t) = n
        /\ \A k \in 1..n - 1 : t[k] = s[k]
    BY <1>1, <1>2
  <1>4. \A k \in DOMAIN t : k \in DOMAIN s /\ ((k < n /\ t[k] = s[k]) \/ (k = n /\ t[k] = f))
    BY <1>1, <1>3
  <1>5. \A k \in DOMAIN t : \A m \in 1..k - 1 : t[m] = s[m]
    BY <1>1, <1>3
  <1>6. \A k \in DOMAIN t :
            /\ t[k].kind = s[k].kind /\ t[k].conn = s[k].conn
            /\ t[k].msg = s[k].msg \/ (t[k].kind = "handler" /\ t[k].msg.marked)
            /\ t[k].kind = "sync" => t[k].msg = s[k].msg
    BY <1>1, <1>4
  <1>7. NoMore(s, t) /\ Handled(s, t)
    BY <1>4, <1>5, <1>6 DEF NoMore, Handled
  <1>8. Shape(t)
    <2>1. \A k \in DOMAIN t : AllMarked(t[k].rest) /\ AllMarked(t[k].held)
      BY <1>4 DEF Shape
    <2>2. ASSUME NEW k \in DOMAIN t, t[k].kind = "batch", k < Len(t)
          PROVE  t[k + 1].kind = "handler" /\ t[k + 1].msg.marked
      <3>1. k \in DOMAIN s /\ k < n /\ s[k].kind = "batch" /\ k + 1 \in DOMAIN t
        BY <1>1, <1>3, <1>6, <2>2
      <3>2. s[k + 1].kind = "handler" /\ s[k + 1].msg.marked
        BY <3>1 DEF Shape, n
      <3> QED
        BY <1>6, <3>1, <3>2
    <2>3. \A k \in DOMAIN t : t[k].kind = "sync" /\ ~t[k].msg.marked =>
              /\ OnlySend[t[k].conn]
              /\ \A m \in 1..k - 1 : t[m] \notin MarkedFrame(t[k].conn)
      BY <1>4, <1>5, <1>6 DEF Shape
    <2> QED
      BY <2>1, <2>2, <2>3 DEF Shape
  <1> QED
    BY <1>2, <1>7, <1>8 DEF Grown, t, b

LEMMA GrownSame == ASSUME NEW s, Shape(s) PROVE Grown(s, s)
  BY DEF Grown, NoMore, Handled

LEMMA GrownTwice ==
    ASSUME NEW s, NEW t \in Seq(Frame), NEW u \in Seq(Frame), Grown(s, t), Grown(t, u) PROVE Grown(s, u)
  <1>1. DOMAIN t = 1..Len(t) /\ DOMAIN u = 1..Len(u) /\ Len(t) \in Nat /\ Len(u) \in Nat
    BY LenProperties
  <1>2. ASSUME NEW k \in DOMAIN u, u[k].kind = "sync"
        PROVE  /\ k \in DOMAIN s /\ s[k].kind = "sync" /\ s[k].conn = u[k].conn /\ s[k].msg = u[k].msg
               /\ \A m \in 1..k - 1 : u[m] = s[m]
    BY <1>2 DEF Grown, NoMore
  <1>3. ASSUME NEW k \in DOMAIN u, u[k].kind = "handler"
        PROVE  u[k].msg.marked \/ (k \in DOMAIN s /\ u[k] = s[k])
    BY <1>3 DEF Grown, Handled
  <1> QED
    BY <1>2, <1>3 DEF Grown, NoMore, Handled

-----------------------------------------------------------------------------
(* What a sequence contains.                                               *)
LEMMA ContainsFacts ==
    ASSUME NEW S, NEW s \in Seq(S), NEW e \in S, NEW x
    PROVE  /\ Contains(s, x) <=> \E k \in DOMAIN s : s[k] = x
           /\ Contains(Append(s, e), x) <=> Contains(s, x) \/ x = e
           /\ s # <<>> => /\ Contains(s, Head(s)) /\ Head(s) \in S
                          /\ Contains(Tail(s), x) => Contains(s, x)
           /\ ~Contains(<<>>, x)
  <1>1. Len(s) \in Nat /\ DOMAIN s = 1..Len(s)
    BY LenProperties
  <1>2. /\ Len(Append(s, e)) = Len(s) + 1 /\ Append(s, e)[Len(s) + 1] = e
        /\ \A k \in 1..Len(s) : Append(s, e)[k] = s[k]
    BY AppendProperties
  <1>3. Contains(s, x) <=> \E k \in DOMAIN s : s[k] = x
    BY <1>1 DEF Contains
  <1>4. \A k \in 1..Len(s) + 1 : k \in 1..Len(s) \/ k = Len(s) + 1
    BY <1>1
  <1>5. 1..Len(s) \subseteq 1..Len(s) + 1 /\ Len(s) + 1 \in 1..Len(s) + 1
    BY <1>1
  <1>6. Contains(Append(s, e), x) <=> Contains(s, x) \/ x = e
    BY <1>2, <1>4, <1>5 DEF Contains
  <1>7. ASSUME s # <<>>
        PROVE  Contains(s, Head(s)) /\ Head(s) \in S /\ (Contains(Tail(s), x) => Contains(s, x))
    <2>1. /\ Len(s) # 0 /\ Head(s) = s[1] /\ Len(Tail(s)) = Len(s) - 1 /\ Head(s) \in S
          /\ \A k \in 1..Len(s) - 1 : Tail(s)[k] = s[k + 1]
      BY <1>7, HeadTailProperties, EmptySeq
    <2>2. 1 \in 1..Len(s) /\ \A k \in 1..Len(s) - 1 : k + 1 \in 1..Len(s)
      BY <1>1, <2>1
    <2> QED
      BY <2>1, <2>2 DEF Contains
  <1>8. ~Contains(<<>>, x)
    <2>1. Len(<<>>) = 0 /\ 1..0 = {}
      OBVIOUS
    <2> QED
      BY <2>1 DEF Contains
  <1> QED
    BY <1>3, <1>6, <1>7, <1>8

LEMMA ContainsConcat ==
    ASSUME NEW S, NEW s \in Seq(S), NEW t \in Seq(S), NEW x, Contains(s \o t, x)
    PROVE  Contains(s, x) \/ Contains(t, x)
  <1>1. Len(s) \in Nat /\ Len(t) \in Nat
    BY LenProperties
  <1>2. /\ Len(s \o t) = Len(s) + Len(t)
        /\ \A k \in 1..Len(s) + Len(t) : (s \o t)[k] = IF k <= Len(s) THEN s[k] ELSE t[k - Len(s)]
    BY ConcatProperties
  <1>3. PICK k \in 1..Len(s) + Len(t) : (s \o t)[k] = x
    BY <1>2 DEF Contains
  <1>4. CASE k <= Len(s)
    <2>1. k \in 1..Len(s) /\ s[k] = x
      BY <1>1, <1>2, <1>3, <1>4
    <2> QED
      BY <2>1 DEF Contains
  <1>5. CASE ~(k <= Len(s))
    <2>1. k - Len(s) \in 1..Len(t) /\ t[k - Len(s)] = x
      BY <1>1, <1>2, <1>3, <1>5
    <2> QED
      BY <2>1 DEF Contains
  <1> QED
    BY <1>4, <1>5

LEMMA MarkedFacts ==
    ASSUME NEW q \in Seq(Item), AllMarked(q)
    PROVE  /\ AllMarked(<<>>)
           /\ q # <<>> => AllMarked(Tail(q)) /\ Head(q).msg.marked
           /\ \A e \in Item : e.msg.marked => AllMarked(Append(q, e))
           /\ \A r \in Seq(Item) : AllMarked(r) => AllMarked(q \o r)
  <1>1. \A r \in Seq(Item) : AllMarked(r) <=> \A x : Contains(r, x) => x.msg.marked
    <2> SUFFICES ASSUME NEW r \in Seq(Item) PROVE AllMarked(r) <=> \A x : Contains(r, x) => x.msg.marked
      OBVIOUS
    <2>1. DOMAIN r = 1..Len(r)
      BY LenProperties
    <2> QED
      BY <2>1 DEF AllMarked, Contains
  <1>2. AllMarked(<<>>)
    BY DEF AllMarked
  <1>3. ASSUME q # <<>> PROVE AllMarked(Tail(q)) /\ Head(q).msg.marked
    <2>1. Tail(q) \in Seq(Item) /\ Head(q) \in Item
      BY <1>3, HeadTailProperties
    <2>2. Contains(q, Head(q)) /\ \A x : Contains(Tail(q), x) => Contains(q, x)
      BY <1>3, <2>1, ContainsFacts
    <2> QED
      BY <1>1, <2>1, <2>2
  <1>4. ASSUME NEW e \in Item, e.msg.marked PROVE AllMarked(Append(q, e))
    <2>1. Append(q, e) \in Seq(Item) /\ \A x : Contains(Append(q, e), x) => Contains(q, x) \/ x = e
      BY AppendProperties, ContainsFacts
    <2> QED
      BY <1>1, <1>4, <2>1
  <1>5. ASSUME NEW r \in Seq(Item), AllMarked(r) PROVE AllMarked(q \o r)
    <2>1. q \o r \in Seq(Item)
      BY ConcatProperties
    <2>2. \A x : Contains(q \o r, x) => Contains(q, x) \/ Contains(r, x)
      BY ContainsConcat
    <2> QED
      BY <1>1, <1>5, <2>1, <2>2
  <1> QED
    BY <1>2, <1>3, <1>4, <1>5

-----------------------------------------------------------------------------
(* The stacks as the main threads take their steps.                        *)
Laden == \A p \in Proc : Shape(stack[p]) /\ AllMarked(toDispatch[p])

Grows == \A p \in Proc : Grown(stack[p], stack'[p]) /\ AllMarked(toDispatch'[p])

LEMMA GrowsAt ==
    ASSUME Laden, NEW p \in Proc, Same(stack, stack', p), Same(toDispatch, toDispatch', p),
           Grown(stack[p], stack'[p]), AllMarked(toDispatch'[p])
    PROVE  Grows
  <1>1. \A q \in Proc : Grown(stack[q], stack[q])
    BY GrownSame DEF Laden
  <1> QED
    BY <1>1 DEF Laden, Grows, Same

LEMMA StackGrows ==
    ASSUME IInv, Laden, NEW p \in Proc, NEW s, stack' = [stack EXCEPT ![p] = s],
           Grown(stack[p], s), UNCHANGED toDispatch
    PROVE  Grows
  <1>1. stack'[p] = s /\ Same(stack, stack', p)
    BY StackOf
  <1> QED
    BY <1>1, GrowsAt DEF Same, Laden

LEMMA StillGrows == ASSUME Laden, UNCHANGED <<stack, toDispatch>> PROVE Grows
  BY GrownSame DEF Laden, Grows

LEMMA PopGrows ==
    ASSUME IInv, Laden, NEW p \in Proc, NEW kind, NEW pc, At(p, kind, pc), Pop(p)
    PROVE  /\ stack'[p] = Front(stack[p]) /\ Same(stack, stack', p)
           /\ Grown(stack[p], stack'[p])
  <1>1. stack[p] # <<>> /\ stack[p] \in Seq(Frame) /\ Shape(stack[p])
    BY TopWeight DEF Laden
  <1>2. Grown(stack[p], Front(stack[p]))
    BY <1>1, ShapePop
  <1>3. stack' = [stack EXCEPT ![p] = Front(stack[p])]
    BY DEF Pop
  <1>4. stack'[p] = Front(stack[p]) /\ Same(stack, stack', p)
    BY <1>3, StackOf
  <1> QED
    BY <1>2, <1>4

LEMMA PopAllGrows ==
    ASSUME IInv, Laden, NEW p \in Proc, NEW kind, NEW pc, At(p, kind, pc), Pop(p), UNCHANGED toDispatch
    PROVE  Grows
  BY PopGrows, GrowsAt DEF Same, Laden

LEMMA ReplaceGrows ==
    ASSUME IInv, Laden, NEW p \in Proc, NEW kind, NEW pc, At(p, kind, pc), kind # "handler",
           NEW f \in Frame, f.kind = kind, f.conn = Top(p).conn, f.msg = Top(p).msg,
           AllMarked(f.rest), AllMarked(f.held)
    PROVE  /\ Grown(stack[p], Append(Front(stack[p]), f))
           /\ Append(Front(stack[p]), f) \in Seq(Frame)
           /\ stack[p] \in Seq(Frame)
  <1>1. /\ stack[p] # <<>> /\ stack[p] \in Seq(Frame) /\ Shape(stack[p])
        /\ Top(p) = Last(stack[p]) /\ Top(p).kind = kind
    BY TopWeight DEF Laden
  <1> QED
    BY <1>1, ShapeReplace

LEMMA IncrementGrows == ASSUME IInv, Laden, NEW p \in Proc, IncrementMarkedCount(p) PROVE Grows
  <1> DEFINE f == Raised(Top(p))
  <1>1. /\ stack[p] # <<>> /\ Top(p) = Last(stack[p]) /\ Top(p).kind = "handler"
        /\ f \in Frame /\ f \in GoodFrame(p)
        /\ f.kind = "handler" /\ f.conn = Top(p).conn /\ f.msg.marked
        /\ stack' = [stack EXCEPT ![p] = Append(Front(stack[p]), f)]
    BY RaisedFacts
  <1>2. UNCHANGED toDispatch
    BY DEF IncrementMarkedCount, loopVars
  <1> HIDE DEF f
  <1>3. f.rest = <<>> /\ f.held = <<>>
    BY <1>1 DEF GoodFrame
  <1>4. AllMarked(f.rest) /\ AllMarked(f.held)
    BY <1>3 DEF AllMarked
  <1>5. stack[p] \in Seq(Frame) /\ Shape(stack[p])
    BY DEF Laden, IInv, WaitTypes
  <1>6. Grown(stack[p], Append(Front(stack[p]), f))
    BY <1>1, <1>4, <1>5, ShapeReplace
  <1> QED
    BY <1>1, <1>2, <1>6, StackGrows

LEMMA EndDispatchGrows == ASSUME IInv, Laden, NEW p \in Proc, EndDispatch(p) PROVE Grows
  <1>1. At(p, "handler", "run") /\ Pop(p) /\ UNCHANGED toDispatch
    BY DEF EndDispatch, loopVars
  <1> QED
    BY <1>1, PopAllGrows

LEMMA SyncReturnGrows ==
    ASSUME IInv, Laden, NEW p \in Proc, NEW pc, At(p, "sync", pc), NEW ok,
           SyncReturn(p, Top(p).conn, ok)
    PROVE  Grows
  <1>1. Pop(p) /\ UNCHANGED toDispatch
    BY DEF SyncReturn
  <1> QED
    BY <1>1, PopAllGrows

LEMMA TopVectors ==
    ASSUME IInv, Laden, NEW p \in Proc, NEW kind, NEW pc, At(p, kind, pc)
    PROVE  AllMarked(Top(p).rest) /\ AllMarked(Top(p).held)
  <1>1. stack[p] # <<>> /\ stack[p] \in Seq(Frame) /\ Shape(stack[p]) /\ Top(p) = Last(stack[p])
    BY TopWeight DEF Laden
  <1>2. Len(stack[p]) \in DOMAIN stack[p] /\ Top(p) = stack[p][Len(stack[p])]
    BY <1>1, PopFacts
  <1> QED
    BY <1>1, <1>2 DEF Shape

(* The frame f goes on at another point.                                   *)
LEMMA MovedFrame ==
    ASSUME NEW f \in Frame, NEW pc \in {"swap", "loop", "run", "dispatch", "check", "blocked"},
           NEW g, g = [f EXCEPT !.pc = pc]
    PROVE  /\ g \in Frame /\ g.kind = f.kind /\ g.conn = f.conn /\ g.msg = f.msg /\ g.rest = f.rest
           /\ g.held = f.held /\ g.pc = pc
  BY DEF Frame

LEMMA SyncMoves ==
    ASSUME IInv, Laden, NEW p \in Proc, NEW at, At(p, "sync", at),
           NEW pc \in {"swap", "loop", "run", "dispatch", "check", "blocked"},
           NEW g, g = [Top(p) EXCEPT !.pc = pc]
    PROVE  /\ Grown(stack[p], Append(Front(stack[p]), g))
           /\ Append(Front(stack[p]), g) \in Seq(Frame) /\ g \in Frame
           /\ g.kind = "sync" /\ g.conn = Top(p).conn /\ g.pc = pc
  <1>1. Top(p) \in Frame /\ Top(p).kind = "sync"
    BY TopWeight
  <1>2. /\ g \in Frame /\ g.kind = "sync" /\ g.conn = Top(p).conn /\ g.msg = Top(p).msg
        /\ g.rest = Top(p).rest /\ g.held = Top(p).held /\ g.pc = pc
    BY <1>1, MovedFrame
  <1>3. AllMarked(g.rest) /\ AllMarked(g.held) /\ "sync" # "handler"
    BY <1>2, TopVectors
  <1> QED
    BY <1>2, <1>3, ReplaceGrows

LEMMA SyncCheckGrows == ASSUME IInv, Laden, NEW p \in Proc, SyncCheck(p) PROVE Grows
  <1>1. At(p, "sync", "check")
    BY DEF SyncCheck
  <1>2. CASE StopsWaiting(Top(p).conn)
    <2>1. SyncReturn(p, Top(p).conn, Last(pending[Top(p).conn]).got)
      BY <1>2 DEF SyncCheck
    <2> QED
      BY <1>1, <2>1, SyncReturnGrows
  <1>3. CASE ~StopsWaiting(Top(p).conn)
    <2> DEFINE g == [Top(p) EXCEPT !.pc = "blocked"]
    <2>1. stack' = [stack EXCEPT ![p] = Append(Front(stack[p]), g)] /\ UNCHANGED toDispatch
      BY <1>3 DEF SyncCheck, Replace, loopVars
    <2>2. Grown(stack[p], Append(Front(stack[p]), g))
      BY <1>1, SyncMoves
    <2> QED
      BY <2>1, <2>2, StackGrows
  <1> QED
    BY <1>2, <1>3

LEMMA SyncWakeGrows == ASSUME IInv, Laden, NEW p \in Proc, SyncWake(p) PROVE Grows
  <1> DEFINE g == [Top(p) EXCEPT !.pc = "dispatch"]
  <1>1. At(p, "sync", "blocked")
    BY DEF SyncWake
  <1>2. stack' = [stack EXCEPT ![p] = Append(Front(stack[p]), g)] /\ UNCHANGED toDispatch
    BY DEF SyncWake, Replace
  <1>3. Grown(stack[p], Append(Front(stack[p]), g))
    BY <1>1, SyncMoves
  <1> QED
    BY <1>2, <1>3, StackGrows

LEMMA SyncTimeoutGrows == ASSUME IInv, Laden, NEW p \in Proc, SyncTimeout(p) PROVE Grows
  <1>1. At(p, "sync", "blocked") /\ SyncReturn(p, Top(p).conn, FALSE)
    BY DEF SyncTimeout
  <1> QED
    BY <1>1, SyncReturnGrows

LEMMA SwapGrows ==
    ASSUME IInv, Laden, NEW p \in Proc, NEW s, stack' = [stack EXCEPT ![p] = s], Grown(stack[p], s),
           toDispatch' = [toDispatch EXCEPT ![p] = <<>>]
    PROVE  Grows
  <1>1. stack'[p] = s /\ Same(stack, stack', p)
    BY StackOf
  <1>2. toDispatch \in [Proc -> Seq(Item)]
    BY TaskTypes
  <1>3. toDispatch'[p] = <<>> /\ Same(toDispatch, toDispatch', p)
    BY <1>2 DEF Same
  <1>4. AllMarked(toDispatch'[p])
    BY <1>3 DEF AllMarked
  <1> QED
    BY <1>1, <1>3, <1>4, GrowsAt

(* The frame f has taken the messages q.                                   *)
Swapped(f, q) == [f EXCEPT !.pc = "loop", !.rest = q]

LEMMA SwappedFrame ==
    ASSUME NEW f \in Frame, NEW q \in Seq(Item), NEW g, g = Swapped(f, q)
    PROVE  /\ g \in Frame /\ g.kind = f.kind /\ g.conn = f.conn /\ g.msg = f.msg /\ g.rest = q
           /\ g.held = f.held /\ g.pc = "loop"
  BY DEF Frame, Swapped

LEMMA SwapMessagesGrows == ASSUME IInv, Laden, NEW p \in Proc, SwapMessages(p) PROVE Grows
  <1> DEFINE g == [Top(p) EXCEPT !.pc = "loop", !.rest = toDispatch[p]]
  <1>1. At(p, "batch", "swap")
    BY DEF SwapMessages
  <1>2. /\ stack' = [stack EXCEPT ![p] = Append(Front(stack[p]), g)]
        /\ toDispatch' = [toDispatch EXCEPT ![p] = <<>>]
    BY DEF SwapMessages, Swap
  <1>3. Top(p) \in Frame /\ Top(p).kind = "batch" /\ toDispatch[p] \in Seq(Item)
    BY <1>1, TopWeight, TaskTypes
  <1>4. /\ g \in Frame /\ g.kind = "batch" /\ g.conn = Top(p).conn /\ g.msg = Top(p).msg
        /\ g.rest = toDispatch[p] /\ g.held = Top(p).held
    <2>1. g = Swapped(Top(p), toDispatch[p])
      BY DEF Swapped
    <2> HIDE DEF g
    <2> QED
      BY <1>3, <2>1, SwappedFrame
  <1>5. AllMarked(g.rest) /\ AllMarked(g.held) /\ "batch" # "handler"
    BY <1>1, <1>4, TopVectors DEF Laden
  <1> HIDE DEF g
  <1>6. Grown(stack[p], Append(Front(stack[p]), g))
    BY <1>1, <1>4, <1>5, ReplaceGrows
  <1> QED
    BY <1>2, <1>6, SwapGrows

LEMMA SyncDispatchGrows == ASSUME IInv, Laden, NEW p \in Proc, SyncDispatch(p) PROVE Grows
  <1> DEFINE f == [Top(p) EXCEPT !.pc = "check"]
             e == NewFrame("batch", "swap", NoConn, NoMsg, FALSE)
             g == [e EXCEPT !.pc = "loop", !.rest = toDispatch[p]]
             b == Append(Front(stack[p]), f)
  <1>1. At(p, "sync", "dispatch")
    BY DEF SyncDispatch
  <1>2. /\ stack' = [stack EXCEPT ![p] = Append(b, g)]
        /\ toDispatch' = [toDispatch EXCEPT ![p] = <<>>]
    BY DEF SyncDispatch, Swap
  <1>3. /\ Grown(stack[p], b) /\ b \in Seq(Frame) /\ f \in Frame
        /\ f.kind = "sync"
    BY <1>1, SyncMoves
  <1>4. toDispatch[p] \in Seq(Item) /\ stack[p] \in Seq(Frame) /\ Front(stack[p]) \in Seq(Frame)
    BY <1>1, TaskTypes, TopWeight
  <1>5. e \in Frame /\ e.kind = "batch" /\ e.held = <<>>
    BY EmptySeq DEF NewFrame, Frame, NoMsg, Msg
  <1> HIDE DEF e
  <1>6. g \in Frame /\ g.kind = "batch" /\ g.rest = toDispatch[p] /\ g.held = <<>>
    <2>1. g = Swapped(e, toDispatch[p])
      BY DEF Swapped
    <2> HIDE DEF g
    <2> QED
      BY <1>4, <1>5, <2>1, SwappedFrame
  <1>7. AllMarked(g.rest) /\ AllMarked(g.held)
    BY <1>6 DEF Laden, AllMarked
  <1>8. Last(b) = f
    <2> HIDE DEF f
    <2>1. /\ Len(b) = Len(Front(stack[p])) + 1 /\ b[Len(Front(stack[p])) + 1] = f
      BY <1>3, <1>4, PushFacts
    <2> QED
      BY <2>1 DEF Last
  <1>9. "sync" # "batch" /\ "batch" # "handler"
    OBVIOUS
  <1> HIDE DEF f, g, b
  <1>10. Shape(b)
    BY <1>3 DEF Grown
  <1>11. Grown(b, Append(b, g))
    BY <1>3, <1>6, <1>7, <1>8, <1>9, <1>10, ShapePush DEF Grown
  <1>12. Append(b, g) \in Seq(Frame)
    BY <1>3, <1>6, PushFacts
  <1>13. Grown(stack[p], Append(b, g))
    BY <1>3, <1>11, <1>12, GrownTwice
  <1> QED
    BY <1>2, <1>13, SwapGrows

LEMMA DispatchNextGrows == ASSUME IInv, Laden, NEW p \in Proc, DispatchNext(p) PROVE Grows
  <1> DEFINE s == Front(stack[p])
             f == Top(p)
             item == Head(f.rest)
             c == item.conn
             m == item.msg
             next == [f EXCEPT !.rest = Tail(@)]
             aside == [next EXCEPT !.held = Append(@, Head(f.rest))]
             b == Append(s, next)
             g == NewFrame("handler", "run", c, m, invalid[c])
  <1>1. At(p, "batch", "loop") /\ f.rest # <<>> /\ UNCHANGED toDispatch
    BY DEF DispatchNext, loopVars
  <1>2. /\ s \in Seq(Frame) /\ f \in Frame /\ f \in GoodFrame(p) /\ f.kind = "batch" /\ f.pc = "loop"
        /\ stack[p] \in Seq(Frame)
    BY <1>1, TopWeight
  <1>3. AllMarked(f.rest) /\ AllMarked(f.held) /\ f.rest \in Seq(Item) /\ f.held \in Seq(Item)
    BY <1>1, <1>2, TopVectors, VectorsType
  <1>4. /\ item \in HomeItem(p)
        /\ next \in GoodFrame(p) /\ next.kind = "batch" /\ next.conn = f.conn /\ next.msg = f.msg
        /\ next.rest = Tail(f.rest) /\ next.held = f.held
        /\ f.conn # NoConn => aside \in GoodFrame(p)
        /\ aside.kind = "batch" /\ aside.conn = f.conn /\ aside.msg = f.msg
        /\ aside.rest = Tail(f.rest) /\ aside.held = Append(f.held, item)
    <2>1. next = Advanced(f) /\ aside = SetAside(f) /\ WaitInv
      BY DEF Advanced, SetAside, IInv, WaitInv
    <2> HIDE DEF f, next, aside
    <2> QED
      BY <1>1, <1>2, <2>1, NextFrames
  <1>5. /\ next \in Frame /\ (f.conn # NoConn => aside \in Frame)
        /\ item \in Item /\ c \in Conn /\ ProcOf[c] = p /\ m \in Msg
    BY <1>4 DEF GoodFrame, HomeItem, Home, Item
  <1>6. AllMarked(Tail(f.rest)) /\ m.marked /\ AllMarked(Append(f.held, item)) /\ AllMarked(<<>>)
    <2> HIDE DEF f
    <2>1. AllMarked(Tail(f.rest)) /\ item.msg.marked /\ AllMarked(<<>>)
      BY <1>1, <1>3, MarkedFacts
    <2>2. AllMarked(Append(f.held, item))
      <3> HIDE DEF item
      <3> QED
        BY <1>3, <1>5, <2>1, MarkedFacts
    <2> QED
      BY <2>1, <2>2
  <1>7. "batch" # "handler" /\ "handler" # "sync"
    OBVIOUS
  <1>8. CASE f.conn # NoConn /\ f.conn # c
    <2>1. stack' = [stack EXCEPT ![p] = Append(s, aside)]
      BY <1>8 DEF DispatchNext, Replace
    <2> HIDE DEF next, aside
    <2>2. Grown(stack[p], Append(Front(stack[p]), aside))
      BY <1>1, <1>4, <1>5, <1>6, <1>7, <1>8, ReplaceGrows
    <2> QED
      BY <1>1, <2>1, <2>2, StackGrows
  <1>9. CASE ~(f.conn # NoConn /\ f.conn # c)
    <2>1. \/ stack' = [stack EXCEPT ![p] = b]
          \/ stack' = [stack EXCEPT ![p] = Append(b, g)]
      BY <1>5, <1>9 DEF DispatchNext, DispatchMessage
    <2>2. g \in Frame /\ g.kind = "handler" /\ g.msg.marked /\ g.rest = <<>> /\ g.held = <<>>
      <3>1. invalid[c] \in BOOLEAN
        BY <1>5 DEF IInv, ConnTypes
      <3> QED
        BY <1>5, <1>6, <3>1, EmptySeq DEF NewFrame, Frame
    <2> HIDE DEF next, aside, g
    <2>3. Grown(stack[p], Append(Front(stack[p]), next)) /\ Append(Front(stack[p]), next) \in Seq(Frame)
      BY <1>1, <1>3, <1>4, <1>5, <1>6, <1>7, ReplaceGrows
    <2>4. b \in Seq(Frame) /\ Shape(b) /\ Grown(stack[p], b)
      BY <2>3 DEF Grown
    <2> HIDE DEF b
    <2>5. Grown(b, Append(b, g)) /\ Append(b, g) \in Seq(Frame)
      <3>1. AllMarked(g.rest) /\ AllMarked(g.held)
        BY <1>6, <2>2
      <3>2. /\ Shape(Append(b, g))
            /\ g.kind # "sync" => NoMore(b, Append(b, g))
            /\ g.kind = "handler" /\ g.msg.marked => Handled(b, Append(b, g))
        BY <1>7, <2>2, <2>4, <3>1, ShapePush
      <3> QED
        BY <1>7, <2>2, <2>4, <3>2, PushFacts DEF Grown
    <2>6. Grown(stack[p], Append(b, g))
      BY <2>4, <2>5, GrownTwice
    <2> QED
      BY <1>1, <2>1, <2>4, <2>6, StackGrows
  <1> QED
    BY <1>8, <1>9

LEMMA PutBackGrows == ASSUME IInv, Laden, NEW p \in Proc, PutBack(p) PROVE Grows
  <1>1. /\ At(p, "batch", "loop") /\ Pop(p)
        /\ toDispatch' = [toDispatch EXCEPT ![p] = @ \o Top(p).held]
    BY DEF PutBack
  <1>2. Same(stack, stack', p) /\ Grown(stack[p], stack'[p])
    BY <1>1, PopGrows
  <1>3. toDispatch \in [Proc -> Seq(Item)] /\ Top(p).held \in Seq(Item)
    BY <1>1, TaskTypes, TopWeight, VectorsType
  <1>4. toDispatch'[p] = toDispatch[p] \o Top(p).held /\ Same(toDispatch, toDispatch', p)
    BY <1>1, <1>3 DEF Same
  <1>5. AllMarked(toDispatch[p]) /\ AllMarked(Top(p).held) /\ toDispatch[p] \in Seq(Item)
    BY <1>1, <1>3, TopVectors DEF Laden
  <1>6. AllMarked(toDispatch'[p])
    BY <1>3, <1>4, <1>5, MarkedFacts
  <1> QED
    BY <1>2, <1>4, <1>6, GrowsAt

LEMMA ProcessMarkedMessageGrows ==
    ASSUME IInv, Laden, NEW c \in Conn, ProcessMarkedMessage(c) PROVE Grows
  <1> DEFINE p == ProcOf[c]
             item == [conn |-> c, msg |-> Head(wire[c])]
  <1>1. /\ toDispatch' = [toDispatch EXCEPT ![p] = Append(@, item)] /\ UNCHANGED stack
        /\ Head(wire[c]).marked /\ wire[c] # <<>>
    BY DEF ProcessMarkedMessage, mainVars, Readable
  <1>2. p \in Proc /\ toDispatch \in [Proc -> Seq(Item)] /\ wire[c] \in Seq(Msg)
    BY ConnAssumption DEF IInv, ConnTypes, WaitTypes
  <1>3. item \in Item /\ item.msg.marked
    <2>1. Head(wire[c]) \in Msg
      BY <1>1, <1>2, HeadTailProperties
    <2> QED
      BY <1>1, <2>1 DEF Item
  <1> HIDE DEF item, p
  <1>4. toDispatch'[p] = Append(toDispatch[p], item) /\ Same(toDispatch, toDispatch', p)
    BY <1>1, <1>2 DEF Same
  <1>5. toDispatch[p] \in Seq(Item) /\ AllMarked(toDispatch[p]) /\ Grown(stack[p], stack[p])
    BY <1>2, GrownSame DEF Laden
  <1>6. AllMarked(toDispatch'[p])
    BY <1>3, <1>4, <1>5, MarkedFacts
  <1> QED
    BY <1>1, <1>2, <1>4, <1>5, <1>6, GrowsAt DEF Same

(* The run loop of p calls a function: the stack is empty.                 *)
LEMMA FirstShape ==
    ASSUME NEW f \in Frame, f.kind # "sync", AllMarked(f.rest), AllMarked(f.held)
    PROVE  /\ Append(<<>>, f) \in Seq(Frame) /\ Append(<<>>, f) # <<>>
           /\ Shape(Append(<<>>, f)) /\ NoMore(<<>>, Append(<<>>, f))
           /\ f.kind # "handler" => Grown(<<>>, Append(<<>>, f))
  <1>1. <<>> \in Seq(Frame) /\ Shape(<<>>)
    BY EmptySeq DEF Shape
  <1>2. /\ Shape(Append(<<>>, f)) /\ NoMore(<<>>, Append(<<>>, f))
        /\ f.kind # "handler" => Handled(<<>>, Append(<<>>, f))
    BY <1>1, ShapePush
  <1> QED
    BY <1>1, <1>2, PushFacts DEF Grown

LEMMA DispatchMessagesTaskGrows ==
    ASSUME IInv, Laden, NEW p \in Proc, DispatchMessagesTask(p) PROVE Grows
  <1> DEFINE c == Head(runq[p]).conn
             f == NewFrame("batch", "swap", c, NoMsg, FALSE)
  <1>1. /\ stack[p] = <<>> /\ runq[p] # <<>> /\ UNCHANGED toDispatch
        /\ stack' = [stack EXCEPT ![p] = Append(stack[p], f)]
    BY DEF DispatchMessagesTask, NextTask, Push
  <1>2. c \in Conn
    <2>1. runq[p] \in Seq(Task)
      BY TaskTypes
    <2>2. Head(runq[p]) \in Task
      BY <1>1, <2>1, HeadTailProperties
    <2> QED
      BY <2>2 DEF Task
  <1>3. f \in Frame /\ f.kind = "batch" /\ f.rest = <<>> /\ f.held = <<>>
    <2>1. NoMsg \in Msg
      BY DEF NoMsg, Msg
    <2> QED
      BY <1>2, <2>1, EmptySeq DEF NewFrame, Frame
  <1> HIDE DEF f
  <1>4. AllMarked(f.rest) /\ AllMarked(f.held) /\ f.kind # "sync" /\ f.kind # "handler"
    <2>1. "batch" # "sync" /\ "batch" # "handler"
      OBVIOUS
    <2> QED
      BY <1>3, <2>1 DEF AllMarked
  <1>5. Grown(stack[p], Append(stack[p], f))
    BY <1>1, <1>3, <1>4, FirstShape
  <1> QED
    BY <1>1, <1>5, StackGrows

LEMMA NumberZero ==
    ASSUME NEW S, NEW s \in Seq(S), NEW P
    PROVE  Number(s, P) = 0 <=> \A k \in DOMAIN s : s[k] \notin P
  <1> DEFINE A == {k \in DOMAIN s : s[k] \in P}
  <1>1. IsFiniteSet(A)
    <2>1. Len(s) \in Nat /\ DOMAIN s = 1..Len(s)
      BY LenProperties
    <2>2. IsFiniteSet(1..Len(s))
      BY <2>1, FS_Interval
    <2>3. A \in SUBSET (1..Len(s))
      BY <2>1
    <2> QED
      BY <2>2, <2>3, FS_Subset
  <1>2. Cardinality(A) = 0 <=> A = {}
    BY <1>1, FS_EmptySet
  <1>3. Number(s, P) = Cardinality(A)
    BY DEF Number
  <1> QED
    BY <1>2, <1>3

(* No step but sendSyncMessage begins a call.                              *)
Steady ==
    \A p \in Proc : NoMore(stack[p], stack'[p]) /\ Shape(stack'[p]) /\ AllMarked(toDispatch'[p])

LEMMA SteadyGrows == Grows => Steady
  BY DEF Grows, Steady, Grown

LEMMA DispatchOneMessageSteady ==
    ASSUME IInv, Laden, NEW p \in Proc, DispatchOneMessage(p)
    PROVE  /\ Steady /\ Same(stack, stack', p)
           /\ \A k \in DOMAIN stack'[p] :
                  /\ incoming[stack'[p][k].conn] # <<>>
                  /\ stack'[p][k].msg = Head(incoming[stack'[p][k].conn])
  <1> DEFINE c == Head(runq[p]).conn
             m == Head(incoming[c])
             f == NewFrame("handler", "run", c, m, invalid[c])
  <1>1. stack[p] = <<>> /\ runq[p] # <<>> /\ UNCHANGED toDispatch
    BY DEF DispatchOneMessage, NextTask
  <1>2. c \in Conn /\ ProcOf[c] = p
    <2>1. runq[p] \in Seq(HomeTask(p))
      BY DEF IInv, Homes
    <2>2. Head(runq[p]) \in HomeTask(p)
      BY <1>1, <2>1, HeadTailProperties
    <2> QED
      BY <2>2 DEF HomeTask, Home
  <1>3. /\ \A q \in Proc : Shape(stack[q]) /\ NoMore(stack[q], stack[q]) /\ AllMarked(toDispatch'[q])
    BY <1>1, GrownSame DEF Laden, Grown
  <1>4. \/ stack' = stack
        \/ stack' = [stack EXCEPT ![p] = <<>>]
        \/ incoming[c] # <<>> /\ stack' = [stack EXCEPT ![p] = Append(<<>>, f)]
    BY <1>2 DEF DispatchOneMessage, DispatchMessage
  <1>5. CASE stack' = stack \/ stack' = [stack EXCEPT ![p] = <<>>]
    <2>1. stack' = stack
      BY <1>1, <1>5 DEF IInv, WaitTypes
    <2> QED
      BY <1>1, <1>3, <2>1 DEF Steady, Same
  <1>6. CASE incoming[c] # <<>> /\ stack' = [stack EXCEPT ![p] = Append(<<>>, f)]
    <2>1. stack'[p] = Append(<<>>, f) /\ Same(stack, stack', p)
      BY <1>6, StackOf
    <2>2. m \in Msg /\ invalid[c] \in BOOLEAN
      <3>1. incoming[c] \in Seq(Msg)
        BY <1>2 DEF IInv, ConnTypes
      <3> QED
        BY <1>2, <1>6, <3>1, HeadTailProperties DEF IInv, ConnTypes
    <2>3. f \in Frame /\ f.kind = "handler" /\ f.rest = <<>> /\ f.held = <<>> /\ f.conn = c /\ f.msg = m
      BY <1>2, <2>2, EmptySeq DEF NewFrame, Frame
    <2> HIDE DEF f
    <2>4. AllMarked(f.rest) /\ AllMarked(f.held) /\ f.kind # "sync"
      <3>1. "handler" # "sync"
        OBVIOUS
      <3> QED
        BY <2>3, <3>1 DEF AllMarked
    <2>5. Shape(Append(<<>>, f)) /\ NoMore(<<>>, Append(<<>>, f))
      BY <2>3, <2>4, FirstShape
    <2>6. Steady
      BY <1>1, <1>3, <2>1, <2>5 DEF Steady, Same
    <2>7. \A k \in DOMAIN Append(<<>>, f) : Append(<<>>, f)[k] = f
      OBVIOUS
    <2> QED
      BY <1>6, <2>1, <2>3, <2>6, <2>7
  <1> QED
    BY <1>4, <1>5, <1>6

(* sendSyncMessage: a new call of its own, with a message that is marked   *)
(* unless the connection marks what it sends while it dispatches a marked  *)
(* message only, and does not.                                             *)
LEMMA SendSyncShape ==
    ASSUME IInv, Laden, NEW c \in Conn, SendSync(c)
    PROVE  /\ Laden'
           /\ \/ UNCHANGED <<stack, outgoing>>
              \/ \E f \in Frame :
                    /\ stack' = [stack EXCEPT ![ProcOf[c]] = Append(stack[ProcOf[c]], f)]
                    /\ f.kind = "sync" /\ f.conn = c /\ f.pc = "dispatch"
                    /\ f.msg.id = requestID[c] + 1 /\ f.msg \in Msg
                    /\ outgoing' = [outgoing EXCEPT ![c] = Append(@, f.msg)]
  <1> DEFINE p == ProcOf[c]
             m == [kind |-> "sync", id |-> requestID[c] + 1, marked |-> ShouldMark(c, TRUE),
                   n |-> sent[c] + 1]
             f == NewFrame("sync", "dispatch", c, m, FALSE)
  <1>1. p \in Proc /\ requestID[c] \in Nat /\ sent[c] \in Nat /\ stack[p] \in Seq(Frame)
    BY ConnAssumption DEF IInv, ConnTypes, WaitTypes
  <1>2. Running(p) /\ UNCHANGED toDispatch
    BY DEF SendSync, loopVars
  <1>3. \/ UNCHANGED <<stack, outgoing>>
        \/ /\ stack' = [stack EXCEPT ![p] = Append(stack[p], f)]
           /\ outgoing' = [outgoing EXCEPT ![c] = Append(@, m)]
    BY DEF SendSync, SendMessage, Push, outVars
  <1>4. CASE UNCHANGED <<stack, outgoing>>
    BY <1>2, <1>4 DEF Laden
  <1>5. CASE /\ stack' = [stack EXCEPT ![p] = Append(stack[p], f)]
             /\ outgoing' = [outgoing EXCEPT ![c] = Append(@, m)]
    <2>1. m \in Msg
      <3>1. ShouldMark(c, TRUE) \in BOOLEAN
        BY ShouldMarkType, Zenon
      <3>2. requestID[c] + 1 \in Nat /\ sent[c] + 1 \in Nat
        BY <1>1
      <3> QED
        BY <3>1, <3>2, MessageTypes
    <2>2. m.id = requestID[c] + 1 /\ (m.marked <=> ShouldMark(c, TRUE))
      BY Zenon
    <2> HIDE DEF m
    <2>3. /\ f \in Frame /\ f.kind = "sync" /\ f.conn = c /\ f.msg = m /\ f.pc = "dispatch"
          /\ f.rest = <<>> /\ f.held = <<>>
      BY <2>1, EmptySeq DEF NewFrame, Frame
    <2> HIDE DEF f
    <2>4. AllMarked(f.rest) /\ AllMarked(f.held)
      BY <2>3 DEF AllMarked
    <2>5. stack[p] # <<>> => Last(stack[p]).kind # "batch"
      <3>1. "handler" # "batch"
        OBVIOUS
      <3> QED
        BY <1>2, <3>1 DEF Running, Top
    <2>6. ASSUME ~m.marked PROVE OnlySend[c] /\ \A k \in DOMAIN stack[p] : stack[p][k] \notin MarkedFrame(c)
      <3>1. OnlySend[c] /\ ~(marked[c] > 0)
        BY <2>2, <2>6 DEF ShouldMark
      <3>2. marked[c] = Number(stack[p], MarkedFrame(c))
        BY DEF IInv, Counts
      <3>3. Number(stack[p], MarkedFrame(c)) \in Nat
        BY <1>1, NumberIsNat
      <3>4. Number(stack[p], MarkedFrame(c)) = 0
        BY <3>1, <3>2, <3>3
      <3> QED
        BY <1>1, <3>1, <3>4, NumberZero
    <2>7. Shape(Append(stack[p], f))
      <3>1. Shape(stack[p])
        BY <1>1 DEF Laden
      <3> QED
        BY <1>1, <2>3, <2>4, <2>5, <2>6, <3>1, ShapePush
    <2>8. stack'[p] = Append(stack[p], f) /\ Same(stack, stack', p)
      BY <1>1, <1>5, StackOf
    <2>9. Laden'
      BY <1>2, <2>7, <2>8 DEF Laden, Same
    <2> QED
      BY <1>5, <2>1, <2>2, <2>3, <2>9
  <1> QED
    BY <1>3, <1>4, <1>5

LEMMA OtherGrows ==
    ASSUME IInv, Laden, NEW c \in Conn,
           \/ Send(c) \/ Invalidate(c) \/ SecondaryBegin(c) \/ PostConnectionDidClose(c) \/ Crash(c)
           \/ SendDelayedReply(c) \/ QueueThread(c) \/ SecondaryThread(c) \/ SecondaryReturn(c, TRUE)
    PROVE  Grows
  <1>1. CASE ProcessMarkedMessage(c)
    BY <1>1, ProcessMarkedMessageGrows
  <1>2. CASE \/ Send(c) \/ Invalidate(c) \/ SecondaryBegin(c) \/ PostConnectionDidClose(c) \/ Crash(c)
             \/ SendDelayedReply(c) \/ SecondaryThread(c) \/ SecondaryReturn(c, TRUE)
    <2>1. UNCHANGED <<stack, toDispatch>>
      BY <1>2 DEF Send, Invalidate, SecondaryBegin, PostConnectionDidClose, Crash, SendDelayedReply,
                  SecondaryThread, SecondarySend, SecondaryReturn, procVars, loopVars, mainVars
    <2> QED
      BY <2>1, StillGrows
  <1>3. CASE \/ SendOutgoingMessages(c) \/ PlatformInvalidate(c) \/ ReadEndOfFile(c) \/ PostedDidClose(c)
             \/ ProcessIncomingSyncReply(c) \/ WakeUpClientRunLoop(c) \/ EnqueueIncomingMessage(c)
    <2>1. UNCHANGED <<stack, toDispatch>>
      BY <1>3 DEF SendOutgoingMessages, PlatformInvalidate, ReadEndOfFile, PostedDidClose,
                  ConnectionDidClose, ProcessIncomingSyncReply, WakeUpClientRunLoop,
                  EnqueueIncomingMessage, procVars, loopVars, mainVars
    <2> QED
      BY <2>1, StillGrows
  <1> QED
    BY <1>1, <1>2, <1>3 DEF QueueThread

LEMMA MainGrows ==
    ASSUME IInv, Laden, NEW p \in Proc,
           MainThread(p) \/ MarkInvalid(p) \/ IncrementMarkedCount(p) \/ SyncTimeout(p)
    PROVE  Grows \/ DispatchOneMessage(p)
  <1>1. CASE DispatchConnectionDidClose(p) \/ MarkInvalid(p)
    <2>1. UNCHANGED <<stack, toDispatch>>
      BY <1>1 DEF DispatchConnectionDidClose, MarkInvalid, procVars, loopVars, mainVars
    <2> QED
      BY <2>1, StillGrows
  <1> QED
    BY <1>1, EndDispatchGrows, DispatchMessagesTaskGrows, SwapMessagesGrows, DispatchNextGrows,
       PutBackGrows, SyncDispatchGrows, SyncCheckGrows, SyncWakeGrows, SyncTimeoutGrows, IncrementGrows
       DEF MainThread

LEMMA NextGrows ==
    ASSUME IInv, Laden, [Next]_vars
    PROVE  \/ Grows
           \/ \E p \in Proc : DispatchOneMessage(p)
           \/ \E c \in Conn : SendSync(c)
  <1>1. CASE UNCHANGED vars
    <2>1. UNCHANGED <<stack, toDispatch>>
      BY <1>1 DEF vars, procVars, mainVars, loopVars
    <2> QED
      BY <2>1, StillGrows
  <1>2. CASE Next
    BY <1>2, OtherGrows, MainGrows DEF Next, Client
  <1> QED
    BY <1>1, <1>2

LEMMA LadenStays == ASSUME IInv, Laden, [Next]_vars PROVE Laden'
  <1>1. Steady => Laden'
    BY DEF Steady, Laden
  <1> QED
    BY <1>1, NextGrows, SteadyGrows, DispatchOneMessageSteady, SendSyncShape

-----------------------------------------------------------------------------
(* Requests that are not marked, on their way to a handler.                *)
Plain(i) == [kind : {"sync"}, id : {i}, marked : {FALSE}, n : Nat]

Handles(d, m) ==
    \E k \in DOMAIN stack[ProcOf[d]] :
        LET f == stack[ProcOf[d]][k] IN f.kind = "handler" /\ f.conn = d /\ f.msg = m

SentPlain(c, i) == \E m \in Plain(i) : Contains(outgoing[c], m)

GotPlain(d, i) ==
    \E m \in Plain(i) : Contains(wire[d], m) \/ Contains(incoming[d], m) \/ Handles(d, m)

(* A call on c is in progress whose request i is marked.                   *)
MarkedCall(c, i) ==
    \E k \in DOMAIN stack[ProcOf[c]] :
        LET f == stack[ProcOf[c]][k]
        IN  f.kind = "sync" /\ f.conn = c /\ f.msg.id = i /\ f.msg.marked

Marks(c) == \A i \in Nat : MarkedCall(c, i) => ~SentPlain(c, i) /\ ~GotPlain(Peer[c], i)

(* A frame holds the request i of the other end of d; and on the stack s   *)
(* the call i of c began while the request j was held.                     *)
Carries(f, d, i) ==
    \/ f \in RequestHandler(d, i)
    \/ \E j \in DOMAIN Vectors(f) : Vectors(f)[j] \in RequestItem(d, i)

Earlier(s, c, i, j) ==
    \E k \in DOMAIN s : /\ s[k].kind = "sync" /\ s[k].conn = c /\ s[k].msg.id = i
                        /\ \E m \in 1..k - 1 : Carries(s[m], c, j)

(* Of two calls on one connection, not each began while the other end's    *)
(* request was held.                                                       *)
Untangled(c) ==
    \A i, j \in Nat : ~(/\ Earlier(stack[ProcOf[c]], c, i, j)
                        /\ Earlier(stack[ProcOf[Peer[c]]], Peer[c], j, i))

(* The calls of c in the next state were there before.                     *)
CallsStay(c) ==
    \A i, j \in Nat : /\ MarkedCall(c, i)' => MarkedCall(c, i)
                      /\ Earlier(stack'[ProcOf[c]], c, i, j) => Earlier(stack[ProcOf[c]], c, i, j)

LEMMA SteadyCalls == ASSUME Steady, NEW c \in Conn PROVE CallsStay(c)
  <1> DEFINE p == ProcOf[c]
  <1>1. p \in Proc
    BY ConnAssumption
  <1>2. NoMore(stack[p], stack'[p])
    BY <1>1 DEF Steady
  <1>3. ASSUME NEW i \in Nat, MarkedCall(c, i)' PROVE MarkedCall(c, i)
    BY <1>2, <1>3 DEF MarkedCall, NoMore
  <1>4. ASSUME NEW i \in Nat, NEW j \in Nat, Earlier(stack'[p], c, i, j) PROVE Earlier(stack[p], c, i, j)
    BY <1>2, <1>4 DEF Earlier, NoMore
  <1> QED
    BY <1>3, <1>4 DEF CallsStay

LEMMA CarriedLoad ==
    ASSUME NEW s \in Seq(Frame), NEW d, NEW i
    PROVE  StackLoad(s, d, i) = 0 <=> \A k \in DOMAIN s : ~Carries(s[k], d, i)
  <1> DEFINE P == RequestItem(d, i)
             U == UNION {Row(k, s[k], P) : k \in DOMAIN s}
  <1>1. NumberTaken(s, P) = Cardinality(U) /\ IsFiniteSet(U)
    BY TakenFinite, TakenRows
  <1>2. NumberTaken(s, P) \in Nat /\ (NumberTaken(s, P) = 0 <=> U = {})
    <2> HIDE DEF U
    <2> QED
      BY <1>1, FS_CardinalityType, FS_EmptySet
  <1>3. U = {} <=> \A k \in DOMAIN s : \A j \in DOMAIN Vectors(s[k]) : Vectors(s[k])[j] \notin P
    <2>1. ASSUME NEW k \in DOMAIN s
          PROVE  Row(k, s[k], P) = {} <=> \A j \in DOMAIN Vectors(s[k]) : Vectors(s[k])[j] \notin P
      <3>1. ASSUME NEW j \in DOMAIN Vectors(s[k]), Vectors(s[k])[j] \in P PROVE <<k, j>> \in Row(k, s[k], P)
        BY <3>1 DEF Row
      <3>2. ASSUME NEW x \in Row(k, s[k], P) PROVE \E j \in DOMAIN Vectors(s[k]) : Vectors(s[k])[j] \in P
        BY <3>2 DEF Row
      <3> QED
        BY <3>1, <3>2
    <2>2. U = {} <=> \A k \in DOMAIN s : Row(k, s[k], P) = {}
      OBVIOUS
    <2> QED
      BY <2>1, <2>2
  <1>4. /\ Number(s, RequestHandler(d, i)) \in Nat
        /\ Number(s, RequestHandler(d, i)) = 0 <=> \A k \in DOMAIN s : s[k] \notin RequestHandler(d, i)
    BY NumberIsNat, NumberZero
  <1>5. StackLoad(s, d, i) = NumberTaken(s, P) + Number(s, RequestHandler(d, i))
    BY DEF StackLoad
  <1> HIDE DEF U, P
  <1>6. StackLoad(s, d, i) = 0 <=> NumberTaken(s, P) = 0 /\ Number(s, RequestHandler(d, i)) = 0
    BY <1>2, <1>4, <1>5
  <1>7. /\ NumberTaken(s, P) = 0 <=>
               \A k \in DOMAIN s : \A j \in DOMAIN Vectors(s[k]) : Vectors(s[k])[j] \notin RequestItem(d, i)
    BY <1>2, <1>3 DEF P
  <1> QED
    BY <1>4, <1>6, <1>7 DEF Carries

(* A request that is nowhere.                                              *)
LEMMA Nowhere ==
    ASSUME IInv, NEW c \in Conn, NEW i \in Nat, Tokens(c, i) = 0
    PROVE  /\ ~SentPlain(c, i) /\ ~GotPlain(Peer[c], i)
           /\ \A j : ~Earlier(stack[ProcOf[Peer[c]]], Peer[c], j, i)
  <1> DEFINE d == Peer[c]
             p == ProcOf[d]
  <1>1. d \in Conn /\ p \in Proc
    BY PeerFacts, ConnAssumption
  <1>2. /\ outgoing[c] \in Seq(Msg) /\ wire[d] \in Seq(Msg) /\ incoming[d] \in Seq(Msg)
        /\ toDispatch[p] \in Seq(Item) /\ stack[p] \in Seq(Frame)
    BY <1>1 DEF IInv, ConnTypes, WaitTypes
  <1>3. TokenSums(c, i) /\ PartSums(d, i) /\ PartSums(c, i)
    BY <1>1, Sums
  <1> HIDE DEF d, p
  <1>4. /\ Tokens(c, i) = Number(outgoing[c], Request(i)) + Number(wire[d], Request(i))
                            + Unanswered(d, i)
                            + Number(outgoing[d], ReplyTo(i)) + Number(wire[c], ReplyTo(i))
        /\ Number(outgoing[c], Request(i)) \in Nat /\ Number(wire[d], Request(i)) \in Nat
        /\ Number(outgoing[d], ReplyTo(i)) \in Nat /\ Number(wire[c], ReplyTo(i)) \in Nat
        /\ Load(d, i, incoming[d], toDispatch[p], stack[p]) \in Nat
        /\ Unanswered(d, i) \in Nat
        /\ Unanswered(d, i) = Load(d, i, incoming[d], toDispatch[p], stack[p])
                                  + IF i \in delayed[d] THEN 1 ELSE 0
    BY <1>3 DEF TokenSums, PartSums, d, p
  <1>5. /\ Number(outgoing[c], Request(i)) = 0 /\ Number(wire[d], Request(i)) = 0
        /\ Unanswered(d, i) = 0
    <2> DEFINE a == Number(outgoing[c], Request(i))
               b == Number(wire[d], Request(i))
               u == Unanswered(d, i)
               x == Number(outgoing[d], ReplyTo(i))
               y == Number(wire[c], ReplyTo(i))
    <2>1. a \in Nat /\ b \in Nat /\ u \in Nat /\ x \in Nat /\ y \in Nat
      BY <1>4
    <2>2. a + b + u + x + y = 0
      BY <1>4
    <2> HIDE DEF a, b, u, x, y
    <2>3. a = 0 /\ b = 0 /\ u = 0
      BY <2>1, <2>2
    <2> QED
      BY <2>3 DEF a, b, u
  <1>6. Load(d, i, incoming[d], toDispatch[p], stack[p]) = 0
    <2>1. CASE i \in delayed[d]
      BY <1>4, <1>5, <2>1
    <2>2. CASE i \notin delayed[d]
      BY <1>4, <1>5, <2>2
    <2> QED
      BY <2>1, <2>2
  <1>7. /\ Number(incoming[d], Request(i)) \in Nat /\ Number(toDispatch[p], RequestItem(d, i)) \in Nat
        /\ StackLoad(stack[p], d, i) \in Nat
        /\ Load(d, i, incoming[d], toDispatch[p], stack[p]) =
             Number(incoming[d], Request(i)) + Number(toDispatch[p], RequestItem(d, i))
                + StackLoad(stack[p], d, i)
    BY <1>2, LoadParts DEF Load
  <1>8. Number(incoming[d], Request(i)) = 0 /\ StackLoad(stack[p], d, i) = 0
    BY <1>6, <1>7
  <1>9. Plain(i) \subseteq Request(i)
    BY DEF Plain, Request
  <1>10. /\ \A k \in DOMAIN outgoing[c] : outgoing[c][k] \notin Request(i)
         /\ \A k \in DOMAIN wire[d] : wire[d][k] \notin Request(i)
         /\ \A k \in DOMAIN incoming[d] : incoming[d][k] \notin Request(i)
    BY <1>2, <1>5, <1>8, NumberZero
  <1>11. \A k \in DOMAIN stack[p] : ~Carries(stack[p][k], d, i)
    BY <1>2, <1>8, CarriedLoad
  <1>12. \A m \in Plain(i) : ~Contains(outgoing[c], m) /\ ~Contains(wire[d], m) /\ ~Contains(incoming[d], m)
    <2>1. /\ DOMAIN outgoing[c] = 1..Len(outgoing[c]) /\ DOMAIN wire[d] = 1..Len(wire[d])
          /\ DOMAIN incoming[d] = 1..Len(incoming[d])
      BY <1>2, LenProperties
    <2> QED
      BY <1>9, <1>10, <2>1 DEF Contains
  <1>13. \A m \in Plain(i) : ~Handles(d, m)
    <2>1. \A k \in DOMAIN stack[p] : stack[p][k] \in Frame
      BY <1>2, LenProperties, ElementOfSeq
    <2> QED
      BY <1>9, <1>11, <2>1 DEF Handles, Carries, RequestHandler, p
  <1>14. \A j : ~Earlier(stack[p], d, j, i)
    <2>1. Len(stack[p]) \in Nat /\ DOMAIN stack[p] = 1..Len(stack[p])
      BY <1>2, LenProperties
    <2>2. \A k \in DOMAIN stack[p] : \A m \in 1..k - 1 : m \in DOMAIN stack[p]
      BY <2>1
    <2> QED
      BY <1>11, <2>2 DEF Earlier
  <1> QED
    BY <1>12, <1>13, <1>14 DEF SentPlain, GotPlain, d, p

(* The identifiers of the calls have been given out, and are not the one   *)
(* of the secondary thread.                                                *)
LEMMA CallsKnown ==
    ASSUME IInv, DInv, RInv, NEW c \in Conn, NEW k \in DOMAIN stack[ProcOf[c]],
           stack[ProcOf[c]][k].kind = "sync", stack[ProcOf[c]][k].conn = c
    PROVE  /\ stack[ProcOf[c]][k].msg.id \in Nat
           /\ stack[ProcOf[c]][k].msg.id <= requestID[c]
           /\ secondary[c].pc # "idle" => stack[ProcOf[c]][k].msg.id # secondary[c].id
  <1> DEFINE p == ProcOf[c]
             s == stack[p]
             j == Depth(s, c, k)
  <1>1. p \in Proc /\ c \in Home(p)
    BY ConnAssumption DEF Home
  <1>2. /\ GoodStack(p, s) /\ Matches(s, c, pending[c]) /\ pending[c] \in Seq(PendingReply)
        /\ Len(pending[c]) = Number(s, SyncFrame(c))
    BY <1>1, HomeFacts, DispatchFacts DEF IInv, WaitInv
  <1>3. s \in Seq(Frame) /\ s[k] \in SyncFrame(c)
    <2>1. s \in Seq(Frame)
      BY <1>2, StackType
    <2>2. s[k] \in Frame
      BY <2>1, LenProperties, ElementOfSeq
    <2> QED
      BY <2>1, <2>2 DEF SyncFrame
  <1>4. j \in 1..Len(pending[c])
    BY <1>2, <1>3, DepthFacts
  <1>5. j \in DOMAIN pending[c] /\ pending[c][j] \in PendingReply
    BY <1>2, <1>4, LenProperties, ElementOfSeq
  <1>6. s[k].msg.id = pending[c][j].id
    BY <1>2, <1>3 DEF Matches
  <1>7. Identified(c)
    BY DEF RInv
  <1> QED
    BY <1>5, <1>6, <1>7 DEF Identified, PendingReply

LEMMA PushedCall ==
    ASSUME IInv, NEW c \in Conn, NEW f \in Frame, f.kind = "sync", f.conn = c,
           stack' = [stack EXCEPT ![ProcOf[c]] = Append(stack[ProcOf[c]], f)]
    PROVE  /\ \A x \in Conn : x # c => CallsStay(x)
           /\ \A i \in Nat : MarkedCall(c, i)' => MarkedCall(c, i) \/ (i = f.msg.id /\ f.msg.marked)
           /\ \A i, j \in Nat : Earlier(stack'[ProcOf[c]], c, i, j) =>
                  Earlier(stack[ProcOf[c]], c, i, j) \/ i = f.msg.id
           /\ \A x \in Conn : \A m : Handles(x, m)' => Handles(x, m)
  <1> DEFINE p == ProcOf[c]
             s == stack[p]
             t == Append(s, f)
             n == Len(s)
  <1>1. p \in Proc /\ s \in Seq(Frame)
    BY ConnAssumption DEF IInv, WaitTypes
  <1>2. stack'[p] = t /\ Same(stack, stack', p)
    BY <1>1, StackOf
  <1>3. /\ n \in Nat /\ DOMAIN s = 1..n /\ DOMAIN t = 1..n + 1
        /\ \A k \in 1..n : t[k] = s[k]
        /\ t[n + 1] = f
    BY <1>1, PushFacts
  <1>4. \A x \in Conn : ProcOf[x] # p => stack'[ProcOf[x]] = stack[ProcOf[x]]
    BY <1>2, ConnAssumption DEF Same
  <1> HIDE DEF t, n
  <1>5. \A k \in DOMAIN t : (k \in DOMAIN s /\ t[k] = s[k]) \/ (k = n + 1 /\ t[k] = f)
    BY <1>3
  <1>6. \A k \in DOMAIN t : \A m \in 1..k - 1 : t[m] = s[m]
    BY <1>3
  <1>7. ASSUME NEW x \in Conn, NEW i, NEW j, Earlier(t, x, i, j)
        PROVE  Earlier(s, x, i, j) \/ (x = c /\ i = f.msg.id)
    <2>1. PICK k \in DOMAIN t : /\ t[k].kind = "sync" /\ t[k].conn = x /\ t[k].msg.id = i
                                /\ \E m \in 1..k - 1 : Carries(t[m], x, j)
      BY <1>7 DEF Earlier
    <2>2. \E m \in 1..k - 1 : Carries(s[m], x, j)
      BY <1>6, <2>1
    <2> QED
      BY <1>5, <2>1, <2>2 DEF Earlier
  <1>8. ASSUME NEW x \in Conn, ProcOf[x] = p, NEW i, MarkedCall(x, i)'
        PROVE  MarkedCall(x, i) \/ (x = c /\ i = f.msg.id /\ f.msg.marked)
    BY <1>2, <1>5, <1>8 DEF MarkedCall
  <1>9. ASSUME NEW x \in Conn, NEW m, Handles(x, m)' PROVE Handles(x, m)
    <2>1. "sync" # "handler"
      OBVIOUS
    <2>2. CASE ProcOf[x] = p
      BY <1>2, <1>5, <1>9, <2>1, <2>2 DEF Handles
    <2>3. CASE ProcOf[x] # p
      BY <1>4, <1>9, <2>3 DEF Handles
    <2> QED
      BY <2>2, <2>3
  <1>10. ASSUME NEW x \in Conn, x # c PROVE CallsStay(x)
    <2>1. CASE ProcOf[x] = p
      BY <1>2, <1>7, <1>8, <1>10, <2>1 DEF CallsStay
    <2>2. CASE ProcOf[x] # p
      BY <1>4, <2>2 DEF CallsStay, MarkedCall
    <2> QED
      BY <2>1, <2>2
  <1>11. \A i \in Nat : MarkedCall(c, i)' => MarkedCall(c, i) \/ (i = f.msg.id /\ f.msg.marked)
    BY <1>8
  <1>12. \A i, j \in Nat : Earlier(stack'[p], c, i, j) => Earlier(s, c, i, j) \/ i = f.msg.id
    BY <1>2, <1>7
  <1> QED
    BY <1>9, <1>10, <1>11, <1>12

Sound == \A c \in Conn : Marks(c) /\ Untangled(c)

LEMMA PlainFacts ==
    ASSUME NEW i, NEW m \in Plain(i) PROVE m.kind = "sync" /\ m.id = i /\ ~m.marked /\ (i \in Nat => m \in Msg)
  BY DEF Plain, Msg

(* The plain requests of x in the next state were there before.            *)
PlainStays(x) ==
    \A i \in Nat : /\ SentPlain(x, i)' => SentPlain(x, i)
                   /\ GotPlain(Peer[x], i)' => GotPlain(Peer[x], i) \/ SentPlain(x, i)

LEMMA MoveSound ==
    ASSUME Sound, \A x \in Conn : CallsStay(x), \A x \in Conn : PlainStays(x) PROVE Sound'
  <1>1. ASSUME NEW x \in Conn PROVE Marks(x)'
    <2>1. Marks(x) /\ CallsStay(x) /\ PlainStays(x)
      BY DEF Sound
    <2>2. ASSUME NEW i \in Nat, MarkedCall(x, i)' PROVE ~SentPlain(x, i)' /\ ~GotPlain(Peer[x], i)'
      <3>1. ~SentPlain(x, i) /\ ~GotPlain(Peer[x], i)
        BY <2>1, <2>2 DEF Marks, CallsStay
      <3> QED
        BY <2>1, <3>1 DEF PlainStays
    <2> QED
      BY <2>2 DEF Marks
  <1>2. ASSUME NEW x \in Conn PROVE Untangled(x)'
    <2>1. Untangled(x) /\ CallsStay(x) /\ CallsStay(Peer[x])
      BY PeerFacts DEF Sound
    <2> QED
      BY <2>1 DEF Untangled, CallsStay
  <1> QED
    BY <1>1, <1>2 DEF Sound

(* A new request: its number is not known yet.                             *)
LEMMA SendSyncSound ==
    ASSUME IInv, DInv, RInv, Laden, Sound, NEW c \in Conn, SendSync(c) PROVE Sound'
  <1> DEFINE d == Peer[c]
             id == requestID[c] + 1
  <1>1. d \in Conn /\ d # c /\ Peer[d] = c /\ requestID[c] \in Nat /\ id \in Nat /\ outgoing \in [Conn -> Seq(Msg)]
    BY PeerFacts DEF IInv, ConnTypes
  <1>2. UNCHANGED <<wire, incoming>>
    BY DEF SendSync
  <1>3. CASE UNCHANGED <<stack, outgoing>>
    <2>1. UNCHANGED toDispatch
      BY DEF SendSync, loopVars
    <2>2. Steady
      BY <1>3, <2>1, StillGrows, SteadyGrows
    <2>3. \A x \in Conn : CallsStay(x)
      BY <2>2, SteadyCalls
    <2>4. \A x \in Conn : PlainStays(x)
      BY <1>2, <1>3 DEF PlainStays, SentPlain, GotPlain, Handles
    <2> QED
      BY <2>3, <2>4, MoveSound
  <1>4. ASSUME NEW f \in Frame,
               stack' = [stack EXCEPT ![ProcOf[c]] = Append(stack[ProcOf[c]], f)],
               f.kind = "sync", f.conn = c, f.msg.id = id, f.msg \in Msg,
               outgoing' = [outgoing EXCEPT ![c] = Append(@, f.msg)]
        PROVE  Sound'
    <2>1. /\ \A x \in Conn : x # c => CallsStay(x)
          /\ \A i \in Nat : MarkedCall(c, i)' => MarkedCall(c, i) \/ (i = id /\ f.msg.marked)
          /\ \A i, j \in Nat : Earlier(stack'[ProcOf[c]], c, i, j) =>
                 Earlier(stack[ProcOf[c]], c, i, j) \/ i = id
          /\ \A x \in Conn : \A m : Handles(x, m)' => Handles(x, m)
      BY <1>4, PushedCall
    <2>2. Tokens(c, id) = 0
      <3>1. Unsent(c, id)
        BY <1>1 DEF Unsent
      <3> QED
        BY <1>1, <3>1 DEF RInv, Account
    <2>3. /\ ~SentPlain(c, id) /\ ~GotPlain(d, id)
          /\ \A j : ~Earlier(stack[ProcOf[d]], d, j, id)
      BY <1>1, <2>2, Nowhere
    <2>4. ~MarkedCall(c, id)
      <3> SUFFICES ASSUME NEW k \in DOMAIN stack[ProcOf[c]], stack[ProcOf[c]][k].kind = "sync",
                          stack[ProcOf[c]][k].conn = c, stack[ProcOf[c]][k].msg.id = id
                   PROVE  FALSE
        BY DEF MarkedCall
      <3>1. stack[ProcOf[c]][k].msg.id <= requestID[c]
        BY CallsKnown
      <3> QED
        BY <1>1, <3>1
    <2>5. \A x \in Conn, i \in Nat : SentPlain(x, i)' => SentPlain(x, i) \/ (x = c /\ i = id /\ ~f.msg.marked)
      <3> SUFFICES ASSUME NEW x \in Conn, NEW i \in Nat, SentPlain(x, i)'
                   PROVE  SentPlain(x, i) \/ (x = c /\ i = id /\ ~f.msg.marked)
        OBVIOUS
      <3>1. PICK m \in Plain(i) : Contains(outgoing'[x], m)
        BY DEF SentPlain
      <3>2. CASE x # c
        <4>1. outgoing'[x] = outgoing[x]
          BY <1>1, <1>4, <3>2
        <4> QED
          BY <3>1, <4>1 DEF SentPlain
      <3>3. CASE x = c
        <4>1. outgoing'[x] = Append(outgoing[c], f.msg) /\ outgoing[c] \in Seq(Msg)
          BY <1>1, <1>4, <3>3
        <4>2. Contains(Append(outgoing[c], f.msg), m)
          BY <3>1, <4>1
        <4>3. Contains(outgoing[c], m) \/ m = f.msg
          BY <1>4, <4>1, <4>2, ContainsFacts
        <4> QED
          BY <1>4, <3>1, <3>3, <4>3, PlainFacts DEF SentPlain
      <3> QED
        BY <3>2, <3>3
    <2>6. \A x \in Conn, i \in Nat : GotPlain(x, i)' => GotPlain(x, i)
      BY <1>2, <2>1 DEF GotPlain
    <2>7. ASSUME NEW x \in Conn PROVE Marks(x)'
      <3>1. Marks(x) /\ Peer[x] \in Conn
        BY PeerFacts DEF Sound
      <3>2. CASE x = c
        BY <2>1, <2>3, <2>4, <2>5, <2>6, <3>1, <3>2 DEF Marks
      <3>3. CASE x # c
        BY <2>1, <2>5, <2>6, <3>1, <3>3 DEF Marks, CallsStay
      <3> QED
        BY <3>2, <3>3
    <2>8. ASSUME NEW x \in Conn, NEW i \in Nat, NEW j \in Nat,
                 Earlier(stack'[ProcOf[x]], x, i, j), Earlier(stack'[ProcOf[Peer[x]]], Peer[x], j, i)
          PROVE  FALSE
      <3>1. Untangled(x) /\ Peer[x] \in Conn
        BY PeerFacts DEF Sound
      <3>2. CASE x = c
        BY <1>1, <2>1, <2>3, <2>8, <3>1, <3>2 DEF Untangled, CallsStay
      <3>3. CASE x = d
        BY <1>1, <2>1, <2>3, <2>8, <3>1, <3>3 DEF Untangled, CallsStay
      <3>4. CASE x # c /\ x # d
        <4>1. Peer[x] # c
          BY <3>4, ConnAssumption
        <4> QED
          BY <2>1, <2>8, <3>1, <3>4, <4>1 DEF Untangled, CallsStay
      <3> QED
        BY <3>2, <3>3, <3>4
    <2> QED
      BY <2>7, <2>8 DEF Sound, Untangled
  <1> QED
    BY <1>3, <1>4, SendSyncShape

LEMMA SecondarySendSound ==
    ASSUME IInv, DInv, RInv, Laden, Sound, NEW c \in Conn, SecondarySend(c) PROVE Sound'
  <1> DEFINE id == secondary[c].id
             m == [kind |-> "sync", id |-> id, marked |-> ShouldMark(c, FALSE), n |-> sent[c] + 1]
  <1>1. UNCHANGED <<stack, toDispatch, wire, incoming>>
    BY DEF SecondarySend, procVars, loopVars, mainVars, socketVars
  <1>2. \A x \in Conn : CallsStay(x)
    BY <1>1, StillGrows, SteadyGrows, SteadyCalls
  <1>3. ~MarkedCall(c, id)
    <2> SUFFICES ASSUME NEW k \in DOMAIN stack[ProcOf[c]], stack[ProcOf[c]][k].kind = "sync",
                        stack[ProcOf[c]][k].conn = c, stack[ProcOf[c]][k].msg.id = id
                 PROVE  FALSE
      BY DEF MarkedCall
    <2>1. secondary[c].pc # "idle"
      <3>1. "send" # "idle"
        OBVIOUS
      <3> QED
        BY <3>1 DEF SecondarySend
    <2> QED
      BY <2>1, CallsKnown
  <1>4. UNCHANGED outgoing \/ outgoing' = [outgoing EXCEPT ![c] = Append(@, m)]
    BY DEF SecondarySend, SendMessage, outVars
  <1>5. outgoing \in [Conn -> Seq(Msg)] /\ m \in Msg
    <2>1. outgoing \in [Conn -> Seq(Msg)] /\ secondary[c] \in SecondaryCall /\ sent[c] \in Nat
      BY DEF IInv, ConnTypes
    <2>2. ShouldMark(c, FALSE) \in BOOLEAN
      BY ShouldMarkType, Zenon
    <2>3. id \in Nat /\ sent[c] + 1 \in Nat
      BY <2>1 DEF SecondaryCall
    <2> QED
      BY <2>1, <2>2, <2>3, MessageTypes
  <1>6. m.id = id
    BY Zenon
  <1> HIDE DEF m, id
  <1>7. \A x \in Conn, i \in Nat : SentPlain(x, i)' => SentPlain(x, i) \/ (x = c /\ i = id)
    <2> SUFFICES ASSUME NEW x \in Conn, NEW i \in Nat, SentPlain(x, i)'
                 PROVE  SentPlain(x, i) \/ (x = c /\ i = id)
      OBVIOUS
    <2>1. PICK e \in Plain(i) : Contains(outgoing'[x], e)
      BY DEF SentPlain
    <2>2. CASE outgoing'[x] = outgoing[x]
      BY <2>1, <2>2 DEF SentPlain
    <2>3. CASE outgoing'[x] # outgoing[x]
      <3>1. x = c /\ outgoing'[x] = Append(outgoing[c], m) /\ outgoing[c] \in Seq(Msg)
        BY <1>4, <1>5, <2>3
      <3>2. Contains(Append(outgoing[c], m), e)
        BY <2>1, <3>1
      <3>3. Contains(outgoing[c], e) \/ e = m
        BY <1>5, <3>1, <3>2, ContainsFacts
      <3> QED
        BY <1>6, <2>1, <3>1, <3>3, PlainFacts DEF SentPlain
    <2> QED
      BY <2>2, <2>3
  <1>8. \A x \in Conn, i \in Nat : GotPlain(x, i)' => GotPlain(x, i)
    BY <1>1 DEF GotPlain, Handles
  <1>9. ASSUME NEW x \in Conn PROVE Marks(x)'
    <2>1. Marks(x) /\ Peer[x] \in Conn
      BY PeerFacts DEF Sound
    <2> QED
      BY <1>2, <1>3, <1>7, <1>8, <2>1 DEF Marks, CallsStay
  <1>10. ASSUME NEW x \in Conn PROVE Untangled(x)'
    <2>1. Untangled(x) /\ CallsStay(x) /\ CallsStay(Peer[x])
      BY <1>2, PeerFacts DEF Sound
    <2> QED
      BY <2>1 DEF Untangled, CallsStay
  <1> QED
    BY <1>9, <1>10 DEF Sound

-----------------------------------------------------------------------------
(* The plain requests move from one end to the other.                      *)
Outs == \A x \in Conn, m \in Msg : m.kind = "sync" /\ Contains(outgoing'[x], m) => Contains(outgoing[x], m)

Wires == \A x \in Conn, m \in Msg :
             Contains(wire'[x], m) => Contains(wire[x], m) \/ Contains(outgoing[Peer[x]], m)

Ins == \A x \in Conn, m \in Msg :
           Contains(incoming'[x], m) => Contains(incoming[x], m) \/ Contains(wire[x], m)

Hands == \A x \in Conn, m \in Msg : ~m.marked /\ Handles(x, m)' => Handles(x, m) \/ Contains(incoming[x], m)

LEMMA MovesPlain == ASSUME Outs, Wires, Ins, Hands, NEW x \in Conn PROVE PlainStays(x)
  <1>1. Peer[x] \in Conn /\ Peer[Peer[x]] = x
    BY PeerFacts
  <1> SUFFICES ASSUME NEW i \in Nat
               PROVE  /\ SentPlain(x, i)' => SentPlain(x, i)
                      /\ GotPlain(Peer[x], i)' => GotPlain(Peer[x], i) \/ SentPlain(x, i)
    BY DEF PlainStays
  <1>2. \A m \in Plain(i) : m \in Msg /\ m.kind = "sync" /\ ~m.marked
    BY PlainFacts
  <1>3. SentPlain(x, i)' => SentPlain(x, i)
    BY <1>2 DEF SentPlain, Outs
  <1>4. ASSUME NEW m \in Plain(i), Contains(wire'[Peer[x]], m)
        PROVE  Contains(wire[Peer[x]], m) \/ Contains(outgoing[x], m)
    BY <1>1, <1>2, <1>4 DEF Wires
  <1>5. ASSUME NEW m \in Plain(i), Contains(incoming'[Peer[x]], m)
        PROVE  Contains(incoming[Peer[x]], m) \/ Contains(wire[Peer[x]], m)
    BY <1>1, <1>2, <1>5 DEF Ins
  <1>6. ASSUME NEW m \in Plain(i), Handles(Peer[x], m)'
        PROVE  Handles(Peer[x], m) \/ Contains(incoming[Peer[x]], m)
    BY <1>1, <1>2, <1>6 DEF Hands
  <1>7. GotPlain(Peer[x], i)' => GotPlain(Peer[x], i) \/ SentPlain(x, i)
    BY <1>4, <1>5, <1>6 DEF GotPlain, SentPlain
  <1> QED
    BY <1>3, <1>7

LEMMA GrowsHands == Grows => Hands
  <1> SUFFICES ASSUME Grows, NEW x \in Conn, NEW m \in Msg, ~m.marked, Handles(x, m)' PROVE Handles(x, m)
    BY DEF Hands
  <1>1. ProcOf[x] \in Proc
    BY ConnAssumption
  <1>2. Handled(stack[ProcOf[x]], stack'[ProcOf[x]])
    BY <1>1 DEF Grows, Grown
  <1> QED
    BY <1>2 DEF Handled, Handles

LEMMA SameIns == ASSUME UNCHANGED incoming PROVE Ins
  BY DEF Ins

LEMMA SameWires == ASSUME UNCHANGED wire PROVE Wires
  BY DEF Wires

LEMMA SameOuts == ASSUME UNCHANGED outgoing PROVE Outs
  BY DEF Outs

LEMMA SendMessageOuts ==
    ASSUME IInv, NEW c \in Conn, NEW m \in Msg, m.kind # "sync", SendMessage(c, m) PROVE Outs
  <1>1. UNCHANGED outgoing \/ outgoing' = [outgoing EXCEPT ![c] = Append(@, m)]
    BY DEF SendMessage, outVars
  <1>2. outgoing \in [Conn -> Seq(Msg)]
    BY DEF IInv, ConnTypes
  <1> SUFFICES ASSUME NEW x \in Conn, NEW e \in Msg, e.kind = "sync", Contains(outgoing'[x], e)
               PROVE  Contains(outgoing[x], e)
    BY DEF Outs
  <1>3. CASE outgoing'[x] = outgoing[x]
    BY <1>3
  <1>4. CASE outgoing'[x] # outgoing[x]
    <2>1. x = c /\ outgoing'[x] = Append(outgoing[x], m) /\ outgoing[x] \in Seq(Msg)
      BY <1>1, <1>2, <1>4
    <2>2. Contains(Append(outgoing[x], m), e)
      BY <2>1
    <2>3. Contains(outgoing[x], e) \/ e = m
      BY <2>1, <2>2, ContainsFacts
    <2> QED
      BY <2>3
  <1> QED
    BY <1>3, <1>4

(* Nothing is lost on a socket, and no client keeps a reply encoder.       *)
Frugal == \A c \in Conn : left[c]["fail"] = 0 /\ left[c]["delay"] = 0 /\ delayed[c] = {}

LEMMA ConsumeWires == ASSUME IInv, NEW c \in Conn, wire[c] # <<>>, Consume(c) PROVE Wires
  <1>1. wire \in [Conn -> Seq(Msg)] /\ wire' = [wire EXCEPT ![c] = Tail(@)]
    BY DEF IInv, ConnTypes, Consume
  <1> SUFFICES ASSUME NEW x \in Conn, NEW e \in Msg, Contains(wire'[x], e) PROVE Contains(wire[x], e)
    BY DEF Wires
  <1>2. CASE x # c
    BY <1>1, <1>2
  <1>3. CASE x = c
    <2>1. wire'[x] = Tail(wire[x]) /\ wire[x] \in Seq(Msg)
      BY <1>1, <1>3
    <2>2. Contains(Tail(wire[x]), e)
      BY <2>1
    <2> QED
      BY <1>3, <2>1, <2>2, ContainsFacts
  <1> QED
    BY <1>2, <1>3

LEMMA EnqueueIns ==
    ASSUME IInv, NEW c \in Conn, EnqueueIncomingMessage(c) PROVE Outs /\ Wires /\ Ins
  <1>1. /\ wire[c] # <<>> /\ Consume(c) /\ UNCHANGED outgoing
        /\ incoming' = [incoming EXCEPT ![c] = Append(@, Head(wire[c]))]
    BY DEF EnqueueIncomingMessage, Readable, outVars
  <1>2. incoming \in [Conn -> Seq(Msg)] /\ wire[c] \in Seq(Msg)
    BY DEF IInv, ConnTypes
  <1>3. Ins
    <2> SUFFICES ASSUME NEW x \in Conn, NEW e \in Msg, Contains(incoming'[x], e)
                 PROVE  Contains(incoming[x], e) \/ Contains(wire[x], e)
      BY DEF Ins
    <2>1. CASE x # c
      BY <1>1, <1>2, <2>1
    <2>2. CASE x = c
      <3>1. incoming'[x] = Append(incoming[x], Head(wire[c])) /\ incoming[x] \in Seq(Msg)
        BY <1>1, <1>2, <2>2
      <3>2. Head(wire[c]) \in Msg
        BY <1>1, <1>2, HeadTailProperties
      <3>3. Contains(wire[c], Head(wire[c]))
        BY <1>1, <1>2, <3>2, ContainsFacts
      <3>4. Contains(Append(incoming[x], Head(wire[c])), e)
        BY <3>1
      <3>5. Contains(incoming[x], e) \/ e = Head(wire[c])
        BY <3>1, <3>2, <3>4, ContainsFacts
      <3> QED
        BY <2>2, <3>3, <3>5
    <2> QED
      BY <2>1, <2>2
  <1> QED
    BY <1>1, <1>3, ConsumeWires, SameOuts

LEMMA EmptiedWires ==
    ASSUME IInv, NEW c \in Conn, wire' = [wire EXCEPT ![c] = <<>>] PROVE Wires
  <1>1. wire \in [Conn -> Seq(Msg)]
    BY DEF IInv, ConnTypes
  <1> SUFFICES ASSUME NEW x \in Conn, NEW e \in Msg, Contains(wire'[x], e) PROVE Contains(wire[x], e)
    BY DEF Wires
  <1>2. CASE x # c
    BY <1>1, <1>2
  <1>3. CASE x = c
    <2>1. wire'[x] = <<>> /\ wire[x] \in Seq(Msg)
      BY <1>1, <1>3
    <2>2. ~Contains(<<>>, e)
      BY <2>1, ContainsFacts
    <2> QED
      BY <2>1, <2>2
  <1> QED
    BY <1>2, <1>3

LEMMA SendOutgoingMoves ==
    ASSUME IInv, Frugal, NEW c \in Conn, SendOutgoingMessages(c) PROVE Outs /\ Wires /\ Ins
  <1> DEFINE d == Peer[c]
  <1>1. /\ wire \in [Conn -> Seq(Msg)] /\ outgoing \in [Conn -> Seq(Msg)] /\ d \in Conn /\ Peer[d] = c
        /\ left[c]["fail"] = 0
    BY PeerFacts DEF IInv, ConnTypes, Frugal
  <1>2. UNCHANGED incoming
    BY DEF SendOutgoingMessages
  <1>3. ~Spend(c, "fail")
    BY <1>1 DEF Spend
  <1>4. \/ UNCHANGED <<outgoing, wire>>
        \/ /\ wire' = [wire EXCEPT ![d] = @ \o outgoing[c]]
           /\ outgoing' = [outgoing EXCEPT ![c] = <<>>]
        \/ /\ outgoing[c] # <<>> /\ outgoing' = [outgoing EXCEPT ![c] = Tail(@)]
           /\ UNCHANGED wire
    BY <1>3 DEF SendOutgoingMessages, Write
  <1> HIDE DEF d
  <1>5. Outs
    <2> SUFFICES ASSUME NEW x \in Conn, NEW e \in Msg, Contains(outgoing'[x], e) PROVE Contains(outgoing[x], e)
      BY DEF Outs
    <2>1. outgoing[x] \in Seq(Msg)
      BY <1>1
    <2>2. \/ outgoing'[x] = outgoing[x]
          \/ outgoing'[x] = <<>>
          \/ outgoing[x] # <<>> /\ outgoing'[x] = Tail(outgoing[x])
      BY <1>1, <1>4
    <2>3. ~Contains(<<>>, e) /\ (outgoing[x] # <<>> /\ Contains(Tail(outgoing[x]), e) => Contains(outgoing[x], e))
      BY <2>1, ContainsFacts
    <2> QED
      BY <2>2, <2>3
  <1>6. Wires
    <2> SUFFICES ASSUME NEW x \in Conn, NEW e \in Msg, Contains(wire'[x], e)
                 PROVE  Contains(wire[x], e) \/ Contains(outgoing[Peer[x]], e)
      BY DEF Wires
    <2>1. CASE wire'[x] = wire[x]
      BY <2>1
    <2>2. CASE wire'[x] # wire[x]
      <3>1. x = d /\ wire'[x] = wire[x] \o outgoing[c] /\ wire[x] \in Seq(Msg) /\ outgoing[c] \in Seq(Msg)
        BY <1>1, <1>4, <2>2
      <3>2. Contains(wire[x] \o outgoing[c], e)
        BY <3>1
      <3>3. Contains(wire[x], e) \/ Contains(outgoing[c], e)
        BY <3>1, <3>2, ContainsConcat
      <3> QED
        BY <1>1, <3>1, <3>3
    <2> QED
      BY <2>1, <2>2
  <1> QED
    BY <1>2, <1>5, <1>6, SameIns

LEMMA EndDispatchMoves == ASSUME IInv, NEW p \in Proc, EndDispatch(p) PROVE Outs /\ Wires /\ Ins
  <1> DEFINE f == Top(p)
             c == f.conn
  <1>1. At(p, "handler", "run") /\ UNCHANGED <<wire, incoming>>
    BY DEF EndDispatch, socketVars
  <1>2. "handler" # "batch"
    OBVIOUS
  <1>3. f \in Frame /\ c \in Conn
    BY <1>1, <1>2, TopWeight
  <1>4. f.msg \in Msg /\ f.msg.id \in Nat
    BY <1>3 DEF Frame, Msg
  <1>5. Reply(f.msg.id) \in Msg /\ Reply(f.msg.id).kind = "reply"
    BY <1>4 DEF Reply, Msg
  <1>6. outgoing \in [Conn -> Seq(Msg)]
    BY DEF IInv, ConnTypes
  <1>7. PICK kept \in BOOLEAN :
            outgoing' = [outgoing EXCEPT ![c] =
                             IF SendsReply(c, f, kept) THEN Append(@, Reply(f.msg.id)) ELSE @]
    BY DEF EndDispatch
  <1> DEFINE r == Reply(f.msg.id)
  <1> HIDE DEF f, c, r
  <1>8. Outs
    <2> SUFFICES ASSUME NEW x \in Conn, NEW e \in Msg, e.kind = "sync", Contains(outgoing'[x], e)
                 PROVE  Contains(outgoing[x], e)
      BY DEF Outs
    <2>1. CASE outgoing'[x] = outgoing[x]
      BY <2>1
    <2>2. CASE outgoing'[x] # outgoing[x]
      <3>1. outgoing'[x] = Append(outgoing[x], r) /\ outgoing[x] \in Seq(Msg)
        BY <1>3, <1>6, <1>7, <2>2 DEF r
      <3>2. Contains(Append(outgoing[x], r), e) /\ r \in Msg
        BY <1>5, <3>1 DEF r
      <3>3. Contains(outgoing[x], e) \/ e = r
        BY <3>1, <3>2, ContainsFacts
      <3>4. "reply" # "sync"
        OBVIOUS
      <3> QED
        BY <1>5, <3>3, <3>4 DEF r
    <2> QED
      BY <2>1, <2>2
  <1> QED
    BY <1>1, <1>8, SameIns, SameWires

LEMMA DispatchOneMessageMoves ==
    ASSUME IInv, Laden, NEW p \in Proc, DispatchOneMessage(p) PROVE Outs /\ Wires /\ Ins /\ Hands
  <1>1. UNCHANGED <<outgoing, wire>>
    BY DEF DispatchOneMessage, outVars, socketVars
  <1>2. incoming \in [Conn -> Seq(Msg)]
    BY DEF IInv, ConnTypes
  <1>3. Ins
    <2> SUFFICES ASSUME NEW x \in Conn, NEW e \in Msg, Contains(incoming'[x], e) PROVE Contains(incoming[x], e)
      BY DEF Ins
    <2>1. incoming'[x] = incoming[x] \/ (incoming[x] # <<>> /\ incoming'[x] = Tail(incoming[x]))
      BY <1>2 DEF DispatchOneMessage
    <2>2. incoming[x] \in Seq(Msg)
      BY <1>2
    <2> QED
      BY <2>1, <2>2, ContainsFacts
  <1>4. /\ Same(stack, stack', p)
        /\ \A k \in DOMAIN stack'[p] :
                  /\ incoming[stack'[p][k].conn] # <<>>
                  /\ stack'[p][k].msg = Head(incoming[stack'[p][k].conn])
    BY DispatchOneMessageSteady
  <1>5. Hands
    <2> SUFFICES ASSUME NEW x \in Conn, NEW m \in Msg, Handles(x, m)'
                 PROVE  Handles(x, m) \/ Contains(incoming[x], m)
      BY DEF Hands
    <2>1. CASE ProcOf[x] = p
      <3>1. incoming[x] # <<>> /\ m = Head(incoming[x])
        BY <1>4, <2>1 DEF Handles
      <3>2. incoming[x] \in Seq(Msg)
        BY <1>2
      <3> QED
        BY <3>1, <3>2, ContainsFacts
    <2>2. CASE ProcOf[x] # p
      BY <1>4, <2>2, ConnAssumption DEF Handles, Same
    <2> QED
      BY <2>1, <2>2
  <1> QED
    BY <1>1, <1>3, <1>5, SameOuts, SameWires

LEMMA ClientMoves ==
    ASSUME IInv, NEW c \in Conn,
           \/ Send(c) \/ Invalidate(c) \/ SecondaryBegin(c) \/ PostConnectionDidClose(c) \/ Crash(c)
           \/ SendDelayedReply(c) \/ SecondaryReturn(c, FALSE) \/ SecondaryReturn(c, TRUE)
    PROVE  Outs /\ Wires /\ Ins
  <1>1. UNCHANGED <<wire, incoming>>
    BY DEF Send, Invalidate, SecondaryBegin, PostConnectionDidClose, Crash, SendDelayedReply,
           SecondaryReturn, socketVars
  <1>2. CASE Send(c)
    <2>1. PICK op \in {"async", "urgent"} :
              SendMessage(c, [kind |-> "async", id |-> 0,
                              marked |-> ShouldMark(c, op = "urgent"), n |-> sent[c] + 1])
      BY <1>2 DEF Send
    <2> DEFINE m == [kind |-> "async", id |-> 0, marked |-> ShouldMark(c, op = "urgent"), n |-> sent[c] + 1]
    <2>2. m \in Msg
      <3>1. ShouldMark(c, op = "urgent") \in BOOLEAN
        BY ShouldMarkType, Zenon
      <3>2. sent[c] + 1 \in Nat
        BY DEF IInv, ConnTypes
      <3> QED
        BY <3>1, <3>2, MessageTypes
    <2>3. m.kind = "async" /\ SendMessage(c, m)
      BY <2>1, Zenon
    <2>4. "async" # "sync"
      OBVIOUS
    <2> HIDE DEF m
    <2> QED
      BY <1>1, <2>2, <2>3, <2>4, SendMessageOuts, SameIns, SameWires
  <1>3. CASE SendDelayedReply(c)
    <2>1. PICK i \in delayed[c] : SendMessage(c, Reply(i))
      BY <1>3 DEF SendDelayedReply
    <2>2. i \in Nat
      BY DEF IInv, ConnTypes
    <2>3. Reply(i) \in Msg /\ Reply(i).kind # "sync"
      BY <2>2 DEF Reply, Msg
    <2> QED
      BY <1>1, <2>1, <2>3, SendMessageOuts, SameIns, SameWires
  <1>4. CASE \/ Invalidate(c) \/ SecondaryBegin(c) \/ PostConnectionDidClose(c) \/ Crash(c)
             \/ SecondaryReturn(c, FALSE) \/ SecondaryReturn(c, TRUE)
    <2>1. UNCHANGED outgoing
      BY <1>4 DEF Invalidate, SecondaryBegin, PostConnectionDidClose, Crash, SecondaryReturn, outVars
    <2> QED
      BY <1>1, <2>1, SameIns, SameWires, SameOuts
  <1> QED
    BY <1>2, <1>3, <1>4

LEMMA QueueMoves ==
    ASSUME IInv, Frugal, NEW c \in Conn, QueueThread(c) PROVE Outs /\ Wires /\ Ins
  <1>1. CASE SendOutgoingMessages(c)
    BY <1>1, SendOutgoingMoves
  <1>2. CASE PlatformInvalidate(c) \/ ReadEndOfFile(c) \/ PostedDidClose(c)
    <2>1. wire' = [wire EXCEPT ![c] = <<>>] /\ UNCHANGED <<outgoing, incoming>>
      BY <1>2 DEF PlatformInvalidate, ReadEndOfFile, PostedDidClose, ConnectionDidClose
    <2> QED
      BY <2>1, EmptiedWires, SameOuts, SameIns
  <1>3. CASE ProcessIncomingSyncReply(c) \/ ProcessMarkedMessage(c)
    <2>1. wire[c] # <<>> /\ Consume(c) /\ UNCHANGED <<outgoing, incoming>>
      BY <1>3 DEF ProcessIncomingSyncReply, ProcessMarkedMessage, Readable, outVars
    <2> QED
      BY <2>1, ConsumeWires, SameOuts, SameIns
  <1>4. CASE WakeUpClientRunLoop(c)
    <2>1. UNCHANGED <<wire, outgoing, incoming>>
      BY <1>4 DEF WakeUpClientRunLoop, outVars
    <2> QED
      BY <2>1, SameOuts, SameIns, SameWires
  <1>5. CASE EnqueueIncomingMessage(c)
    BY <1>5, EnqueueIns
  <1> QED
    BY <1>1, <1>2, <1>3, <1>4, <1>5 DEF QueueThread

LEMMA MainMoves ==
    ASSUME IInv, Laden, NEW p \in Proc,
           MainThread(p) \/ MarkInvalid(p) \/ IncrementMarkedCount(p) \/ SyncTimeout(p)
    PROVE  Outs /\ Wires /\ Ins
  <1>1. CASE EndDispatch(p) \/ DispatchOneMessage(p)
    BY <1>1, EndDispatchMoves, DispatchOneMessageMoves
  <1>2. CASE \/ DispatchMessagesTask(p) \/ SwapMessages(p) \/ DispatchNext(p) \/ PutBack(p)
             \/ DispatchConnectionDidClose(p) \/ SyncDispatch(p) \/ SyncWake(p) \/ MarkInvalid(p)
             \/ IncrementMarkedCount(p)
    <2>1. UNCHANGED <<wire, outgoing, incoming>>
      BY <1>2 DEF DispatchMessagesTask, SwapMessages, DispatchNext, PutBack, DispatchConnectionDidClose,
                  SyncDispatch, SyncWake, MarkInvalid, IncrementMarkedCount, connVars, outVars, socketVars
    <2> QED
      BY <2>1, SameOuts, SameIns, SameWires
  <1>3. CASE SyncCheck(p) \/ SyncTimeout(p)
    <2>1. UNCHANGED <<wire, outgoing, incoming>>
      BY <1>3 DEF SyncCheck, SyncTimeout, SyncReturn, connVars, outVars, socketVars
    <2> QED
      BY <2>1, SameOuts, SameIns, SameWires
  <1> QED
    BY <1>1, <1>2, <1>3 DEF MainThread

LEMMA SoundStays ==
    ASSUME IInv, DInv, RInv, Laden, Frugal, Sound, [Next]_vars PROVE Sound'
  <1>1. ASSUME Outs, Wires, Ins, Hands, Steady PROVE Sound'
    BY <1>1, MovesPlain, SteadyCalls, MoveSound
  <1>2. CASE UNCHANGED vars
    <2>1. UNCHANGED <<wire, outgoing, incoming, stack, toDispatch>>
      BY <1>2 DEF vars, connVars, outVars, socketVars, procVars, mainVars, loopVars
    <2> QED
      BY <1>1, <2>1, SameOuts, SameIns, SameWires, StillGrows, GrowsHands, SteadyGrows
  <1>3. ASSUME NEW c \in Conn,
               \/ Client(c) \/ SendDelayedReply(c)
               \/ QueueThread(c) \/ SecondaryThread(c) \/ SecondaryReturn(c, TRUE)
        PROVE  Sound'
    <2>1. CASE SendSync(c) \/ SecondarySend(c)
      BY <2>1, SendSyncSound, SecondarySendSound
    <2>2. CASE ~(SendSync(c) \/ SecondarySend(c))
      <3>1. Outs /\ Wires /\ Ins
        BY <1>3, <2>2, ClientMoves, QueueMoves DEF Client, SecondaryThread
      <3>2. Grows
        BY <1>3, <2>2, OtherGrows DEF Client, SecondaryThread
      <3> QED
        BY <1>1, <3>1, <3>2, GrowsHands, SteadyGrows
    <2> QED
      BY <2>1, <2>2
  <1>4. ASSUME NEW p \in Proc,
               MainThread(p) \/ MarkInvalid(p) \/ IncrementMarkedCount(p) \/ SyncTimeout(p)
        PROVE  Sound'
    <2>1. Outs /\ Wires /\ Ins
      BY <1>4, MainMoves
    <2>2. CASE DispatchOneMessage(p)
      BY <1>1, <2>2, DispatchOneMessageMoves, DispatchOneMessageSteady
    <2>3. CASE Grows
      BY <1>1, <2>1, <2>3, GrowsHands, SteadyGrows
    <2> QED
      BY <1>4, <2>2, <2>3, MainGrows
  <1> QED
    BY <1>2, <1>3, <1>4 DEF Next

-----------------------------------------------------------------------------
(* Budgets, and the messages a run loop dispatches.                        *)
LEMMA NextPaid == ASSUME IInv, [Next]_vars PROVE Falling /\ Paid
  <1>1. CASE UNCHANGED vars
    <2>1. UNCHANGED <<client, connected, alive, left>>
      BY <1>1 DEF vars, connVars, procVars, socketVars, mainVars, countVars
    <2> QED
      BY <2>1, FallSame DEF Paid
  <1>2. CASE Next
    BY <1>2, ClientWears, QueueWears, MainWears DEF Next
  <1> QED
    BY <1>1, <1>2

LEMMA PaidLess ==
    ASSUME IInv, Paid, NEW x \in Conn, NEW o \in Ops, left[x][o] = 0, left'[x][o] \in Nat
    PROVE  left'[x][o] = 0
  <1>1. left \in [Conn -> [Ops -> Nat]]
    BY DEF IInv, ConnTypes
  <1>2. CASE UNCHANGED left
    BY <1>2
  <1>3. CASE \E c \in Conn, op \in Ops : Spend(c, op)
    <2>1. PICK c \in Conn, op \in Ops : Spend(c, op)
      BY <1>3
    <2>2. left' = [left EXCEPT ![c][op] = @ - 1]
      BY <2>1 DEF Spend
    <2>3. left'[x][o] = left[x][o] \/ left'[x][o] = left[x][o] - 1
      BY <1>1, <2>2
    <2> QED
      BY <2>3
  <1> QED
    BY <1>2, <1>3 DEF Paid

LEMMA NoneKept ==
    ASSUME IInv, Frugal, [Next]_vars PROVE UNCHANGED delayed
  <1>1. CASE UNCHANGED vars
    BY <1>1 DEF vars, connVars, otherVars
  <1>2. ASSUME NEW c \in Conn,
               \/ Client(c) \/ SendDelayedReply(c)
               \/ QueueThread(c) \/ SecondaryThread(c) \/ SecondaryReturn(c, TRUE)
        PROVE  UNCHANGED delayed
    <2>1. CASE Client(c)
      BY <2>1 DEF Client, Send, SendSync, Invalidate, SecondaryBegin, PostConnectionDidClose, Crash, otherVars
    <2>2. CASE SendDelayedReply(c)
      BY <2>2 DEF SendDelayedReply, Frugal
    <2>3. CASE QueueThread(c)
      BY <2>3 DEF QueueThread, SendOutgoingMessages, PlatformInvalidate, ReadEndOfFile, PostedDidClose,
                  ConnectionDidClose, ProcessIncomingSyncReply, ProcessMarkedMessage,
                  WakeUpClientRunLoop, EnqueueIncomingMessage, otherVars
    <2>4. CASE SecondaryThread(c) \/ SecondaryReturn(c, TRUE)
      BY <2>4 DEF SecondaryThread, SecondarySend, SecondaryReturn
    <2> QED
      BY <1>2, <2>1, <2>2, <2>3, <2>4
  <1>3. ASSUME NEW p \in Proc,
               MainThread(p) \/ MarkInvalid(p) \/ IncrementMarkedCount(p) \/ SyncTimeout(p)
        PROVE  UNCHANGED delayed
    <2>1. CASE EndDispatch(p)
      <3>1. At(p, "handler", "run") /\ "handler" # "batch"
        BY <2>1 DEF EndDispatch
      <3>2. Top(p).conn \in Conn
        BY <3>1, TopWeight
      <3>3. left[Top(p).conn]["delay"] = 0
        BY <3>2 DEF Frugal
      <3>4. ~Spend(Top(p).conn, "delay")
        BY <3>3 DEF Spend
      <3> QED
        BY <2>1, <3>4 DEF EndDispatch
    <2>2. CASE \/ DispatchOneMessage(p) \/ DispatchMessagesTask(p) \/ SwapMessages(p)
               \/ DispatchNext(p) \/ PutBack(p) \/ DispatchConnectionDidClose(p)
      BY <2>2 DEF DispatchOneMessage, DispatchMessagesTask, SwapMessages, DispatchNext, PutBack,
                  DispatchConnectionDidClose, connVars, otherVars
    <2>3. CASE \/ SyncDispatch(p) \/ SyncWake(p) \/ MarkInvalid(p) \/ IncrementMarkedCount(p)
               \/ SyncTimeout(p) \/ SyncCheck(p)
      BY <2>3 DEF SyncDispatch, SyncWake, MarkInvalid, IncrementMarkedCount, SyncTimeout, SyncCheck,
                  SyncReturn, connVars, otherVars
    <2> QED
      BY <1>3, <2>1, <2>2, <2>3 DEF MainThread
  <1> QED
    BY <1>1, <1>2, <1>3 DEF Next

LEMMA FrugalStays == ASSUME IInv, IInv', Frugal, [Next]_vars PROVE Frugal'
  <1> SUFFICES ASSUME NEW c \in Conn
               PROVE  left'[c]["fail"] = 0 /\ left'[c]["delay"] = 0 /\ delayed'[c] = {}
    BY DEF Frugal
  <1>1. "fail" \in Ops /\ "delay" \in Ops
    BY OpNames
  <1>2. left'[c]["fail"] \in Nat /\ left'[c]["delay"] \in Nat
    BY <1>1 DEF IInv, ConnTypes
  <1>3. left[c]["fail"] = 0 /\ left[c]["delay"] = 0 /\ delayed[c] = {}
    BY DEF Frugal
  <1>4. left'[c]["fail"] = 0 /\ left'[c]["delay"] = 0
    BY <1>1, <1>2, <1>3, NextPaid, PaidLess
  <1> QED
    BY <1>3, <1>4, NoneKept

(* The messages that processIncomingMessage enqueues are not marked.       *)
Unmarked == \A c \in Conn, m \in Msg : Contains(incoming[c], m) => ~m.marked

LEMMA UnmarkedStays == ASSUME IInv, Unmarked, [Next]_vars PROVE Unmarked'
  <1>1. incoming \in [Conn -> Seq(Msg)]
    BY DEF IInv, ConnTypes
  <1>2. CASE UNCHANGED incoming
    BY <1>2 DEF Unmarked
  <1>3. ASSUME NEW p \in Proc, DispatchOneMessage(p) PROVE Unmarked'
    <2> SUFFICES ASSUME NEW x \in Conn, NEW m \in Msg, Contains(incoming'[x], m) PROVE ~m.marked
      BY DEF Unmarked
    <2>1. incoming'[x] = incoming[x] \/ (incoming[x] # <<>> /\ incoming'[x] = Tail(incoming[x]))
      BY <1>1, <1>3 DEF DispatchOneMessage
    <2>2. incoming[x] \in Seq(Msg)
      BY <1>1
    <2>3. Contains(incoming[x], m)
      BY <2>1, <2>2, ContainsFacts
    <2> QED
      BY <2>3 DEF Unmarked
  <1>4. ASSUME NEW c \in Conn, EnqueueIncomingMessage(c) PROVE Unmarked'
    <2>1. /\ wire[c] # <<>> /\ ~Head(wire[c]).marked
          /\ incoming' = [incoming EXCEPT ![c] = Append(@, Head(wire[c]))]
      BY <1>4 DEF EnqueueIncomingMessage, Readable
    <2>2. Head(wire[c]) \in Msg
      <3>1. wire[c] \in Seq(Msg)
        BY DEF IInv, ConnTypes
      <3> QED
        BY <2>1, <3>1, HeadTailProperties
    <2> SUFFICES ASSUME NEW x \in Conn, NEW m \in Msg, Contains(incoming'[x], m) PROVE ~m.marked
      BY DEF Unmarked
    <2>3. CASE incoming'[x] = incoming[x]
      BY <2>3 DEF Unmarked
    <2>4. CASE incoming'[x] # incoming[x]
      <3>1. incoming'[x] = Append(incoming[x], Head(wire[c])) /\ incoming[x] \in Seq(Msg)
        BY <1>1, <2>1, <2>4
      <3>2. Contains(Append(incoming[x], Head(wire[c])), m)
        BY <3>1
      <3>3. Contains(incoming[x], m) \/ m = Head(wire[c])
        BY <2>2, <3>1, <3>2, ContainsFacts
      <3> QED
        BY <2>1, <3>3 DEF Unmarked
    <2> QED
      BY <2>3, <2>4
  <1>5. CASE UNCHANGED vars
    <2>1. UNCHANGED incoming
      BY <1>5 DEF vars, connVars
    <2> QED
      BY <1>2, <2>1
  <1>6. ASSUME NEW c \in Conn,
               \/ Client(c) \/ SendDelayedReply(c)
               \/ QueueThread(c) \/ SecondaryThread(c) \/ SecondaryReturn(c, TRUE)
        PROVE  Unmarked'
    <2>1. CASE Client(c) \/ SendDelayedReply(c)
      <3>1. UNCHANGED incoming
        BY <2>1 DEF Client, Send, SendSync, Invalidate, SecondaryBegin, PostConnectionDidClose, Crash,
                    SendDelayedReply
      <3> QED
        BY <1>2, <3>1
    <2>2. CASE QueueThread(c)
      <3>1. UNCHANGED incoming \/ EnqueueIncomingMessage(c)
        BY <2>2 DEF QueueThread, SendOutgoingMessages, PlatformInvalidate, ReadEndOfFile, PostedDidClose,
                  ConnectionDidClose, ProcessIncomingSyncReply, ProcessMarkedMessage,
                  WakeUpClientRunLoop
      <3> QED
        BY <1>2, <1>4, <3>1
    <2>3. CASE SecondaryThread(c) \/ SecondaryReturn(c, TRUE)
      <3>1. UNCHANGED incoming
        BY <2>3 DEF SecondaryThread, SecondarySend, SecondaryReturn
      <3> QED
        BY <1>2, <3>1
    <2> QED
      BY <1>6, <2>1, <2>2, <2>3
  <1>7. ASSUME NEW p \in Proc,
               MainThread(p) \/ MarkInvalid(p) \/ IncrementMarkedCount(p) \/ SyncTimeout(p)
        PROVE  Unmarked'
    <2>1. UNCHANGED incoming \/ DispatchOneMessage(p)
      BY <1>7 DEF MainThread, EndDispatch, DispatchMessagesTask, SwapMessages, DispatchNext, PutBack,
                  DispatchConnectionDidClose, SyncDispatch, SyncWake, MarkInvalid,
                  IncrementMarkedCount, SyncTimeout, SyncCheck, SyncReturn, connVars
    <2> QED
      BY <1>2, <1>3, <2>1
  <1> QED
    BY <1>5, <1>6, <1>7 DEF Next

-----------------------------------------------------------------------------
(* An end whose socket is closed is one where nobody waits.                *)
Shut(c) ==
    /\ ~connected[c] => ~client[c] \/ ~shouldWait[c] \/ ~alive[ProcOf[c]]
    /\ Contains(queue[c], "invalidate") => ~client[c]

Closed == \A c \in Conn : Shut(c)

(* What a step does to an end: waiting goes, and when the socket is closed *)
(* the client knows; and the work that closes it is posted by invalidate.  *)
Cuts ==
    \A x \in Conn :
        /\ shouldWait'[x] => shouldWait[x]
        /\ connected[x] /\ ~connected'[x] => ~client'[x] \/ ~shouldWait'[x] \/ ~alive'[ProcOf[x]]

Posts ==
    \A x \in Conn : Contains(queue'[x], "invalidate") => Contains(queue[x], "invalidate") \/ ~client'[x]

LEMMA ClosedStays == ASSUME Closed, Falling, Cuts, Posts PROVE Closed'
  <1> SUFFICES ASSUME NEW x \in Conn PROVE Shut(x)'
    BY DEF Closed
  <1>1. ProcOf[x] \in Proc /\ Shut(x)
    BY ConnAssumption DEF Closed
  <1>2. /\ client'[x] => client[x]
        /\ alive'[ProcOf[x]] => alive[ProcOf[x]]
    BY <1>1 DEF Falling
  <1>3. /\ shouldWait'[x] => shouldWait[x]
        /\ connected[x] /\ ~connected'[x] => ~client'[x] \/ ~shouldWait'[x] \/ ~alive'[ProcOf[x]]
    BY DEF Cuts
  <1>4. Contains(queue'[x], "invalidate") => ~client'[x]
    BY <1>1, <1>2 DEF Posts, Shut
  <1>5. ~connected'[x] => ~client'[x] \/ ~shouldWait'[x] \/ ~alive'[ProcOf[x]]
    BY <1>1, <1>2, <1>3 DEF Shut
  <1> QED
    BY <1>4, <1>5 DEF Shut

LEMMA CutsSame == ASSUME UNCHANGED <<connected, shouldWait>> PROVE Cuts
  BY DEF Cuts

LEMMA CutsTerminates ==
    ASSUME IInv, NEW p \in Proc, Terminate(p), UNCHANGED shouldWait PROVE Cuts
  <1> SUFFICES ASSUME NEW x \in Conn, connected[x], ~connected'[x] PROVE ~alive'[ProcOf[x]]
    BY DEF Cuts
  <1>1. alive \in [Proc -> BOOLEAN]
    BY DEF IInv, ConnTypes
  <1>2. ProcOf[x] = p
    BY DEF Terminate
  <1> QED
    BY <1>1, <1>2 DEF Terminate

LEMMA CutsFails ==
    ASSUME IInv, NEW c \in Conn, NEW failed, DidFailToSendSyncMessage(c, failed), UNCHANGED shouldWait PROVE Cuts
  <1>1. ProcOf[c] \in Proc
    BY ConnAssumption
  <1> QED
    BY <1>1, CutsSame, CutsTerminates DEF DidFailToSendSyncMessage

LEMMA CutsCloses == ASSUME IInv, NEW c \in Conn, ConnectionDidClose(c) PROVE Cuts
  <1>1. connected \in [Conn -> BOOLEAN] /\ shouldWait \in [Conn -> BOOLEAN]
    BY DEF IInv, ConnTypes, WaitTypes
  <1>2. /\ connected' = [connected EXCEPT ![c] = FALSE]
        /\ shouldWait' = [shouldWait EXCEPT ![c] = FALSE]
    BY DEF ConnectionDidClose
  <1> QED
    BY <1>1, <1>2 DEF Cuts

LEMMA CutsInvalidates == ASSUME IInv, Closed, NEW c \in Conn, PlatformInvalidate(c) PROVE Cuts
  <1>1. connected \in [Conn -> BOOLEAN] /\ queue[c] \in Seq(WorkItem)
    BY DEF IInv, ConnTypes
  <1>2. /\ connected' = [connected EXCEPT ![c] = FALSE]
        /\ UNCHANGED <<client, shouldWait>>
        /\ queue[c] # <<>> /\ Head(queue[c]) = "invalidate"
    BY DEF PlatformInvalidate, replyVars, NextWork
  <1>3. Contains(queue[c], "invalidate")
    <2>1. "send" \in WorkItem
      BY DEF WorkItem
    <2>2. Contains(queue[c], Head(queue[c]))
      BY <1>1, <1>2, <2>1, ContainsFacts
    <2> QED
      BY <1>2, <2>2
  <1>4. ~client[c]
    BY <1>3 DEF Closed, Shut
  <1> QED
    BY <1>1, <1>2, <1>4 DEF Cuts

LEMMA NextCuts == ASSUME IInv, Closed, [Next]_vars PROVE Cuts
  <1>1. CASE UNCHANGED vars
    <2>1. UNCHANGED <<connected, shouldWait>>
      BY <1>1 DEF vars, connVars, socketVars, replyVars
    <2> QED
      BY <2>1, CutsSame
  <1>2. ASSUME NEW c \in Conn,
               \/ Client(c) \/ SendDelayedReply(c)
               \/ QueueThread(c) \/ SecondaryThread(c) \/ SecondaryReturn(c, TRUE)
        PROVE  Cuts
    <2>1. CASE Send(c) \/ Invalidate(c) \/ SecondaryBegin(c) \/ PostConnectionDidClose(c) \/ SendDelayedReply(c)
      <3>1. UNCHANGED <<connected, shouldWait>>
        BY <2>1 DEF Send, Invalidate, SecondaryBegin, PostConnectionDidClose, SendDelayedReply, socketVars, replyVars
      <3> QED
        BY <3>1, CutsSame
    <2>2. CASE SendSync(c)
      <3>1. UNCHANGED shouldWait /\ (UNCHANGED connected \/ DidFailToSendSyncMessage(c, TRUE))
        BY <2>2 DEF SendSync
      <3> QED
        BY <3>1, CutsSame, CutsFails
    <2>3. CASE Crash(c)
      <3>1. Terminate(ProcOf[c]) /\ UNCHANGED shouldWait /\ ProcOf[c] \in Proc
        BY <2>3, ConnAssumption DEF Crash, replyVars
      <3> QED
        BY <3>1, CutsTerminates
    <2>4. CASE QueueThread(c)
      <3>1. CASE PlatformInvalidate(c)
        BY <3>1, CutsInvalidates
      <3>2. CASE ReadEndOfFile(c) \/ PostedDidClose(c)
        BY <3>2, CutsCloses DEF ReadEndOfFile, PostedDidClose
      <3>3. CASE \/ SendOutgoingMessages(c) \/ ProcessIncomingSyncReply(c) \/ ProcessMarkedMessage(c)
                 \/ WakeUpClientRunLoop(c) \/ EnqueueIncomingMessage(c)
        <4>1. UNCHANGED <<connected, shouldWait>>
          BY <3>3 DEF SendOutgoingMessages, ProcessIncomingSyncReply, ProcessMarkedMessage,
                      WakeUpClientRunLoop, EnqueueIncomingMessage, replyVars
        <4> QED
          BY <4>1, CutsSame
      <3> QED
        BY <2>4, <3>1, <3>2, <3>3 DEF QueueThread
    <2>5. CASE SecondaryThread(c) \/ SecondaryReturn(c, TRUE)
      <3>1. UNCHANGED <<connected, shouldWait>>
        BY <2>5 DEF SecondaryThread, SecondarySend, SecondaryReturn, socketVars, replyVars
      <3> QED
        BY <3>1, CutsSame
    <2> QED
      BY <1>2, <2>1, <2>2, <2>3, <2>4, <2>5 DEF Client
  <1>3. ASSUME NEW p \in Proc,
               MainThread(p) \/ MarkInvalid(p) \/ IncrementMarkedCount(p) \/ SyncTimeout(p)
        PROVE  Cuts
    <2>1. CASE SyncCheck(p) \/ SyncTimeout(p)
      <3>1. "sync" # "batch"
        OBVIOUS
      <3>2. Top(p).conn \in Conn
        <4>1. At(p, "sync", "check") \/ At(p, "sync", "blocked")
          BY <2>1 DEF SyncCheck, SyncTimeout
        <4> QED
          BY <3>1, <4>1, TopWeight
      <3>3. \/ UNCHANGED <<connected, shouldWait>>
            \/ \E ok : SyncReturn(p, Top(p).conn, ok)
        BY <2>1 DEF SyncCheck, SyncTimeout, connVars, socketVars, replyVars
      <3>4. ASSUME NEW ok, SyncReturn(p, Top(p).conn, ok) PROVE Cuts
        BY <3>2, <3>4, CutsFails DEF SyncReturn
      <3> QED
        BY <3>3, <3>4, CutsSame
    <2>2. CASE ~(SyncCheck(p) \/ SyncTimeout(p))
      <3>1. UNCHANGED <<connected, shouldWait>>
        BY <1>3, <2>2 DEF MainThread, EndDispatch, DispatchOneMessage, DispatchMessagesTask, SwapMessages,
                  DispatchNext, PutBack, DispatchConnectionDidClose, SyncDispatch, SyncWake, MarkInvalid,
                  IncrementMarkedCount, connVars, socketVars, replyVars
      <3> QED
        BY <3>1, CutsSame
    <2> QED
      BY <2>1, <2>2
  <1> QED
    BY <1>1, <1>2, <1>3 DEF Next

LEMMA PostsSame == ASSUME UNCHANGED queue PROVE Posts
  BY DEF Posts

LEMMA PostsTail ==
    ASSUME IInv, NEW c \in Conn, queue[c] # <<>>, queue' = [queue EXCEPT ![c] = Tail(@)] PROVE Posts
  <1> SUFFICES ASSUME NEW x \in Conn, Contains(queue'[x], "invalidate")
               PROVE  Contains(queue[x], "invalidate")
    BY DEF Posts
  <1>1. queue \in [Conn -> Seq(WorkItem)] /\ "send" \in WorkItem
    BY DEF IInv, ConnTypes, WorkItem
  <1>2. queue'[x] = queue[x] \/ (queue[x] # <<>> /\ queue'[x] = Tail(queue[x]))
    BY <1>1
  <1>3. queue[x] \in Seq(WorkItem)
    BY <1>1
  <1> QED
    BY <1>1, <1>2, <1>3, ContainsFacts

LEMMA PostsAppend ==
    ASSUME IInv, NEW c \in Conn, NEW e \in WorkItem, queue' = [queue EXCEPT ![c] = Append(@, e)],
           e = "invalidate" => ~client'[c]
    PROVE  Posts
  <1> SUFFICES ASSUME NEW x \in Conn, Contains(queue'[x], "invalidate")
               PROVE  Contains(queue[x], "invalidate") \/ ~client'[x]
    BY DEF Posts
  <1>1. queue \in [Conn -> Seq(WorkItem)]
    BY DEF IInv, ConnTypes
  <1>2. CASE x # c
    BY <1>1, <1>2
  <1>3. CASE x = c
    <2>1. queue'[x] = Append(queue[c], e) /\ queue[c] \in Seq(WorkItem)
      BY <1>1, <1>3
    <2>2. Contains(Append(queue[c], e), "invalidate")
      BY <2>1
    <2>3. Contains(queue[c], "invalidate") \/ "invalidate" = e
      BY <2>1, <2>2, ContainsFacts
    <2> QED
      BY <1>3, <2>3
  <1> QED
    BY <1>2, <1>3

LEMMA PostsSends == ASSUME IInv, NEW c \in Conn, NEW m, SendMessage(c, m) PROVE Posts
  <1>1. "send" \in WorkItem /\ "send" # "invalidate"
    BY DEF WorkItem
  <1>2. UNCHANGED queue \/ queue' = [queue EXCEPT ![c] = Append(@, "send")]
    BY DEF SendMessage, outVars
  <1> QED
    BY <1>1, <1>2, PostsSame, PostsAppend

LEMMA PostsEndDispatch == ASSUME IInv, NEW p \in Proc, EndDispatch(p) PROVE Posts
  <1>1. At(p, "handler", "run") /\ "handler" # "batch"
    BY DEF EndDispatch
  <1> DEFINE c == Top(p).conn
             report == invalid[c] /\ client[c]
             q == queue[c]
  <1>2. c \in Conn
    BY <1>1, TopWeight
  <1>3. queue \in [Conn -> Seq(WorkItem)] /\ client \in [Conn -> BOOLEAN]
    BY DEF IInv, ConnTypes
  <1>4. /\ client' = [client EXCEPT ![c] = @ /\ ~report]
        /\ \E a \in {<<>>, <<"send">>} :
              queue' = [queue EXCEPT ![c] = @ \o a \o (IF report THEN <<"invalidate">> ELSE <<>>)]
    BY DEF EndDispatch
  <1>5. PICK a \in {<<>>, <<"send">>} :
              queue' = [queue EXCEPT ![c] = @ \o a \o (IF report THEN <<"invalidate">> ELSE <<>>)]
    BY <1>4
  <1> DEFINE b == IF report THEN <<"invalidate">> ELSE <<>>
  <1>6. a \in Seq(WorkItem) /\ b \in Seq(WorkItem) /\ q \in Seq(WorkItem) /\ q \o a \in Seq(WorkItem)
    <2>1. "send" \in WorkItem /\ "invalidate" \in WorkItem
      BY DEF WorkItem
    <2>2. <<>> \in Seq(WorkItem) /\ <<"send">> \in Seq(WorkItem) /\ <<"invalidate">> \in Seq(WorkItem)
      BY <2>1
    <2>3. a \in Seq(WorkItem) /\ b \in Seq(WorkItem) /\ q \in Seq(WorkItem)
      BY <1>2, <1>3, <2>2
    <2> QED
      BY <2>3, ConcatProperties
  <1>7. ~Contains(a, "invalidate")
    <2>1. Len(<<>>) = 0 /\ Len(<<"send">>) = 1 /\ <<"send">>[1] = "send" /\ "send" # "invalidate"
      OBVIOUS
    <2>2. 1..0 = {} /\ 1..1 = {1}
      OBVIOUS
    <2>3. a = <<>> \/ a = <<"send">>
      BY <1>5
    <2> QED
      BY <2>1, <2>2, <2>3 DEF Contains
  <1>8. ~report => ~Contains(b, "invalidate")
    <2>1. Len(<<>>) = 0 /\ 1..0 = {}
      OBVIOUS
    <2> QED
      BY <2>1 DEF Contains
  <1>9. report => ~client'[c]
    BY <1>2, <1>3, <1>4
  <1>10. queue'[c] = (q \o a) \o b
    BY <1>2, <1>3, <1>5
  <1>11. \A x \in Conn : x # c => queue'[x] = queue[x]
    BY <1>2, <1>3, <1>5
  <1> HIDE DEF q, b, report, c
  <1>12. ASSUME Contains(queue'[c], "invalidate") PROVE Contains(q, "invalidate") \/ ~client'[c]
    <2>1. Contains((q \o a) \o b, "invalidate")
      BY <1>10, <1>12
    <2>2. Contains(q \o a, "invalidate") \/ Contains(b, "invalidate")
      BY <1>6, <2>1, ContainsConcat
    <2>3. Contains(q \o a, "invalidate") => Contains(q, "invalidate")
      BY <1>6, <1>7, ContainsConcat
    <2> QED
      BY <1>8, <1>9, <2>2, <2>3
  <1>13. ASSUME NEW x \in Conn, Contains(queue'[x], "invalidate")
         PROVE  Contains(queue[x], "invalidate") \/ ~client'[x]
    <2>1. CASE x = c
      BY <1>12, <1>13, <2>1 DEF q
    <2>2. CASE x # c
      BY <1>11, <1>13, <2>2
    <2> QED
      BY <2>1, <2>2
  <1> QED
    BY <1>13 DEF Posts

LEMMA NextPosts == ASSUME IInv, [Next]_vars PROVE Posts
  <1>1. CASE UNCHANGED vars
    <2>1. UNCHANGED queue
      BY <1>1 DEF vars, connVars, outVars
    <2> QED
      BY <2>1, PostsSame
  <1>2. ASSUME NEW c \in Conn,
               \/ Client(c) \/ SendDelayedReply(c)
               \/ QueueThread(c) \/ SecondaryThread(c) \/ SecondaryReturn(c, TRUE)
        PROVE  Posts
    <2>1. CASE Send(c)
      <3>1. \E m : SendMessage(c, m)
        BY <2>1 DEF Send
      <3> QED
        BY <3>1, PostsSends
    <2>2. CASE SendSync(c)
      <3>1. UNCHANGED queue \/ \E m : SendMessage(c, m)
        BY <2>2 DEF SendSync, outVars
      <3> QED
        BY <3>1, PostsSame, PostsSends
    <2>3. CASE SendDelayedReply(c)
      <3>1. \E m : SendMessage(c, m)
        BY <2>3 DEF SendDelayedReply
      <3> QED
        BY <3>1, PostsSends
    <2>4. CASE Invalidate(c)
      <3>1. "invalidate" \in WorkItem
        BY DEF WorkItem
      <3>2. client \in [Conn -> BOOLEAN]
        BY DEF IInv, ConnTypes
      <3>3. queue' = [queue EXCEPT ![c] = Append(@, "invalidate")] /\ ~client'[c]
        BY <2>4, <3>2 DEF Invalidate
      <3> QED
        BY <3>1, <3>3, PostsAppend
    <2>5. CASE PostConnectionDidClose(c)
      <3>1. "didClose" \in WorkItem /\ "didClose" # "invalidate"
        BY DEF WorkItem
      <3>2. queue' = [queue EXCEPT ![c] = Append(@, "didClose")]
        BY <2>5 DEF PostConnectionDidClose
      <3> QED
        BY <3>1, <3>2, PostsAppend
    <2>6. CASE SecondaryBegin(c) \/ Crash(c) \/ SecondaryReturn(c, FALSE) \/ SecondaryReturn(c, TRUE)
      <3>1. UNCHANGED queue
        BY <2>6 DEF SecondaryBegin, Crash, SecondaryReturn, outVars
      <3> QED
        BY <3>1, PostsSame
    <2>7. CASE SecondarySend(c)
      <3>1. \E m : SendMessage(c, m)
        BY <2>7 DEF SecondarySend
      <3> QED
        BY <3>1, PostsSends
    <2>8. CASE QueueThread(c)
      <3>1. CASE SendOutgoingMessages(c) \/ PlatformInvalidate(c) \/ PostedDidClose(c)
        <4>1. queue[c] # <<>> /\ queue' = [queue EXCEPT ![c] = Tail(@)]
          BY <3>1 DEF SendOutgoingMessages, PlatformInvalidate, PostedDidClose, NextWork
        <4> QED
          BY <4>1, PostsTail
      <3>2. CASE \/ ReadEndOfFile(c) \/ ProcessIncomingSyncReply(c) \/ ProcessMarkedMessage(c)
                 \/ WakeUpClientRunLoop(c) \/ EnqueueIncomingMessage(c)
        <4>1. UNCHANGED queue
          BY <3>2 DEF ReadEndOfFile, ProcessIncomingSyncReply, ProcessMarkedMessage,
                      WakeUpClientRunLoop, EnqueueIncomingMessage, outVars
        <4> QED
          BY <4>1, PostsSame
      <3> QED
        BY <2>8, <3>1, <3>2 DEF QueueThread
    <2> QED
      BY <1>2, <2>1, <2>2, <2>3, <2>4, <2>5, <2>6, <2>7, <2>8 DEF Client, SecondaryThread
  <1>3. ASSUME NEW p \in Proc,
               MainThread(p) \/ MarkInvalid(p) \/ IncrementMarkedCount(p) \/ SyncTimeout(p)
        PROVE  Posts
    <2>1. CASE EndDispatch(p)
      BY <2>1, PostsEndDispatch
    <2>2. CASE ~EndDispatch(p)
      <3>1. UNCHANGED queue
        BY <1>3, <2>2 DEF MainThread, DispatchOneMessage, DispatchMessagesTask, SwapMessages,
                  DispatchNext, PutBack, DispatchConnectionDidClose, SyncDispatch, SyncWake, MarkInvalid,
                  IncrementMarkedCount, SyncTimeout, SyncCheck, SyncReturn, connVars, outVars
      <3> QED
        BY <3>1, PostsSame
    <2> QED
      BY <2>1, <2>2
  <1> QED
    BY <1>1, <1>2, <1>3 DEF Next

-----------------------------------------------------------------------------
(* A main thread sleeps in calls of valid connections only.                *)
Resting == \A p \in Proc : AtTop(stack[p], "sync", "blocked") => client[Last(stack[p]).conn]

LEMMA RestingSame == ASSUME Resting, UNCHANGED <<client, stack>> PROVE Resting'
  BY DEF Resting

LEMMA RestingStep ==
    ASSUME IInv, Resting, NEW p \in Proc, Same(stack, stack', p),
           \A x \in Conn : ProcOf[x] # p => client'[x] = client[x],
           AtTop(stack'[p], "sync", "blocked") => client'[Last(stack'[p]).conn]
    PROVE  Resting'
  <1> SUFFICES ASSUME NEW q \in Proc, AtTop(stack'[q], "sync", "blocked"), q # p
               PROVE  client'[Last(stack'[q]).conn]
    BY DEF Resting
  <1>1. stack'[q] = stack[q]
    BY DEF Same
  <1>2. GoodStack(q, stack[q]) /\ stack[q] # <<>> /\ Last(stack[q]).kind = "sync"
    BY <1>1 DEF IInv, Homes, AtTop
  <1>3. Last(stack[q]) \in GoodFrame(q) /\ "sync" # "batch"
    BY <1>2, GoodTop
  <1>4. Last(stack[q]).conn \in Conn /\ ProcOf[Last(stack[q]).conn] = q
    BY <1>2, <1>3 DEF GoodFrame, Home
  <1>5. client[Last(stack[q]).conn]
    BY <1>1 DEF Resting
  <1> QED
    BY <1>1, <1>4, <1>5

LEMMA RestingPop ==
    ASSUME IInv, Resting, NEW p \in Proc, stack[p] # <<>>, stack' = [stack EXCEPT ![p] = Front(stack[p])],
           \A x \in Conn : ProcOf[x] # p => client'[x] = client[x]
    PROVE  Resting'
  <1>1. stack'[p] = Front(stack[p]) /\ Same(stack, stack', p)
    BY StackOf
  <1>2. GoodStack(p, stack[p])
    BY DEF IInv, Homes
  <1>3. Front(stack[p]) # <<>> => Last(Front(stack[p])).kind # "sync" \/ Last(Front(stack[p])).pc = "check"
    BY <1>2, GoodTop
  <1>4. "check" # "blocked"
    OBVIOUS
  <1>5. ~AtTop(stack'[p], "sync", "blocked")
    BY <1>1, <1>3, <1>4 DEF AtTop
  <1> QED
    BY <1>1, <1>5, RestingStep

LEMMA RestingPush ==
    ASSUME IInv, Resting, NEW p \in Proc, NEW s \in Seq(Frame), NEW f,
           stack' = [stack EXCEPT ![p] = Append(s, f)], UNCHANGED client,
           f.kind = "sync" /\ f.pc = "blocked" => client[f.conn]
    PROVE  Resting'
  <1>1. stack'[p] = Append(s, f) /\ Same(stack, stack', p)
    BY StackOf
  <1>2. Last(Append(s, f)) = f
    <2>1. Len(Append(s, f)) = Len(s) + 1 /\ Append(s, f)[Len(s) + 1] = f
      OBVIOUS
    <2> QED
      BY <2>1 DEF Last
  <1>3. AtTop(stack'[p], "sync", "blocked") => client'[Last(stack'[p]).conn]
    BY <1>1, <1>2 DEF AtTop
  <1> QED
    BY <1>1, <1>3, RestingStep

LEMMA RestingEnds ==
    ASSUME IInv, Resting, NEW p \in Proc, EndDispatch(p) \/ PutBack(p) PROVE Resting'
  <1>1. stack[p] # <<>> /\ stack' = [stack EXCEPT ![p] = Front(stack[p])]
    BY DEF EndDispatch, PutBack, Pop, At
  <1>2. CASE PutBack(p)
    <2>1. UNCHANGED client
      BY <1>2 DEF PutBack, connVars
    <2> QED
      BY <1>1, <2>1, RestingPop
  <1>3. CASE EndDispatch(p)
    <2>1. At(p, "handler", "run") /\ "handler" # "batch"
      BY <1>3 DEF EndDispatch
    <2>2. Top(p).conn \in Conn /\ ProcOf[Top(p).conn] = p
      BY <2>1, TopWeight
    <2>3. client \in [Conn -> BOOLEAN]
      BY DEF IInv, ConnTypes
    <2>4. \E v : client' = [client EXCEPT ![Top(p).conn] = v]
      BY <1>3 DEF EndDispatch
    <2>5. \A x \in Conn : ProcOf[x] # p => client'[x] = client[x]
      BY <2>2, <2>3, <2>4
    <2> QED
      BY <1>1, <2>5, RestingPop
  <1> QED
    BY <1>2, <1>3

LEMMA RestingReturns ==
    ASSUME IInv, Resting, NEW p \in Proc, NEW c, NEW ok, stack[p] # <<>>, SyncReturn(p, c, ok) PROVE Resting'
  <1>1. stack' = [stack EXCEPT ![p] = Front(stack[p])] /\ UNCHANGED client
    BY DEF SyncReturn, Pop
  <1> QED
    BY <1>1, RestingPop

LEMMA RestingSync ==
    ASSUME IInv, Resting, NEW p \in Proc, SyncCheck(p) \/ SyncWake(p) \/ SyncDispatch(p) PROVE Resting'
  <1>1. CASE SyncCheck(p)
    <2>1. At(p, "sync", "check") /\ stack[p] # <<>>
      BY <1>1 DEF SyncCheck, At
    <2>2. CASE StopsWaiting(Top(p).conn)
      <3>1. SyncReturn(p, Top(p).conn, Last(pending[Top(p).conn]).got)
        BY <1>1, <2>2 DEF SyncCheck
      <3> QED
        BY <2>1, <3>1, RestingReturns
    <2>3. CASE ~StopsWaiting(Top(p).conn)
      <3> DEFINE g == [Top(p) EXCEPT !.pc = "blocked"]
      <3>1. stack' = [stack EXCEPT ![p] = Append(Front(stack[p]), g)] /\ UNCHANGED client
        BY <1>1, <2>3 DEF SyncCheck, Replace, connVars
      <3>2. client[Top(p).conn]
        BY <2>3 DEF StopsWaiting
      <3>3. Top(p) \in Frame /\ Front(stack[p]) \in Seq(Frame)
        BY <2>1, TopWeight
      <3>4. g.conn = Top(p).conn
        BY <3>3, MovedFrame
      <3> HIDE DEF g
      <3> QED
        BY <3>1, <3>2, <3>3, <3>4, RestingPush
    <2> QED
      BY <2>2, <2>3
  <1>2. CASE SyncWake(p)
    <2> DEFINE g == [Top(p) EXCEPT !.pc = "dispatch"]
    <2>1. At(p, "sync", "blocked") /\ stack' = [stack EXCEPT ![p] = Append(Front(stack[p]), g)] /\ UNCHANGED client
      BY <1>2 DEF SyncWake, Replace, connVars
    <2>2. Top(p) \in Frame /\ Front(stack[p]) \in Seq(Frame)
      BY <2>1, TopWeight
    <2>3. g.pc = "dispatch" /\ "dispatch" # "blocked"
      BY <2>2, MovedFrame
    <2> HIDE DEF g
    <2> QED
      BY <2>1, <2>2, <2>3, RestingPush
  <1>3. CASE SyncDispatch(p)
    <2> DEFINE f == [Top(p) EXCEPT !.pc = "check"]
               e == NewFrame("batch", "swap", NoConn, NoMsg, FALSE)
               g == [e EXCEPT !.pc = "loop", !.rest = toDispatch[p]]
               b == Append(Front(stack[p]), f)
    <2>1. At(p, "sync", "dispatch") /\ stack' = [stack EXCEPT ![p] = Append(b, g)] /\ UNCHANGED client
      BY <1>3 DEF SyncDispatch, Swap, connVars
    <2>2. Top(p) \in Frame /\ Front(stack[p]) \in Seq(Frame)
      BY <2>1, TopWeight
    <2>3. f \in Frame
      BY <2>2, MovedFrame
    <2>4. g.pc = "loop" /\ "loop" # "blocked"
      BY DEF NewFrame
    <2> HIDE DEF g, f
    <2>5. b \in Seq(Frame)
      BY <2>2, <2>3, AppendProperties
    <2> HIDE DEF b
    <2> QED
      BY <2>1, <2>4, <2>5, RestingPush
  <1> QED
    BY <1>1, <1>2, <1>3

LEMMA RestingDispatches ==
    ASSUME IInv, Resting, NEW p \in Proc,
           \/ SwapMessages(p) \/ DispatchNext(p) \/ DispatchOneMessage(p) \/ DispatchMessagesTask(p)
    PROVE  Resting'
  <1>1. CASE SwapMessages(p)
    <2> DEFINE g == [Top(p) EXCEPT !.pc = "loop", !.rest = toDispatch[p]]
    <2>1. At(p, "batch", "swap") /\ stack' = [stack EXCEPT ![p] = Append(Front(stack[p]), g)] /\ UNCHANGED client
      BY <1>1 DEF SwapMessages, Swap, connVars
    <2>2. Top(p) \in Frame /\ Front(stack[p]) \in Seq(Frame)
      BY <2>1, TopWeight
    <2>3. g.pc = "loop" /\ "loop" # "blocked"
      BY <2>2 DEF Frame
    <2> HIDE DEF g
    <2> QED
      BY <2>1, <2>2, <2>3, RestingPush
  <1>2. CASE DispatchNext(p)
    <2> DEFINE f == Top(p)
               item == Head(f.rest)
               c == item.conn
               next == [f EXCEPT !.rest = Tail(@)]
               aside == [next EXCEPT !.held = Append(@, item)]
               b == Append(Front(stack[p]), next)
               g == NewFrame("handler", "run", c, item.msg, invalid[c])
    <2>1. At(p, "batch", "loop") /\ f.rest # <<>> /\ UNCHANGED client
      BY <1>2 DEF DispatchNext
    <2>2. /\ f \in Frame /\ f \in GoodFrame(p) /\ f.kind = "batch" /\ f.pc = "loop"
          /\ Front(stack[p]) \in Seq(Frame)
      BY <2>1, TopWeight
    <2>3. item \in HomeItem(p) /\ next \in GoodFrame(p) /\ next.kind = "batch" /\ aside.kind = "batch"
      <3>1. next = Advanced(f) /\ aside = SetAside(f) /\ WaitInv
        BY DEF Advanced, SetAside, IInv, WaitInv
      <3> HIDE DEF f, next, aside
      <3> QED
        BY <2>1, <2>2, <3>1, NextFrames
    <2>4. ProcOf[c] = p /\ next \in Frame
      BY <2>3 DEF HomeItem, Home, GoodFrame
    <2>5. \/ stack' = [stack EXCEPT ![p] = Append(Front(stack[p]), aside)]
          \/ stack' = [stack EXCEPT ![p] = b]
          \/ stack' = [stack EXCEPT ![p] = Append(b, g)]
      BY <1>2, <2>4 DEF DispatchNext, DispatchMessage, Replace
    <2>6. g.kind = "handler" /\ "handler" # "sync" /\ "batch" # "sync"
      BY DEF NewFrame
    <2> HIDE DEF f, item, c, next, aside, g
    <2>7. b \in Seq(Frame)
      BY <2>2, <2>4, AppendProperties
    <2>8. CASE stack' = [stack EXCEPT ![p] = Append(Front(stack[p]), aside)]
      BY <2>1, <2>2, <2>3, <2>6, <2>8, RestingPush
    <2>9. CASE stack' = [stack EXCEPT ![p] = b]
      BY <2>1, <2>2, <2>3, <2>6, <2>9, RestingPush
    <2>10. CASE stack' = [stack EXCEPT ![p] = Append(b, g)]
      <3> HIDE DEF b
      <3> QED
        BY <2>1, <2>6, <2>7, <2>10, RestingPush
    <2> QED
      BY <2>5, <2>8, <2>9, <2>10
  <1>3. CASE DispatchOneMessage(p)
    <2> DEFINE c == Head(runq[p]).conn
               m == Head(incoming[c])
               f == NewFrame("handler", "run", c, m, invalid[c])
    <2>1. stack[p] = <<>> /\ runq[p] # <<>> /\ UNCHANGED client
      BY <1>3 DEF DispatchOneMessage, NextTask
    <2>2. ProcOf[c] = p
      <3>1. runq[p] \in Seq(HomeTask(p))
        BY DEF IInv, Homes
      <3>2. Head(runq[p]) \in HomeTask(p)
        BY <2>1, <3>1, HeadTailProperties
      <3> QED
        BY <3>2 DEF HomeTask, Home
    <2>3. \/ UNCHANGED stack
          \/ stack' = [stack EXCEPT ![p] = <<>>]
          \/ stack' = [stack EXCEPT ![p] = Append(<<>>, f)]
      BY <1>3, <2>2 DEF DispatchOneMessage, DispatchMessage
    <2>4. f.kind = "handler" /\ "handler" # "sync"
      BY DEF NewFrame
    <2> HIDE DEF f
    <2>5. CASE stack' = [stack EXCEPT ![p] = Append(<<>>, f)]
      <3>1. <<>> \in Seq(Frame)
        BY EmptySeq
      <3> QED
        BY <2>1, <2>4, <2>5, <3>1, RestingPush
    <2>6. CASE UNCHANGED stack \/ stack' = [stack EXCEPT ![p] = <<>>]
      <3>1. UNCHANGED stack
        BY <2>1, <2>6 DEF IInv, WaitTypes
      <3> QED
        BY <2>1, <3>1, RestingSame
    <2> QED
      BY <2>3, <2>5, <2>6
  <1>4. CASE DispatchMessagesTask(p)
    <2> DEFINE f == NewFrame("batch", "swap", Head(runq[p]).conn, NoMsg, FALSE)
    <2>1. stack' = [stack EXCEPT ![p] = Append(stack[p], f)] /\ UNCHANGED client
      BY <1>4 DEF DispatchMessagesTask, Push, connVars
    <2>2. f.kind = "batch" /\ "batch" # "sync"
      BY DEF NewFrame
    <2>3. stack[p] \in Seq(Frame)
      BY TaskTypes
    <2> HIDE DEF f
    <2> QED
      BY <2>1, <2>2, <2>3, RestingPush
  <1> QED
    BY <1>1, <1>2, <1>3, <1>4

LEMMA RestingClient ==
    ASSUME IInv, Resting, NEW c \in Conn, SendSync(c) \/ Invalidate(c) PROVE Resting'
  <1> DEFINE p == ProcOf[c]
  <1>1. p \in Proc /\ stack[p] \in Seq(Frame) /\ client \in [Conn -> BOOLEAN]
    BY ConnAssumption DEF IInv, WaitTypes, ConnTypes
  <1>2. CASE SendSync(c)
    <2> DEFINE m == [kind |-> "sync", id |-> requestID[c] + 1, marked |-> ShouldMark(c, TRUE),
                     n |-> sent[c] + 1]
               f == NewFrame("sync", "dispatch", c, m, FALSE)
    <2>1. UNCHANGED client /\ (UNCHANGED stack \/ stack' = [stack EXCEPT ![p] = Append(stack[p], f)])
      BY <1>2 DEF SendSync, Push
    <2>2. f.pc = "dispatch" /\ "dispatch" # "blocked"
      BY DEF NewFrame
    <2> HIDE DEF f
    <2>3. CASE UNCHANGED stack
      BY <2>1, <2>3, RestingSame
    <2>4. CASE stack' = [stack EXCEPT ![p] = Append(stack[p], f)]
      BY <1>1, <2>1, <2>2, <2>4, RestingPush
    <2> QED
      BY <2>1, <2>3, <2>4
  <1>3. CASE Invalidate(c)
    <2>1. Running(p) /\ client' = [client EXCEPT ![c] = FALSE] /\ UNCHANGED stack
      BY <1>3 DEF Invalidate, procVars, mainVars
    <2>2. "handler" # "sync"
      OBVIOUS
    <2>3. ~AtTop(stack'[p], "sync", "blocked")
      BY <2>1, <2>2 DEF Running, Top, AtTop
    <2>4. \A x \in Conn : ProcOf[x] # p => client'[x] = client[x]
      BY <1>1, <2>1
    <2>5. Same(stack, stack', p)
      BY <2>1 DEF Same
    <2> HIDE DEF p
    <2> QED
      BY <1>1, <2>3, <2>4, <2>5, RestingStep
  <1> QED
    BY <1>2, <1>3

LEMMA RestingClose ==
    ASSUME IInv, Resting, NEW p \in Proc, DispatchConnectionDidClose(p) PROVE Resting'
  <1>1. stack[p] = <<>> /\ runq[p] # <<>> /\ UNCHANGED stack /\ client' = [client EXCEPT ![Head(runq[p]).conn] = FALSE]
    BY DEF DispatchConnectionDidClose, NextTask, mainVars
  <1>2. Head(runq[p]).conn \in Conn /\ ProcOf[Head(runq[p]).conn] = p
    <2>1. runq[p] \in Seq(HomeTask(p))
      BY DEF IInv, Homes
    <2>2. Head(runq[p]) \in HomeTask(p)
      BY <1>1, <2>1, HeadTailProperties
    <2> QED
      BY <2>2 DEF HomeTask, Home
  <1>3. client \in [Conn -> BOOLEAN]
    BY DEF IInv, ConnTypes
  <1>4. \A x \in Conn : ProcOf[x] # p => client'[x] = client[x]
    BY <1>1, <1>2, <1>3
  <1>5. ~AtTop(stack'[p], "sync", "blocked") /\ Same(stack, stack', p)
    BY <1>1 DEF AtTop, Same
  <1> QED
    BY <1>4, <1>5, RestingStep

LEMMA RestingStays == ASSUME IInv, Resting, [Next]_vars PROVE Resting'
  <1>1. CASE UNCHANGED vars
    <2>1. UNCHANGED <<client, stack>>
      BY <1>1 DEF vars, connVars, procVars, mainVars
    <2> QED
      BY <2>1, RestingSame
  <1>2. ASSUME NEW c \in Conn,
               \/ Client(c) \/ SendDelayedReply(c)
               \/ QueueThread(c) \/ SecondaryThread(c) \/ SecondaryReturn(c, TRUE)
        PROVE  Resting'
    <2>1. CASE SendSync(c) \/ Invalidate(c)
      BY <2>1, RestingClient
    <2>2. CASE Send(c) \/ SecondaryBegin(c) \/ PostConnectionDidClose(c) \/ Crash(c) \/ SendDelayedReply(c)
      <3>1. UNCHANGED <<client, stack>>
        BY <2>2 DEF Send, SecondaryBegin, PostConnectionDidClose, Crash, SendDelayedReply, procVars, mainVars
      <3> QED
        BY <3>1, RestingSame
    <2>3. CASE QueueThread(c)
      <3>1. UNCHANGED <<client, stack>>
        BY <2>3 DEF QueueThread, SendOutgoingMessages, PlatformInvalidate, ReadEndOfFile, PostedDidClose,
                  ConnectionDidClose, ProcessIncomingSyncReply, ProcessMarkedMessage,
                  WakeUpClientRunLoop, EnqueueIncomingMessage, procVars, mainVars
      <3> QED
        BY <3>1, RestingSame
    <2>4. CASE SecondaryThread(c) \/ SecondaryReturn(c, TRUE)
      <3>1. UNCHANGED <<client, stack>>
        BY <2>4 DEF SecondaryThread, SecondarySend, SecondaryReturn, procVars, mainVars
      <3> QED
        BY <3>1, RestingSame
    <2> QED
      BY <1>2, <2>1, <2>2, <2>3, <2>4 DEF Client
  <1>3. ASSUME NEW p \in Proc,
               MainThread(p) \/ MarkInvalid(p) \/ IncrementMarkedCount(p) \/ SyncTimeout(p)
        PROVE  Resting'
    <2>1. CASE EndDispatch(p) \/ PutBack(p)
      BY <2>1, RestingEnds
    <2>2. CASE SwapMessages(p) \/ DispatchNext(p) \/ DispatchOneMessage(p) \/ DispatchMessagesTask(p)
      BY <2>2, RestingDispatches
    <2>3. CASE SyncCheck(p) \/ SyncWake(p) \/ SyncDispatch(p)
      BY <2>3, RestingSync
    <2>4. CASE DispatchConnectionDidClose(p)
      BY <2>4, RestingClose
    <2>5. CASE SyncTimeout(p)
      <3>1. stack[p] # <<>> /\ SyncReturn(p, Top(p).conn, FALSE)
        BY <2>5 DEF SyncTimeout, At
      <3> QED
        BY <3>1, RestingReturns
    <2>6. CASE MarkInvalid(p)
      <3>1. UNCHANGED <<client, stack>>
        BY <2>6 DEF MarkInvalid, procVars, mainVars
      <3> QED
        BY <3>1, RestingSame
    <2>7. CASE IncrementMarkedCount(p)
      <3> DEFINE f == Raised(Top(p))
      <3>1. /\ f \in Frame /\ f.kind = "handler" /\ stack[p] # <<>>
            /\ stack' = [stack EXCEPT ![p] = Append(Front(stack[p]), f)]
        BY <2>7, RaisedFacts
      <3>2. Front(stack[p]) \in Seq(Frame) /\ UNCHANGED client
        BY <2>7, <3>1, FrontFacts DEF IncrementMarkedCount, IInv, WaitTypes
      <3>3. ~(f.kind = "sync" /\ f.pc = "blocked")
        BY <3>1
      <3> HIDE DEF f
      <3> QED
        BY <3>1, <3>2, <3>3, RestingPush
    <2> QED
      BY <1>3, <2>1, <2>2, <2>3, <2>4, <2>5, <2>6, <2>7 DEF MainThread
  <1> QED
    BY <1>1, <1>2, <1>3 DEF Next

-----------------------------------------------------------------------------
(* The inductive invariant of the second part, together with IInv, DInv    *)
(* and RInv.                                                               *)
SInv == SendersApart(Budgets) /\ Laden /\ Sound /\ Frugal /\ Unmarked /\ Closed /\ Resting

LEMMA SInvInit == ASSUME Init, SendersApart(Budgets) PROVE SInv
  <1>1. \A p \in Proc : stack[p] = <<>> /\ toDispatch[p] = <<>>
    BY DEF Init
  <1>2. \A c \in Conn : /\ outgoing[c] = <<>> /\ wire[c] = <<>> /\ incoming[c] = <<>> /\ queue[c] = <<>>
                        /\ ProcOf[c] \in Proc /\ connected[c] /\ delayed[c] = {}
    BY ConnAssumption DEF Init
  <1>3. \A x : ~Contains(<<>>, x)
    <2>1. Len(<<>>) = 0 /\ 1..0 = {}
      OBVIOUS
    <2> QED
      BY <2>1 DEF Contains
  <1>4. Laden
    BY <1>1 DEF Laden, Shape, AllMarked
  <1>5. Sound
    <2>1. ASSUME NEW c \in Conn PROVE Marks(c) /\ Untangled(c)
      <3>1. DOMAIN stack[ProcOf[c]] = {}
        BY <1>1, <1>2
      <3> QED
        BY <3>1 DEF Marks, MarkedCall, Untangled, Earlier
    <2> QED
      BY <2>1 DEF Sound
  <1>6. Frugal
    BY <1>2 DEF Frugal, Init, SendersApart
  <1>7. Unmarked
    BY <1>2, <1>3 DEF Unmarked
  <1>8. Closed
    BY <1>2, <1>3 DEF Closed, Shut
  <1>9. Resting
    BY <1>1 DEF Resting, AtTop
  <1> QED
    BY <1>4, <1>5, <1>6, <1>7, <1>8, <1>9 DEF SInv

LEMMA SInvStays == ASSUME IInv, IInv', DInv, RInv, SInv, [Next]_vars PROVE SInv'
  <1>1. Laden' /\ Sound' /\ Frugal' /\ Unmarked' /\ Resting'
    BY LadenStays, SoundStays, FrugalStays, UnmarkedStays, RestingStays DEF SInv
  <1>2. Closed'
    BY NextPaid, NextCuts, NextPosts, ClosedStays DEF SInv
  <1>3. SendersApart(Budgets)'
    BY DEF SInv, SendersApart
  <1> QED
    BY <1>1, <1>2, <1>3 DEF SInv

-----------------------------------------------------------------------------
(* Two main threads asleep in calls on the two ends of a connection.       *)
LEMMA AsleepFacts ==
    ASSUME IInv, DInv, SInv, NEW c \in Conn, BlockedOn(c), NEW s, s = stack[ProcOf[c]]
    PROVE  /\ ProcOf[c] \in Proc /\ s \in Seq(Frame) /\ s # <<>> /\ toDispatch[ProcOf[c]] = <<>>
           /\ Last(s) \in Frame /\ Last(s).kind = "sync" /\ Last(s).conn = c
           /\ Last(s).rest = <<>> /\ Last(s).held = <<>> /\ Last(s).msg.id \in Nat
           /\ Works(c) /\ InCall(c, Last(s).msg.id, FALSE)
  <1> DEFINE p == ProcOf[c]
             f == Last(stack[p])
  <1>1. p \in Proc
    BY ConnAssumption
  <1>2. At(p, "sync", "blocked") /\ Top(p).conn = c /\ ~semaphore[p] /\ ~Signalling(p) /\ alive[p]
    BY DEF BlockedOn, At
  <1>3. "sync" # "batch" /\ "blocked" # "dispatch"
    OBVIOUS
  <1>4. /\ stack[p] \in Seq(Frame) /\ stack[p] # <<>> /\ f \in Frame /\ f.kind = "sync" /\ f.pc = "blocked"
        /\ f.conn = c /\ f.rest = <<>> /\ f.held = <<>>
    BY <1>1, <1>2, <1>3, TopWeight
  <1>5. f.msg.id \in Nat
    BY <1>4 DEF Frame, Msg
  <1>6. GoodStack(p, stack[p]) /\ MessagesSignalled(p) /\ RepliesSignalled(p)
    BY <1>1 DEF IInv, Homes, Signalled
  <1>7. HasSync(stack[p])
    BY <1>4, PopFacts DEF HasSync
  <1>8. AtTop(stack[p], "sync", "blocked") /\ ~AtTop(stack[p], "sync", "dispatch")
    BY <1>3, <1>4 DEF AtTop
  <1>9. toDispatch[p] = <<>>
    BY <1>2, <1>6, <1>7, <1>8 DEF MessagesSignalled
  <1>10. ~Last(pending[c]).got /\ shouldWait[c]
    BY <1>2, <1>4, <1>6, <1>8 DEF RepliesSignalled
  <1>11. client[c]
    BY <1>1, <1>4, <1>8 DEF SInv, Resting
  <1>12. connected[c]
    BY <1>2, <1>10, <1>11 DEF SInv, Closed, Shut
  <1>13. Works(c)
    BY <1>2, <1>11, <1>12 DEF Works, SInv, Frugal, SendersApart
  <1>14. pending[c] \in Seq(PendingReply) /\ Matches(stack[p], c, pending[c]) /\ f \in SyncFrame(c)
    BY <1>1, <1>4 DEF IInv, WaitTypes, DInv, Matched, Home, SyncFrame
  <1>15. pending[c] # <<>> /\ f.msg.id = Last(pending[c]).id
    BY <1>4, <1>6, <1>14, MatchPop
  <1>16. InCall(c, f.msg.id, FALSE)
    <2>1. /\ Last(pending[c]) = pending[c][Len(pending[c])] /\ Len(pending[c]) \in DOMAIN pending[c]
          /\ Last(pending[c]) \in PendingReply
      BY <1>14, <1>15, FrontFacts, LenProperties
    <2>2. Last(pending[c]).got = FALSE
      BY <1>10, <2>1 DEF PendingReply
    <2> QED
      BY <1>15, <2>1, <2>2 DEF InCall
  <1> QED
    BY <1>1, <1>4, <1>5, <1>9, <1>13, <1>16

(* The request of the sleeping call is held or queued at the other end.    *)
LEMMA Owed ==
    ASSUME IInv, DInv, RInv, SInv, NEW c \in Conn, NEW d, d = Peer[c], BlockedOn(c), BlockedOn(d),
           Silent(c), Silent(d), NEW i, i = Last(stack[ProcOf[c]]).msg.id
    PROVE  \/ \E m \in Request(i) : Contains(incoming[d], m)
           \/ \E k \in DOMAIN stack[ProcOf[d]] : Carries(stack[ProcOf[d]][k], d, i)
  <1> DEFINE q == ProcOf[d]
  <1>1. d \in Conn
    BY PeerFacts
  <1>2. i \in Nat /\ Works(c) /\ InCall(c, i, FALSE)
    BY AsleepFacts
  <1>3. Works(d) /\ toDispatch[q] = <<>> /\ stack[q] \in Seq(Frame)
    BY <1>1, AsleepFacts
  <1>4. Tokens(c, i) = 1
    BY <1>2, <1>3 DEF RInv, Account
  <1>5. PartSums(d, i) /\ TokenSums(c, i)
    BY <1>1, <1>2, Sums
  <1>6. /\ Number(outgoing[c], Request(i)) = 0 /\ Number(wire[d], Request(i)) = 0
        /\ Number(outgoing[d], ReplyTo(i)) = 0 /\ Number(wire[c], ReplyTo(i)) = 0
    BY NumberOfEmpty DEF Silent
  <1>7. Unanswered(d, i) = 1
    BY <1>4, <1>5, <1>6 DEF TokenSums, PartSums
  <1>8. i \notin delayed[d]
    BY <1>1 DEF SInv, Frugal
  <1>9. Load(d, i, incoming[d], toDispatch[q], stack[q]) = 1
    BY <1>5, <1>7, <1>8 DEF PartSums
  <1>10. Number(toDispatch[q], RequestItem(d, i)) = 0
    BY <1>3, NumberOfEmpty
  <1>11. incoming[d] \in Seq(Msg) /\ toDispatch[q] \in Seq(Item)
    BY <1>1, ConnAssumption DEF IInv, ConnTypes, WaitTypes
  <1>12. Number(incoming[d], Request(i)) \in Nat /\ StackLoad(stack[q], d, i) \in Nat
    BY <1>3, <1>11, LoadParts
  <1>13. Number(incoming[d], Request(i)) # 0 \/ StackLoad(stack[q], d, i) # 0
    BY <1>9, <1>10, <1>12 DEF Load
  <1>14. ASSUME Number(incoming[d], Request(i)) # 0 PROVE \E m \in Request(i) : Contains(incoming[d], m)
    <2>1. \E k \in DOMAIN incoming[d] : incoming[d][k] \in Request(i)
      BY <1>11, <1>14, NumberZero
    <2>2. DOMAIN incoming[d] = 1..Len(incoming[d])
      BY <1>11, LenProperties
    <2> QED
      BY <2>1, <2>2 DEF Contains
  <1>15. ASSUME StackLoad(stack[q], d, i) # 0 PROVE \E k \in DOMAIN stack[q] : Carries(stack[q][k], d, i)
    BY <1>3, <1>15, CarriedLoad
  <1> QED
    BY <1>13, <1>14, <1>15

(* What holds a request is below the sleeping call.                        *)
LEMMA HeldBelow ==
    ASSUME IInv, DInv, SInv, NEW d \in Conn, BlockedOn(d), NEW s, s = stack[ProcOf[d]], NEW i,
           NEW k \in DOMAIN s, Carries(s[k], d, i)
    PROVE  k \in 1..Len(s) - 1 /\ Len(s) \in DOMAIN s /\ Last(s) = s[Len(s)] /\ DOMAIN s = 1..Len(s)
           /\ Len(s) \in Nat
  <1>1. /\ s \in Seq(Frame) /\ s # <<>> /\ Last(s).kind = "sync" /\ Last(s).rest = <<>> /\ Last(s).held = <<>>
    BY AsleepFacts
  <1>2. Len(s) \in Nat \ {0} /\ DOMAIN s = 1..Len(s) /\ Last(s) = s[Len(s)]
    BY <1>1, PopFacts
  <1>3. "sync" # "handler" /\ <<>> \o <<>> = <<>> /\ DOMAIN <<>> = {}
    OBVIOUS
  <1>4. ~Carries(Last(s), d, i)
    BY <1>1, <1>3 DEF Carries, Vectors, RequestHandler
  <1>5. k # Len(s)
    BY <1>2, <1>4
  <1> QED
    BY <1>2, <1>5

(* A sleeping call whose request reached the other end without a mark is   *)
(* a call of an OnlySend connection that dispatches no marked message.     *)
LEMMA PlainCall ==
    ASSUME IInv, DInv, SInv, NEW c \in Conn, BlockedOn(c), NEW s, s = stack[ProcOf[c]],
           GotPlain(Peer[c], Last(s).msg.id)
    PROVE  OnlySend[c] /\ \A m \in 1..Len(s) - 1 : s[m] \notin MarkedFrame(c)
  <1>1. /\ s \in Seq(Frame) /\ s # <<>> /\ Last(s).kind = "sync" /\ Last(s).conn = c
        /\ Last(s).msg.id \in Nat /\ ProcOf[c] \in Proc
    BY AsleepFacts
  <1>2. Len(s) \in DOMAIN s /\ Last(s) = s[Len(s)]
    BY <1>1, PopFacts
  <1>3. ~MarkedCall(c, Last(s).msg.id)
    BY <1>1 DEF SInv, Sound, Marks
  <1>4. ~Last(s).msg.marked
    BY <1>1, <1>2, <1>3 DEF MarkedCall
  <1>5. Shape(s)
    BY <1>1 DEF SInv, Laden
  <1> QED
    BY <1>1, <1>2, <1>4, <1>5 DEF Shape

LEMMA QueuedPlain ==
    ASSUME SInv, NEW d \in Conn, NEW i \in Nat, NEW m \in Request(i), Contains(incoming[d], m)
    PROVE  GotPlain(d, i)
  <1>1. m \in Msg /\ m.marked \in BOOLEAN
    BY DEF Request, Msg
  <1>2. ~m.marked
    BY <1>1 DEF SInv, Unmarked
  <1>3. m \in Plain(i)
    BY <1>1, <1>2 DEF Request, Plain
  <1> QED
    BY <1>3 DEF GotPlain

(* Such an end holds only requests that are not marked.                    *)
LEMMA HeldPlain ==
    ASSUME IInv, DInv, SInv, NEW d \in Conn, BlockedOn(d), NEW s, s = stack[ProcOf[d]], NEW i \in Nat,
           NEW k \in DOMAIN s, Carries(s[k], d, i),
           OnlySend[d], \A m \in 1..Len(s) - 1 : s[m] \notin MarkedFrame(d)
    PROVE  GotPlain(d, i)
  <1> DEFINE p == ProcOf[d]
  <1>1. /\ s \in Seq(Frame) /\ s # <<>> /\ Last(s).kind = "sync" /\ p \in Proc
    BY AsleepFacts
  <1>2. /\ k \in 1..Len(s) - 1 /\ Len(s) \in DOMAIN s /\ Last(s) = s[Len(s)]
        /\ DOMAIN s = 1..Len(s) /\ Len(s) \in Nat
    BY HeldBelow
  <1>3. s[k] \in Frame /\ s[k] \notin MarkedFrame(d)
    BY <1>1, <1>2
  <1>4. CASE s[k] \in RequestHandler(d, i)
    <2>1. s[k].kind = "handler" /\ s[k].conn = d /\ s[k].msg \in Request(i)
      BY <1>4 DEF RequestHandler
    <2>2. ~s[k].msg.marked
      BY <1>3, <2>1 DEF MarkedFrame
    <2>3. s[k].msg \in Plain(i)
      BY <2>1, <2>2 DEF Request, Plain
    <2>4. Handles(d, s[k].msg)
      BY <2>1 DEF Handles
    <2> QED
      BY <2>3, <2>4 DEF GotPlain
  <1>5. CASE \E j \in DOMAIN Vectors(s[k]) : Vectors(s[k])[j] \in RequestItem(d, i)
    <2>1. GoodStack(p, s)
      BY <1>1 DEF IInv, Homes
    <2>2. s[k] \in GoodFrame(p)
      BY <1>1, <1>2, <2>1 DEF GoodStack
    <2>3. <<>> \o <<>> = <<>> /\ DOMAIN <<>> = {}
      OBVIOUS
    <2>4. s[k].kind = "batch"
      BY <1>5, <2>2, <2>3 DEF GoodFrame, Vectors
    <2>5. Shape(s)
      BY <1>1 DEF SInv, Laden
    <2>6. k < Len(s) /\ k + 1 \in DOMAIN s
      BY <1>2
    <2>7. s[k + 1].kind = "handler" /\ s[k + 1].msg.marked
      BY <2>4, <2>5, <2>6 DEF Shape
    <2>8. "handler" # "sync" /\ "handler" # "batch"
      OBVIOUS
    <2>9. k + 1 \in 1..Len(s) - 1
      <3>1. k + 1 # Len(s)
        BY <1>1, <1>2, <2>7, <2>8
      <3> QED
        BY <1>2, <2>6, <3>1
    <2>10. s[k + 1] \in GoodFrame(p) /\ s[k + 1] \in Frame
      BY <1>1, <2>1, <2>6 DEF GoodStack
    <2>11. s[k + 1].conn \in Conn /\ ProcOf[s[k + 1].conn] = ProcOf[d]
      BY <2>7, <2>8, <2>10 DEF GoodFrame, Home
    <2>12. s[k + 1].conn = d
      BY <2>11 DEF SInv, SendersApart
    <2>13. s[k + 1] \in MarkedFrame(d)
      BY <2>7, <2>10, <2>12 DEF MarkedFrame
    <2> QED
      BY <2>9, <2>13
  <1> QED
    BY <1>4, <1>5 DEF Carries

(* If the request of c is queued at the other end, its request is nowhere. *)
LEMMA QueuedNotStuck ==
    ASSUME IInv, DInv, RInv, SInv, NEW c \in Conn, NEW d, d = Peer[c], BlockedOn(c), BlockedOn(d),
           Silent(c), Silent(d),
           \E m \in Request(Last(stack[ProcOf[c]]).msg.id) : Contains(incoming[d], m)
    PROVE  FALSE
  <1> DEFINE i == Last(stack[ProcOf[c]]).msg.id
             j == Last(stack[ProcOf[d]]).msg.id
             s == stack[ProcOf[c]]
  <1>1. d \in Conn /\ Peer[d] = c
    BY PeerFacts
  <1>2. i \in Nat /\ j \in Nat
    BY <1>1, AsleepFacts
  <1>3. GotPlain(d, i)
    <2> HIDE DEF i
    <2> QED
      BY <1>1, <1>2, QueuedPlain DEF i
  <1>4. OnlySend[c] /\ \A m \in 1..Len(s) - 1 : s[m] \notin MarkedFrame(c)
    BY <1>3, PlainCall
  <1>5. ~OnlySend[d]
    BY <1>4 DEF SInv, SendersApart
  <1>6. ~GotPlain(c, j)
    BY <1>1, <1>5, PlainCall
  <1>7. \/ \E m \in Request(j) : Contains(incoming[c], m)
        \/ \E k \in DOMAIN s : Carries(s[k], c, j)
    BY <1>1, Owed
  <1> HIDE DEF i, j, s
  <1>8. ASSUME NEW m \in Request(j), Contains(incoming[c], m) PROVE FALSE
    BY <1>2, <1>6, <1>8, QueuedPlain
  <1>9. ASSUME NEW k \in DOMAIN s, Carries(s[k], c, j) PROVE FALSE
    BY <1>2, <1>4, <1>6, <1>9, HeldPlain DEF s
  <1> QED
    BY <1>7, <1>8, <1>9

LEMMA NotStuck == IInv /\ DInv /\ RInv /\ SInv => SendersNotStuck
  <1> SUFFICES ASSUME IInv, DInv, RInv, SInv, NEW c \in Conn, BlockedOn(c), BlockedOn(Peer[c]),
                      Silent(c), Silent(Peer[c])
               PROVE  FALSE
    BY DEF SendersNotStuck
  <1> DEFINE d == Peer[c]
             s == stack[ProcOf[c]]
             t == stack[ProcOf[d]]
             i == Last(s).msg.id
             j == Last(t).msg.id
  <1>1. d \in Conn /\ Peer[d] = c
    BY PeerFacts
  <1>2. i \in Nat /\ Last(s).kind = "sync" /\ Last(s).conn = c
    BY AsleepFacts
  <1>3. j \in Nat /\ Last(t).kind = "sync" /\ Last(t).conn = d
    BY <1>1, AsleepFacts
  <1>4. \E k \in DOMAIN t : Carries(t[k], d, i)
    BY Owed, QueuedNotStuck
  <1>5. \E k \in DOMAIN s : Carries(s[k], c, j)
    BY <1>1, Owed, QueuedNotStuck
  <1>6. Earlier(t, d, j, i)
    <2>1. PICK k \in DOMAIN t : Carries(t[k], d, i)
      BY <1>4
    <2>2. k \in 1..Len(t) - 1 /\ Len(t) \in DOMAIN t /\ Last(t) = t[Len(t)]
      BY <1>1, <2>1, HeldBelow
    <2> QED
      BY <1>3, <2>1, <2>2 DEF Earlier
  <1>7. Earlier(s, c, i, j)
    <2>1. PICK k \in DOMAIN s : Carries(s[k], c, j)
      BY <1>5
    <2>2. k \in 1..Len(s) - 1 /\ Len(s) \in DOMAIN s /\ Last(s) = s[Len(s)]
      BY <2>1, HeldBelow
    <2> QED
      BY <1>2, <2>1, <2>2 DEF Earlier
  <1>8. Untangled(c)
    BY DEF SInv, Sound
  <1> QED
    BY <1>2, <1>3, <1>6, <1>7, <1>8 DEF Untangled

(* For any number of processes and connections and any depth of nested     *)
(* calls, two main threads never sleep in waitForSyncReply on the two ends *)
(* of one connection with nothing on its way: the deadlock that marking    *)
(* messages is meant to avoid (the comment in processIncomingMessage).     *)
(* SendersApart is needed: without any one of its parts TLC finds such a   *)
(* pair.                                                                   *)
THEOREM SendersDoNotDeadlock == SendersApart(Budgets) /\ Spec => []SendersNotStuck
  <1>1. IInv /\ [Next]_vars => IInv'
    BY NextInv
  <1>2. SendersApart(Budgets) /\ Init => SInv
    BY SInvInit
  <1>3. IInv /\ IInv' /\ DInv /\ RInv /\ SInv /\ [Next]_vars => SInv'
    BY SInvStays
  <1> QED
    BY <1>1, <1>2, <1>3, DInvHolds, RInvHolds, NotStuck, PTL DEF Spec
=============================================================================
