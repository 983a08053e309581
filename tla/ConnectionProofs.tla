-------------------------- MODULE ConnectionProofs --------------------------
(***************************************************************************)
(* Connection is type correct and loses no wake-up, for any number of      *)
(* processes and connections and any depth of nested synchronous calls.    *)
(*                                                                         *)
(* NoLostWakeup is not inductive.  IInv adds the shape of the call stacks  *)
(* (Homes), that a connection has one pending reply for each of its calls  *)
(* on the stack (Counts: why connectionDidClose, which signals only if     *)
(* there is a pending reply, wakes a sleeping call), and that messages are *)
(* signalled all through a wait, not only while it sleeps (Signalled).     *)
(* The lemmas named Step say that an action keeps IInv; the ones named     *)
(* Types are about actions that leave the variables of a wait alone.       *)
(***************************************************************************)
EXTENDS ConnectionProperties, SequenceTheorems, FiniteSetTheorems, TLAPS

LEMMA FrontFacts ==
    ASSUME NEW S, NEW s \in Seq(S), s # <<>>
    PROVE  /\ Front(s) \in Seq(S)
           /\ Len(s) \in Nat \ {0}
           /\ Len(Front(s)) = Len(s) - 1
           /\ \A k \in 1..Len(s) - 1 : Front(s)[k] = s[k]
           /\ Last(s) = s[Len(s)] /\ Last(s) \in S
  <1>1. Len(s) \in Nat /\ Len(s) # 0
    BY EmptySeq
  <1>2. \A k \in 1..Len(s) : s[k] \in S
    BY ElementOfSeq
  <1>3. Len(s) - 1 \in Int /\ 1 \in Int
    BY <1>1
  <1>4. \A k \in 1..Len(s) - 1 : s[k] \in S
    BY <1>1, <1>2
  <1>5. /\ SubSeq(s, 1, Len(s) - 1) \in Seq(S)
        /\ Len(SubSeq(s, 1, Len(s) - 1)) = Len(s) - 1
        /\ \A k \in 1..Len(s) - 1 : SubSeq(s, 1, Len(s) - 1)[k] = s[k]
    <2> DEFINE n == Len(s) - 1
    <2>1. n \in Int /\ n \in Nat /\ n - 1 + 1 = n
      BY <1>1
    <2>2. \A k \in 1..n : s[k] \in S
      BY <1>4
    <2> HIDE DEF n
    <2>3. /\ SubSeq(s, 1, n) \in Seq(S)
          /\ Len(SubSeq(s, 1, n)) = IF 1 <= n THEN n - 1 + 1 ELSE 0
          /\ \A k \in 1..n - 1 + 1 : SubSeq(s, 1, n)[k] = s[1 + k - 1]
      BY <2>1, <2>2, SubSeqProperties
    <2>4. Len(SubSeq(s, 1, n)) = n /\ \A k \in 1..n : SubSeq(s, 1, n)[k] = s[k]
      BY <2>1, <2>3
    <2> QED
      BY <2>3, <2>4 DEF n
  <1> QED
    BY <1>1, <1>2, <1>5 DEF Front, Last

LEMMA NumberIsNat == ASSUME NEW S, NEW s \in Seq(S), NEW P
                     PROVE  Number(s, P) \in Nat
  <1>1. IsFiniteSet(1..Len(s))
    BY LenProperties, FS_Interval
  <1>2. IsFiniteSet({k \in DOMAIN s : s[k] \in P})
    BY <1>1, FS_Subset, LenProperties
  <1> QED
    BY <1>2, FS_CardinalityType DEF Number

LEMMA NumberOfEmpty == ASSUME NEW P PROVE Number(<<>>, P) = 0
  <1>1. {k \in DOMAIN <<>> : (<<>>)[k] \in P} = {}
    OBVIOUS
  <1> QED
    BY <1>1, FS_EmptySet DEF Number

LEMMA NumberAppend ==
    ASSUME NEW S, NEW s \in Seq(S), NEW e \in S, NEW P
    PROVE  Number(Append(s, e), P) = Number(s, P) + IF e \in P THEN 1 ELSE 0
  <1> DEFINE A == {k \in DOMAIN s : s[k] \in P}
             B == {k \in DOMAIN Append(s, e) : Append(s, e)[k] \in P}
  <1>1. /\ Len(s) \in Nat /\ DOMAIN s = 1..Len(s) /\ DOMAIN Append(s, e) = 1..Len(s) + 1
        /\ Append(s, e)[Len(s) + 1] = e /\ \A k \in 1..Len(s) : Append(s, e)[k] = s[k]
    BY AppendProperties, LenProperties
  <1>2. IsFiniteSet(A)
    <2>1. IsFiniteSet(1..Len(s))
      BY <1>1, FS_Interval
    <2>2. A \in SUBSET (1..Len(s))
      BY <1>1
    <2> QED
      BY <2>1, <2>2, FS_Subset
  <1>3. CASE e \in P
    <2>1. B = A \cup {Len(s) + 1} /\ Len(s) + 1 \notin A
      BY <1>1, <1>3
    <2> QED
      BY <1>2, <1>3, <2>1, FS_AddElement DEF Number
  <1>4. CASE e \notin P
    <2>1. B = A
      BY <1>1, <1>4
    <2>2. Cardinality(A) \in Nat
      BY <1>2, FS_CardinalityType
    <2>3. Number(Append(s, e), P) = Cardinality(B) /\ Number(s, P) = Cardinality(A)
      BY DEF Number
    <2> HIDE DEF A, B
    <2> QED
      BY <1>4, <2>1, <2>2, <2>3
  <1> QED
    BY <1>3, <1>4

LEMMA AppendFront ==
    ASSUME NEW S, NEW s \in Seq(S), s # <<>>
    PROVE  s = Append(Front(s), Last(s))
  <1>1. /\ Front(s) \in Seq(S) /\ Len(s) \in Nat \ {0} /\ Len(Front(s)) = Len(s) - 1
        /\ \A k \in 1..Len(s) - 1 : Front(s)[k] = s[k]
        /\ Last(s) = s[Len(s)] /\ Last(s) \in S
    BY FrontFacts
  <1> DEFINE t == Append(Front(s), Last(s))
  <1>2. /\ t \in Seq(S) /\ Len(t) = Len(s) /\ t[Len(s)] = Last(s)
        /\ \A k \in 1..Len(s) - 1 : t[k] = Front(s)[k]
    BY <1>1, AppendProperties
  <1> HIDE DEF t
  <1>3. \A k \in 1..Len(s) : t[k] = s[k]
    BY <1>1, <1>2
  <1>4. Len(s) = Len(t) /\ t \in Seq(S)
    BY <1>2
  <1>5. s = t
    BY <1>3, <1>4, SeqEqual, Zenon
  <1> QED
    BY <1>5 DEF t

LEMMA NumberFront ==
    ASSUME NEW S, NEW s \in Seq(S), s # <<>>, NEW P
    PROVE  Number(s, P) = Number(Front(s), P) + IF Last(s) \in P THEN 1 ELSE 0
  <1>1. Front(s) \in Seq(S) /\ Last(s) \in S
    BY FrontFacts
  <1>2. Number(Append(Front(s), Last(s)), P) =
            Number(Front(s), P) + IF Last(s) \in P THEN 1 ELSE 0
    BY <1>1, NumberAppend
  <1>3. s = Append(Front(s), Last(s))
    BY AppendFront
  <1> QED
    BY <1>2, <1>3, Zenon

LEMMA NumberPositive ==
    ASSUME NEW S, NEW s \in Seq(S), s # <<>>, NEW P, Last(s) \in P
    PROVE  Number(s, P) # 0
  BY FrontFacts, NumberFront, NumberIsNat

-----------------------------------------------------------------------------
(* Sequences that are fields of a connection or a process.                 *)
LEMMA FunctionIsSeq ==
    ASSUME NEW S, NEW n \in Nat, NEW f \in [1..n -> S]
    PROVE  f \in Seq(S) /\ Len(f) = n
  OBVIOUS

LEMMA AppendAt ==
    ASSUME NEW I, NEW S, NEW f \in [I -> Seq(S)], NEW i \in I, NEW e \in S
    PROVE  [f EXCEPT ![i] = Append(@, e)] \in [I -> Seq(S)]
  OBVIOUS

LEMMA ConcatAt ==
    ASSUME NEW I, NEW S, NEW f \in [I -> Seq(S)], NEW i \in I, NEW e \in Seq(S)
    PROVE  [f EXCEPT ![i] = @ \o e] \in [I -> Seq(S)]
  OBVIOUS

LEMMA TailAt ==
    ASSUME NEW I, NEW S, NEW f \in [I -> Seq(S)], NEW i \in I, f[i] # <<>>
    PROVE  [f EXCEPT ![i] = Tail(@)] \in [I -> Seq(S)]
  BY HeadTailProperties

LEMMA PieceOfSeq ==
    ASSUME NEW S, NEW s \in Seq(S), NEW k \in DOMAIN s
    PROVE  SubSeq(s, 1, k - 1) \in Seq(S) /\ SubSeq(s, k + 1, Len(s)) \in Seq(S)
  <1>1. Len(s) \in Nat /\ DOMAIN s = 1..Len(s) /\ \A i \in 1..Len(s) : s[i] \in S
    BY LenProperties, ElementOfSeq
  <1>2. /\ k - 1 \in Int /\ k + 1 \in Int /\ Len(s) \in Int /\ 1 \in Int
        /\ \A i \in 1..k - 1 : s[i] \in S
        /\ \A i \in k + 1..Len(s) : s[i] \in S
    BY <1>1
  <1>3. SubSeq(s, 1, k - 1) \in Seq(S)
    BY <1>2, SubSeqProperties
  <1>4. SubSeq(s, k + 1, Len(s)) \in Seq(S)
    BY <1>2, SubSeqProperties
  <1> QED
    BY <1>3, <1>4

-----------------------------------------------------------------------------
(* What is known of a stack.  The frames, messages and tasks of a process  *)
(* belong to its own connections; only dispatchMessages(0), which sets     *)
(* nothing aside, runs inside another call; a waitForSyncReply below the   *)
(* top of the stack is in its call of dispatchMessages; and only           *)
(* dispatchMessages has messages, once it has swapped them in.             *)
Home(p) == {c \in Conn : ProcOf[c] = p}

HomeItem(p) == [conn : Home(p), msg : Msg]

HomeTask(p) == [kind : {"one", "sync", "close"}, conn : Home(p)]

GoodFrame(p) ==
    {f \in Frame : /\ f.kind # "batch" => f.conn \in Home(p) /\ f.rest = <<>> /\ f.held = <<>>
                   /\ f.kind = "batch" /\ f.conn = NoConn => f.held = <<>>
                   /\ f.rest \in Seq(HomeItem(p))
                   /\ f.held \in Seq(HomeItem(p))
                   /\ f.pc = "swap" => f.rest = <<>>}

GoodStack(p, s) ==
    /\ s \in Seq(GoodFrame(p))
    /\ \A k \in DOMAIN s : s[k].kind = "batch" /\ s[k].conn # NoConn => k = 1
    /\ \A k \in DOMAIN s : s[k].kind = "sync" /\ k < Len(s) => s[k].pc = "check"

HasSync(s) == \E k \in DOMAIN s : s[k].kind = "sync"

LEMMA GoodEmpty == ASSUME NEW p PROVE GoodStack(p, <<>>)
  BY EmptySeq DEF GoodStack

LEMMA GoodTop ==
    ASSUME NEW p, NEW s, GoodStack(p, s), s # <<>>
    PROVE  /\ Last(s) \in GoodFrame(p) /\ Last(s) \in Frame
           /\ GoodStack(p, Front(s))
           /\ HasSync(Front(s)) => HasSync(s)
           /\ Front(s) # <<>> => Last(Front(s)).kind # "sync" \/ Last(Front(s)).pc = "check"
           /\ Last(s).kind = "batch" /\ Last(s).conn # NoConn => Front(s) = <<>>
  <1>1. /\ Front(s) \in Seq(GoodFrame(p)) /\ Len(s) \in Nat \ {0}
        /\ Len(Front(s)) = Len(s) - 1
        /\ \A k \in 1..Len(s) - 1 : Front(s)[k] = s[k]
        /\ Last(s) = s[Len(s)] /\ Last(s) \in GoodFrame(p)
    BY FrontFacts DEF GoodStack
  <1>2. DOMAIN s = 1..Len(s) /\ DOMAIN Front(s) = 1..Len(s) - 1
    BY <1>1, LenProperties DEF GoodStack
  <1>3. Last(s) \in Frame
    BY <1>1 DEF GoodFrame
  <1>4. GoodStack(p, Front(s))
    BY <1>1, <1>2 DEF GoodStack
  <1>5. HasSync(Front(s)) => HasSync(s)
    BY <1>1, <1>2 DEF HasSync
  <1>6. Front(s) # <<>> => Last(Front(s)).kind # "sync" \/ Last(Front(s)).pc = "check"
    <2> SUFFICES ASSUME Front(s) # <<>>
                 PROVE  Last(Front(s)).kind # "sync" \/ Last(Front(s)).pc = "check"
      OBVIOUS
    <2>1. Last(Front(s)) = Front(s)[Len(Front(s))] /\ Len(Front(s)) \in Nat \ {0}
      BY <1>1, FrontFacts
    <2>2. Len(s) - 1 \in 1..Len(s) - 1 /\ Len(s) - 1 \in DOMAIN s /\ Len(s) - 1 < Len(s)
      BY <1>1, <1>2, <2>1
    <2>3. Last(Front(s)) = s[Len(s) - 1]
      BY <1>1, <2>1, <2>2
    <2> QED
      BY <2>2, <2>3 DEF GoodStack
  <1>7. Last(s).kind = "batch" /\ Last(s).conn # NoConn => Front(s) = <<>>
    <2>1. Last(s).kind = "batch" /\ Last(s).conn # NoConn => Len(s) = 1
      BY <1>1, <1>2 DEF GoodStack
    <2>2. Front(s) # <<>> => Len(Front(s)) # 0
      BY <1>1, EmptySeq
    <2> QED
      BY <1>1, <2>1, <2>2
  <1> QED
    BY <1>1, <1>3, <1>4, <1>5, <1>6, <1>7

LEMMA GoodPush ==
    ASSUME NEW p, NEW s, GoodStack(p, s), NEW f \in GoodFrame(p),
           f.kind = "batch" /\ f.conn # NoConn => s = <<>>,
           s # <<>> => Last(s).kind # "sync" \/ Last(s).pc = "check"
    PROVE  /\ GoodStack(p, Append(s, f))
           /\ Append(s, f) # <<>> /\ Last(Append(s, f)) = f
           /\ f.kind # "sync" /\ HasSync(Append(s, f)) => HasSync(s)
  <1> DEFINE t == Append(s, f)
  <1>1. /\ Len(s) \in Nat /\ DOMAIN s = 1..Len(s)
        /\ t \in Seq(GoodFrame(p)) /\ t # <<>> /\ Len(t) = Len(s) + 1
        /\ \A k \in 1..Len(s) : t[k] = s[k]
        /\ t[Len(s) + 1] = f
    BY AppendProperties, LenProperties DEF GoodStack
  <1> HIDE DEF t
  <1>2. DOMAIN t = 1..Len(s) + 1
    BY <1>1, LenProperties
  <1>3. Last(t) = f
    BY <1>1 DEF Last
  <1>4. \A k \in DOMAIN t : t[k].kind = "batch" /\ t[k].conn # NoConn => k = 1
    <2> SUFFICES ASSUME NEW k \in DOMAIN t, t[k].kind = "batch", t[k].conn # NoConn
                 PROVE  k = 1
      OBVIOUS
    <2>1. CASE k \in 1..Len(s)
      BY <1>1, <2>1 DEF GoodStack
    <2>2. CASE k = Len(s) + 1
      <3>1. s = <<>>
        BY <1>1, <2>2
      <3>2. Len(s) = 0
        BY <3>1, EmptySeq
      <3> QED
        BY <2>2, <3>2
    <2> QED
      BY <1>1, <1>2, <2>1, <2>2
  <1>5. \A k \in DOMAIN t : t[k].kind = "sync" /\ k < Len(t) => t[k].pc = "check"
    <2> SUFFICES ASSUME NEW k \in DOMAIN t, t[k].kind = "sync", k < Len(t)
                 PROVE  t[k].pc = "check"
      OBVIOUS
    <2>1. k \in 1..Len(s) /\ t[k] = s[k]
      BY <1>1, <1>2
    <2>2. CASE k < Len(s)
      BY <1>1, <2>1, <2>2 DEF GoodStack
    <2>3. CASE k = Len(s)
      <3>1. s # <<>>
        BY <1>1, <2>1, EmptySeq
      <3>2. Last(s) = s[k]
        BY <2>3 DEF Last
      <3> QED
        BY <2>1, <3>1, <3>2
    <2> QED
      BY <1>1, <2>1, <2>2, <2>3
  <1>6. f.kind # "sync" /\ HasSync(t) => HasSync(s)
    BY <1>1, <1>2 DEF HasSync
  <1>7. GoodStack(p, t)
    BY <1>1, <1>4, <1>5 DEF GoodStack
  <1> QED
    BY <1>1, <1>3, <1>6, <1>7 DEF t

-----------------------------------------------------------------------------
(* The calls of sendSyncMessage on c, and the handlers of marked messages  *)
(* of c, among the frames of a stack.                                      *)
SyncFrame(c) == {f \in Frame : f.kind = "sync" /\ f.conn = c}

MarkedFrame(c) == {f \in Frame : f.kind = "handler" /\ f.conn = c /\ f.msg.marked}

(* The inductive invariant.  ConnTypes and WaitTypes are TypeOK, except    *)
(* that the counts of marked messages are integers only.                   *)
WorkItem == {"send", "invalidate", "didClose"}

PendingReply == [id : Nat, got : BOOLEAN]

SecondaryCall == [pc : {"idle", "send", "blocked"}, id : Nat, got : BOOLEAN, set : BOOLEAN]

ConnTypes ==
    /\ client \in [Conn -> BOOLEAN]
    /\ connected \in [Conn -> BOOLEAN]
    /\ outgoing \in [Conn -> Seq(Msg)]
    /\ incoming \in [Conn -> Seq(Msg)]
    /\ invalid \in [Conn -> BOOLEAN]
    /\ secondary \in [Conn -> SecondaryCall]
    /\ delayed \in [Conn -> SUBSET Nat]
    /\ queue \in [Conn -> Seq(WorkItem)]
    /\ wire \in [Conn -> Seq(Msg)]
    /\ requestID \in [Conn -> Nat]
    /\ scheduled \in [Proc -> SUBSET Conn]
    /\ alive \in [Proc -> BOOLEAN]
    /\ sent \in [Conn -> Nat]
    /\ left \in [Conn -> [Ops -> Nat]]

WaitTypes ==
    /\ pending \in [Conn -> Seq(PendingReply)]
    /\ shouldWait \in [Conn -> BOOLEAN]
    /\ queuePc \in [Conn -> {"idle", "signal"}]
    /\ semaphore \in [Proc -> BOOLEAN]
    /\ marked \in [Conn -> Int]
    /\ stack \in [Proc -> Seq(Frame)]
    /\ runq \in [Proc -> Seq(Task)]
    /\ toDispatch \in [Proc -> Seq(Item)]

Homes == \A p \in Proc : /\ GoodStack(p, stack[p])
                         /\ runq[p] \in Seq(HomeTask(p))
                         /\ toDispatch[p] \in Seq(HomeItem(p))

(* A pending reply for every call in progress, and a count for every       *)
(* handler of a marked message.                                            *)
Counts == \A c \in Conn : LET s == stack[ProcOf[c]] IN
              /\ Len(pending[c]) = Number(s, SyncFrame(c))
              /\ marked[c] = Number(s, MarkedFrame(c))

AtTop(s, kind, pc) == s # <<>> /\ Last(s).kind = kind /\ Last(s).pc = pc

(* Anywhere inside a waitForSyncReply, except just before it calls         *)
(* dispatchMessages: messages to dispatch come with a signal.              *)
MessagesSignalled(p) ==
    /\ HasSync(stack[p])
    /\ ~AtTop(stack[p], "sync", "dispatch")
    /\ toDispatch[p] # <<>>
    => semaphore[p] \/ Signalling(p)

(* While it sleeps: so do its reply and the close of its connection.       *)
RepliesSignalled(p) ==
    AtTop(stack[p], "sync", "blocked") =>
        LET c == Last(stack[p]).conn
        IN  Last(pending[c]).got \/ ~shouldWait[c] => semaphore[p]

Signalled == \A p \in Proc : MessagesSignalled(p) /\ RepliesSignalled(p)

IInv == ConnTypes /\ WaitTypes /\ Homes /\ Counts /\ Signalled

-----------------------------------------------------------------------------
(* The types of what a step does to a connection.                          *)
LEMMA SendMessageTypes ==
    ASSUME ConnTypes, NEW c \in Conn, NEW m \in Msg, SendMessage(c, m)
    PROVE  outgoing' \in [Conn -> Seq(Msg)] /\ queue' \in [Conn -> Seq(WorkItem)]
  <1>1. outgoing \in [Conn -> Seq(Msg)] /\ queue \in [Conn -> Seq(WorkItem)]
    BY DEF ConnTypes
  <1>2. "send" \in WorkItem
    BY DEF WorkItem
  <1>3. [outgoing EXCEPT ![c] = Append(@, m)] \in [Conn -> Seq(Msg)]
    BY <1>1, AppendAt
  <1>4. [queue EXCEPT ![c] = Append(@, "send")] \in [Conn -> Seq(WorkItem)]
    BY <1>1, <1>2, AppendAt
  <1> QED
    BY <1>1, <1>3, <1>4 DEF SendMessage, outVars

LEMMA SpendTypes ==
    ASSUME ConnTypes, NEW c \in Conn, NEW op \in Ops, Spend(c, op)
    PROVE  left' \in [Conn -> [Ops -> Nat]]
  BY DEF ConnTypes, Spend

LEMMA MessageTypes ==
    ASSUME NEW kind \in {"async", "sync", "reply"}, NEW id \in Nat, NEW flag \in BOOLEAN,
           NEW n \in Nat
    PROVE  [kind |-> kind, id |-> id, marked |-> flag, n |-> n] \in Msg
  BY DEF Msg

LEMMA ShouldMarkType ==
    ASSUME NEW c, NEW flag
    PROVE  ShouldMark(c, flag) \in BOOLEAN
  BY DEF ShouldMark

waitVars == <<pending, shouldWait, queuePc, semaphore, marked, stack, runq, toDispatch>>

(* The steps that only change the other fields of a connection.            *)
LEMMA SendTypes == ASSUME ConnTypes, NEW c \in Conn, Send(c) PROVE ConnTypes' /\ UNCHANGED waitVars
  <1>1. PICK op \in {"async", "urgent"} :
            /\ Spend(c, op)
            /\ SendMessage(c, [kind |-> "async", id |-> 0,
                               marked |-> ShouldMark(c, op = "urgent"), n |-> sent[c] + 1])
    BY DEF Send
  <1>2. [kind |-> "async", id |-> 0, marked |-> ShouldMark(c, op = "urgent"),
         n |-> sent[c] + 1] \in Msg
    <2>1. ShouldMark(c, op = "urgent") \in BOOLEAN
      BY ShouldMarkType, Zenon
    <2>2. sent[c] + 1 \in Nat
      BY DEF ConnTypes
    <2> QED
      BY <2>1, <2>2, MessageTypes
  <1>3. left' \in [Conn -> [Ops -> Nat]]
    BY <1>1, SpendTypes DEF Ops
  <1>4. outgoing' \in [Conn -> Seq(Msg)] /\ queue' \in [Conn -> Seq(WorkItem)]
    BY <1>1, <1>2, SendMessageTypes
  <1>5. sent' \in [Conn -> Nat]
    BY DEF Send, ConnTypes
  <1> QED
    BY <1>3, <1>4, <1>5 DEF Send, ConnTypes, waitVars, dispatchVars, replyVars, otherVars,
                      socketVars, procVars, loopVars, mainVars

LEMMA SendDelayedReplyTypes ==
    ASSUME ConnTypes, NEW c \in Conn, SendDelayedReply(c) PROVE ConnTypes' /\ UNCHANGED waitVars
  <1>1. PICK i \in delayed[c] : /\ SendMessage(c, Reply(i))
                                /\ delayed' = [delayed EXCEPT ![c] = @ \ {i}]
    BY DEF SendDelayedReply
  <1>2. Reply(i) \in Msg
    BY DEF ConnTypes, Reply, Msg
  <1>3. outgoing' \in [Conn -> Seq(Msg)] /\ queue' \in [Conn -> Seq(WorkItem)]
    BY <1>1, <1>2, SendMessageTypes
  <1>4. delayed' \in [Conn -> SUBSET Nat]
    BY <1>1 DEF ConnTypes
  <1> QED
    BY <1>3, <1>4 DEF SendDelayedReply, ConnTypes, waitVars, dispatchVars, replyVars,
                      socketVars, procVars, loopVars, mainVars, countVars

LEMMA InvalidateTypes ==
    ASSUME ConnTypes, NEW c \in Conn, Invalidate(c) \/ PostConnectionDidClose(c)
    PROVE  ConnTypes' /\ UNCHANGED waitVars
  <1>1. left' \in [Conn -> [Ops -> Nat]]
    BY SpendTypes DEF Invalidate, PostConnectionDidClose, Ops
  <1>2. queue' \in [Conn -> Seq(WorkItem)]
    <2>1. queue \in [Conn -> Seq(WorkItem)] /\ "invalidate" \in WorkItem /\ "didClose" \in WorkItem
      BY DEF ConnTypes, WorkItem
    <2>2. /\ [queue EXCEPT ![c] = Append(@, "invalidate")] \in [Conn -> Seq(WorkItem)]
          /\ [queue EXCEPT ![c] = Append(@, "didClose")] \in [Conn -> Seq(WorkItem)]
      BY <2>1, AppendAt
    <2> QED
      BY <2>2 DEF Invalidate, PostConnectionDidClose
  <1> QED
    BY <1>1, <1>2 DEF Invalidate, PostConnectionDidClose, ConnTypes, waitVars, dispatchVars,
                      replyVars, otherVars, socketVars, procVars, loopVars, mainVars

LEMMA SecondaryTypes ==
    ASSUME ConnTypes, NEW c \in Conn,
           \/ SecondaryBegin(c) \/ SecondarySend(c)
           \/ SecondaryReturn(c, FALSE) \/ SecondaryReturn(c, TRUE)
    PROVE  ConnTypes' /\ UNCHANGED waitVars
  <1>1. CASE SecondaryBegin(c)
    <2>1. left' \in [Conn -> [Ops -> Nat]]
      BY <1>1, SpendTypes DEF SecondaryBegin, Ops
    <2>2. secondary' \in [Conn -> SecondaryCall] /\ requestID' \in [Conn -> Nat]
      <3>1. requestID[c] + 1 \in Nat
        BY DEF ConnTypes
      <3>2. [pc |-> "send", id |-> requestID[c] + 1, got |-> FALSE, set |-> FALSE]
                \in SecondaryCall
        BY <3>1 DEF SecondaryCall
      <3> QED
        BY <1>1, <3>1, <3>2 DEF SecondaryBegin, ConnTypes
    <2> QED
      BY <1>1, <2>1, <2>2 DEF SecondaryBegin, ConnTypes, waitVars, dispatchVars, outVars,
                         socketVars, procVars, loopVars, mainVars
  <1>2. CASE SecondarySend(c)
    <2>1. [kind |-> "sync", id |-> secondary[c].id, marked |-> ShouldMark(c, FALSE),
           n |-> sent[c] + 1] \in Msg
      <3>1. ShouldMark(c, FALSE) \in BOOLEAN
        BY ShouldMarkType, Zenon
      <3>2. sent[c] + 1 \in Nat /\ secondary[c].id \in Nat
        BY DEF ConnTypes, SecondaryCall
      <3> QED
        BY <3>1, <3>2, MessageTypes
    <2>2. outgoing' \in [Conn -> Seq(Msg)] /\ queue' \in [Conn -> Seq(WorkItem)]
      BY <1>2, <2>1, SendMessageTypes DEF SecondarySend
    <2>3. secondary' \in [Conn -> SecondaryCall]
      <3>1. secondary \in [Conn -> SecondaryCall] /\ secondary' = [secondary EXCEPT ![c].pc = "blocked"]
        BY <1>2 DEF SecondarySend, ConnTypes
      <3> QED
        BY ONLY <3>1 DEF SecondaryCall
    <2> QED
      BY <1>2, <2>2, <2>3 DEF SecondarySend, ConnTypes, waitVars, dispatchVars, replyVars,
                              socketVars, procVars, loopVars, mainVars
  <1>3. CASE SecondaryReturn(c, FALSE) \/ SecondaryReturn(c, TRUE)
    <2>1. left' \in [Conn -> [Ops -> Nat]]
      BY <1>3, SpendTypes DEF SecondaryReturn, Ops, ConnTypes
    <2>2. secondary' \in [Conn -> SecondaryCall]
      <3>1. NoCall \in SecondaryCall
        BY DEF NoCall, SecondaryCall
      <3> QED
        BY <1>3, <3>1 DEF SecondaryReturn, ConnTypes
    <2> QED
      BY <1>3, <2>1, <2>2 DEF SecondaryReturn, ConnTypes, waitVars, dispatchVars, replyVars,
                              outVars, socketVars, procVars, loopVars, mainVars
  <1> QED
    BY <1>1, <1>2, <1>3

LEMMA SendOutgoingTypes ==
    ASSUME ConnTypes, NEW c \in Conn, SendOutgoingMessages(c)
    PROVE  ConnTypes' /\ UNCHANGED waitVars
  <1> DEFINE out == outgoing[c]
  <1>1. Peer[c] \in Conn /\ out \in Seq(Msg) /\ queue[c] # <<>>
    BY ConnAssumption DEF ConnTypes, SendOutgoingMessages, NextWork
  <1>2. queue' \in [Conn -> Seq(WorkItem)]
    BY <1>1, TailAt DEF ConnTypes, SendOutgoingMessages
  <1>3. \A ms \in Seq(Msg) : Write(c, ms) => wire' \in [Conn -> Seq(Msg)]
    BY <1>1, ConcatAt DEF ConnTypes, Write
  <1>4. outgoing' \in [Conn -> Seq(Msg)] /\ wire' \in [Conn -> Seq(Msg)]
        /\ left' \in [Conn -> [Ops -> Nat]]
    <2>1. CASE UNCHANGED <<outgoing, wire, left>>
      BY <2>1 DEF ConnTypes
    <2>2. CASE /\ Write(c, out) /\ outgoing' = [outgoing EXCEPT ![c] = <<>>]
               /\ UNCHANGED left
      BY <1>1, <1>3, <2>2 DEF ConnTypes
    <2>3. CASE /\ out # <<>> /\ outgoing' = [outgoing EXCEPT ![c] = Tail(@)]
               /\ UNCHANGED <<wire, left>>
      BY <1>1, <2>3, TailAt DEF ConnTypes
    <2>4. CASE /\ Spend(c, "fail")
               /\ \E k \in DOMAIN out :
                    /\ Write(c, SubSeq(out, 1, k - 1))
                    /\ outgoing' = [outgoing EXCEPT ![c] = SubSeq(@, k + 1, Len(@))]
      <3>1. PICK k \in DOMAIN out :
                    /\ Write(c, SubSeq(out, 1, k - 1))
                    /\ outgoing' = [outgoing EXCEPT ![c] = SubSeq(out, k + 1, Len(out))]
        BY <2>4 DEF ConnTypes
      <3>2. SubSeq(out, 1, k - 1) \in Seq(Msg) /\ SubSeq(out, k + 1, Len(out)) \in Seq(Msg)
        BY <1>1, PieceOfSeq
      <3>3. left' \in [Conn -> [Ops -> Nat]]
        BY <2>4, SpendTypes DEF Ops
      <3>4. outgoing' \in [Conn -> Seq(Msg)]
        BY <3>1, <3>2 DEF ConnTypes
      <3> QED
        BY <1>3, <3>1, <3>2, <3>3, <3>4
    <2> QED
      BY <2>1, <2>2, <2>3, <2>4 DEF SendOutgoingMessages
  <1> QED
    BY <1>2, <1>4 DEF SendOutgoingMessages, ConnTypes, waitVars, dispatchVars, replyVars,
                      otherVars, procVars, loopVars, mainVars

LEMMA CloseTypes ==
    ASSUME ConnTypes, NEW c \in Conn, PlatformInvalidate(c) \/ Crash(c)
    PROVE  ConnTypes' /\ UNCHANGED waitVars
  <1>1. CASE PlatformInvalidate(c)
    <2>1. queue' \in [Conn -> Seq(WorkItem)]
      BY <1>1, TailAt DEF ConnTypes, PlatformInvalidate, NextWork
    <2>2. wire' \in [Conn -> Seq(Msg)]
      BY <1>1 DEF ConnTypes, PlatformInvalidate
    <2> QED
      BY <1>1, <2>1, <2>2 DEF PlatformInvalidate, ConnTypes, waitVars, dispatchVars,
                         replyVars, otherVars, countVars, procVars, loopVars, mainVars
  <1>2. CASE Crash(c)
    <2>1. left' \in [Conn -> [Ops -> Nat]]
      BY <1>2, SpendTypes DEF Crash, Ops
    <2>2. alive' \in [Proc -> BOOLEAN] /\ connected' \in [Conn -> BOOLEAN]
      BY <1>2 DEF Crash, Terminate, ConnTypes
    <2> QED
      BY <1>2, <2>1, <2>2 DEF Crash, ConnTypes, waitVars, dispatchVars, replyVars,
                              otherVars, outVars, loopVars
  <1> QED
    BY <1>1, <1>2

-----------------------------------------------------------------------------
(* The rest of the invariant.                                              *)
WaitInv == WaitTypes /\ Homes /\ Counts /\ Signalled

LEMMA SameWait == ASSUME WaitInv, UNCHANGED waitVars PROVE WaitInv'
  <1>1. UNCHANGED <<pending, shouldWait, queuePc, semaphore, marked, stack, runq, toDispatch>>
    BY DEF waitVars
  <1>2. WaitTypes'
    BY <1>1 DEF WaitInv, WaitTypes
  <1>3. Homes' /\ Counts'
    BY <1>1 DEF WaitInv, Homes, Counts
  <1>4. Signalled'
    BY <1>1 DEF WaitInv, Signalled, MessagesSignalled, RepliesSignalled, Signalling
  <1> QED
    BY <1>2, <1>3, <1>4 DEF WaitInv

Same(f, g, p) == \A q \in Proc : q # p => g[q] = f[q]

SameConn(f, g, p) == \A c \in Conn : ProcOf[c] # p => g[c] = f[c]

(* A step of the main thread of p changes the state of p only.             *)
LEMMA MainStep ==
    ASSUME WaitInv, NEW p \in Proc, NEW s, GoodStack(p, s),
           stack' = [stack EXCEPT ![p] = s],
           runq' \in [Proc -> Seq(Task)], Same(runq, runq', p), runq'[p] \in Seq(HomeTask(p)),
           toDispatch' \in [Proc -> Seq(Item)], Same(toDispatch, toDispatch', p),
           toDispatch'[p] \in Seq(HomeItem(p)),
           semaphore' \in [Proc -> BOOLEAN], Same(semaphore, semaphore', p),
           pending' \in [Conn -> Seq(PendingReply)], SameConn(pending, pending', p),
           marked' \in [Conn -> Int], SameConn(marked, marked', p),
           UNCHANGED <<shouldWait, queuePc>>,
           \A c \in Home(p) : /\ Len(pending'[c]) = Number(s, SyncFrame(c))
                              /\ marked'[c] = Number(s, MarkedFrame(c)),
           /\ HasSync(s) /\ ~AtTop(s, "sync", "dispatch") /\ toDispatch'[p] # <<>>
              => semaphore'[p] \/ Signalling(p),
           AtTop(s, "sync", "blocked") =>
               (Last(pending'[Last(s).conn]).got \/ ~shouldWait[Last(s).conn] => semaphore'[p])
    PROVE  WaitInv'
  <1>1. s \in Seq(Frame)
    <2>1. s \in Seq(GoodFrame(p)) /\ GoodFrame(p) \subseteq Frame
      BY DEF GoodStack, GoodFrame
    <2> QED
      BY <2>1, SeqMonotonic
  <1>2. stack'[p] = s /\ Same(stack, stack', p)
    BY DEF WaitInv, WaitTypes, Same
  <1>3. WaitTypes'
    BY <1>1 DEF WaitInv, WaitTypes
  <1>4. Homes'
    <2> SUFFICES ASSUME NEW q \in Proc
                 PROVE  /\ GoodStack(q, stack'[q])
                        /\ runq'[q] \in Seq(HomeTask(q))
                        /\ toDispatch'[q] \in Seq(HomeItem(q))
      BY DEF Homes
    <2>1. CASE q = p
      BY <1>2, <2>1
    <2>2. CASE q # p
      BY <1>2, <2>2 DEF Same, WaitInv, Homes
    <2> QED
      BY <2>1, <2>2
  <1>5. Counts'
    <2> SUFFICES ASSUME NEW c \in Conn
                 PROVE  /\ Len(pending'[c]) = Number(stack'[ProcOf[c]], SyncFrame(c))
                        /\ marked'[c] = Number(stack'[ProcOf[c]], MarkedFrame(c))
      BY DEF Counts
    <2>1. CASE ProcOf[c] = p
      BY <1>2, <2>1 DEF Home
    <2>2. CASE ProcOf[c] # p
      <3>1. ProcOf[c] \in Proc
        BY ConnAssumption
      <3>2. stack'[ProcOf[c]] = stack[ProcOf[c]] /\ pending'[c] = pending[c] /\ marked'[c] = marked[c]
        BY <1>2, <2>2, <3>1 DEF Same, SameConn
      <3> QED
        BY <3>2 DEF WaitInv, Counts
    <2> QED
      BY <2>1, <2>2
  <1>6. Signalled'
    <2> SUFFICES ASSUME NEW q \in Proc
                 PROVE  MessagesSignalled(q)' /\ RepliesSignalled(q)'
      BY DEF Signalled
    <2>1. Signalling(q)' = Signalling(q)
      BY DEF Signalling
    <2>2. CASE q = p
      BY <1>2, <2>1, <2>2 DEF MessagesSignalled, RepliesSignalled
    <2>3. CASE q # p
      <3>1. stack'[q] = stack[q] /\ toDispatch'[q] = toDispatch[q] /\ semaphore'[q] = semaphore[q]
        BY <1>2, <2>3 DEF Same
      <3>2. MessagesSignalled(q)'
        BY <2>1, <3>1 DEF WaitInv, Signalled, MessagesSignalled
      <3>3. ASSUME AtTop(stack[q], "sync", "blocked")
            PROVE  pending'[Last(stack[q]).conn] = pending[Last(stack[q]).conn]
        <4>1. GoodStack(q, stack[q]) /\ stack[q] # <<>> /\ Last(stack[q]).kind = "sync"
          BY <3>3 DEF WaitInv, Homes, AtTop
        <4>2. Last(stack[q]) \in GoodFrame(q)
          BY <4>1, GoodTop
        <4>3. Last(stack[q]).conn \in Home(q)
          BY <4>1, <4>2 DEF GoodFrame
        <4> QED
          BY <2>3, <4>3 DEF SameConn, Home
      <3>4. RepliesSignalled(q)'
        BY <3>1, <3>3 DEF WaitInv, Signalled, RepliesSignalled
      <3> QED
        BY <3>2, <3>4
    <2> QED
      BY <2>2, <2>3
  <1> QED
    BY <1>3, <1>4, <1>5, <1>6 DEF WaitInv

-----------------------------------------------------------------------------
(* The shapes of a step: pop the top of the stack, replace it, push.       *)
LEMMA StackType ==
    ASSUME NEW p, NEW s, GoodStack(p, s) PROVE s \in Seq(Frame)
  <1>1. s \in Seq(GoodFrame(p)) /\ GoodFrame(p) \subseteq Frame
    BY DEF GoodStack, GoodFrame
  <1> QED
    BY <1>1, SeqMonotonic

LEMMA PopNumber ==
    ASSUME NEW p, NEW s, GoodStack(p, s), s # <<>>, NEW P
    PROVE  /\ Number(s, P) \in Nat /\ Number(Front(s), P) \in Nat
           /\ Number(s, P) = Number(Front(s), P) + IF Last(s) \in P THEN 1 ELSE 0
  <1>1. s \in Seq(Frame) /\ Front(s) \in Seq(Frame)
    BY StackType, FrontFacts
  <1> QED
    BY <1>1, NumberIsNat, NumberFront

LEMMA PushNumber ==
    ASSUME NEW p, NEW s, GoodStack(p, s), NEW f \in GoodFrame(p), NEW P
    PROVE  /\ Number(s, P) \in Nat
           /\ Number(Append(s, f), P) = Number(s, P) + IF f \in P THEN 1 ELSE 0
  <1>1. s \in Seq(Frame) /\ f \in Frame
    BY StackType DEF GoodFrame
  <1> QED
    BY <1>1, NumberIsNat, NumberAppend

LEMMA ReplaceTop ==
    ASSUME NEW p, NEW s, GoodStack(p, s), s # <<>>, NEW f \in GoodFrame(p),
           f.kind = Last(s).kind, f.conn = Last(s).conn, f.msg = Last(s).msg
    PROVE  /\ GoodStack(p, Append(Front(s), f))
           /\ Append(Front(s), f) # <<>> /\ Last(Append(Front(s), f)) = f
           /\ HasSync(Append(Front(s), f)) => HasSync(s)
           /\ \A c \in Conn : /\ Number(Append(Front(s), f), SyncFrame(c)) = Number(s, SyncFrame(c))
                              /\ Number(Append(Front(s), f), MarkedFrame(c)) = Number(s, MarkedFrame(c))
  <1> DEFINE b == Front(s)
  <1>1. /\ Last(s) \in GoodFrame(p) /\ Last(s) \in Frame /\ GoodStack(p, b)
        /\ HasSync(b) => HasSync(s)
        /\ b # <<>> => Last(b).kind # "sync" \/ Last(b).pc = "check"
        /\ Last(s).kind = "batch" /\ Last(s).conn # NoConn => b = <<>>
    BY GoodTop
  <1>2. /\ GoodStack(p, Append(b, f)) /\ Append(b, f) # <<>> /\ Last(Append(b, f)) = f
        /\ f.kind # "sync" /\ HasSync(Append(b, f)) => HasSync(b)
    BY <1>1, GoodPush
  <1>3. Last(s).kind = "sync" => HasSync(s)
    <2>1. Len(s) \in Nat \ {0} /\ Last(s) = s[Len(s)] /\ DOMAIN s = 1..Len(s)
      BY FrontFacts, LenProperties DEF GoodStack
    <2> QED
      BY <2>1 DEF HasSync
  <1>4. ASSUME NEW P, f \in P <=> Last(s) \in P
        PROVE  Number(Append(b, f), P) = Number(s, P)
    <2>1. Number(s, P) = Number(b, P) + IF Last(s) \in P THEN 1 ELSE 0
      BY PopNumber
    <2>2. Number(Append(b, f), P) = Number(b, P) + IF f \in P THEN 1 ELSE 0
      BY <1>1, PushNumber
    <2> QED
      BY <1>4, <2>1, <2>2
  <1>5. f \in Frame /\ \A c \in Conn : /\ f \in SyncFrame(c) <=> Last(s) \in SyncFrame(c)
                                       /\ f \in MarkedFrame(c) <=> Last(s) \in MarkedFrame(c)
    BY <1>1 DEF GoodFrame, SyncFrame, MarkedFrame
  <1> QED
    BY <1>1, <1>2, <1>3, <1>4, <1>5

(* The facts about p that most steps leave alone.                          *)
LEMMA HomeFacts ==
    ASSUME WaitInv, NEW p \in Proc
    PROVE  /\ GoodStack(p, stack[p])
           /\ runq[p] \in Seq(HomeTask(p)) /\ toDispatch[p] \in Seq(HomeItem(p))
           /\ runq \in [Proc -> Seq(Task)] /\ toDispatch \in [Proc -> Seq(Item)]
           /\ semaphore \in [Proc -> BOOLEAN]
           /\ pending \in [Conn -> Seq(PendingReply)] /\ marked \in [Conn -> Int]
           /\ \A c \in Home(p) : /\ c \in Conn
                                 /\ Len(pending[c]) = Number(stack[p], SyncFrame(c))
                                 /\ marked[c] = Number(stack[p], MarkedFrame(c))
           /\ HasSync(stack[p]) /\ ~AtTop(stack[p], "sync", "dispatch") /\ toDispatch[p] # <<>>
              => semaphore[p] \/ Signalling(p)
           /\ \A q : Same(runq, runq, q) /\ Same(toDispatch, toDispatch, q)
                     /\ Same(semaphore, semaphore, q)
                     /\ SameConn(pending, pending, q) /\ SameConn(marked, marked, q)
  <1>1. GoodStack(p, stack[p]) /\ runq[p] \in Seq(HomeTask(p)) /\ toDispatch[p] \in Seq(HomeItem(p))
    BY DEF WaitInv, Homes
  <1>2. \A c \in Home(p) : /\ c \in Conn
                           /\ Len(pending[c]) = Number(stack[p], SyncFrame(c))
                           /\ marked[c] = Number(stack[p], MarkedFrame(c))
    BY DEF WaitInv, Counts, Home
  <1>3. MessagesSignalled(p)
    BY DEF WaitInv, Signalled
  <1> QED
    BY <1>1, <1>2, <1>3 DEF WaitInv, WaitTypes, MessagesSignalled, Same, SameConn

(* Taking a function off the run loop.                                     *)
LEMMA RunLoopStep ==
    ASSUME WaitInv, NEW p \in Proc, runq[p] # <<>>, runq' = [runq EXCEPT ![p] = Tail(@)]
    PROVE  /\ runq' \in [Proc -> Seq(Task)] /\ Same(runq, runq', p)
           /\ runq'[p] \in Seq(HomeTask(p)) /\ Head(runq[p]) \in HomeTask(p)
           /\ Head(runq[p]).conn \in Home(p)
  <1>1. runq \in [Proc -> Seq(Task)] /\ runq[p] \in Seq(HomeTask(p))
    BY HomeFacts
  <1>2. runq' \in [Proc -> Seq(Task)]
    BY <1>1, TailAt
  <1>3. Tail(runq[p]) \in Seq(HomeTask(p)) /\ Head(runq[p]) \in HomeTask(p)
    BY <1>1, HeadTailProperties
  <1> QED
    BY <1>1, <1>2, <1>3 DEF Same, HomeTask

-----------------------------------------------------------------------------
(* dispatchMessage, with nothing of the wait changed below.                *)
LEMMA DispatchMessageStep ==
    ASSUME WaitInv, NEW p \in Proc, NEW c \in Home(p), NEW m \in Msg, NEW below,
           invalid \in [Conn -> BOOLEAN],
           GoodStack(p, below), HasSync(below) => HasSync(stack[p]),
           ~AtTop(stack[p], "sync", "dispatch"),
           below # <<>> => Last(below).kind # "sync",
           \A d \in Conn : /\ Number(below, SyncFrame(d)) = Number(stack[p], SyncFrame(d))
                           /\ Number(below, MarkedFrame(d)) = Number(stack[p], MarkedFrame(d)),
           DispatchMessage(c, m, below),
           runq' \in [Proc -> Seq(Task)], Same(runq, runq', p), runq'[p] \in Seq(HomeTask(p)),
           UNCHANGED <<pending, shouldWait, queuePc, semaphore, toDispatch>>
    PROVE  WaitInv' /\ invalid' \in [Conn -> BOOLEAN]
  <1>1. c \in Conn /\ ProcOf[c] = p
    BY DEF Home
  <1>2. CASE client[c]
    <2> DEFINE f == NewFrame("handler", "run", c, m, invalid[c])
               s == Append(below, f)
    <2>1. /\ stack' = [stack EXCEPT ![p] = s]
          /\ marked' = [marked EXCEPT ![c] = IF m.marked THEN @ + 1 ELSE @]
          /\ invalid' \in [Conn -> BOOLEAN]
      BY <1>1, <1>2 DEF DispatchMessage, CountMarked
    <2>2. f \in GoodFrame(p) /\ f.kind = "handler" /\ f.conn = c /\ f.msg = m /\ f \in Frame
      BY <1>1, EmptySeq DEF NewFrame, GoodFrame, Frame
    <2> HIDE DEF f
    <2>3. /\ GoodStack(p, s) /\ s # <<>> /\ Last(s) = f
          /\ HasSync(s) => HasSync(below)
      BY <2>2, GoodPush
    <2>4. \A d \in Conn : f \notin SyncFrame(d) /\ (f \in MarkedFrame(d) <=> d = c /\ m.marked)
      BY <2>2 DEF SyncFrame, MarkedFrame
    <2>5. \A d \in Conn : /\ Number(s, SyncFrame(d)) = Number(below, SyncFrame(d))
                          /\ Number(s, MarkedFrame(d)) =
                                 Number(below, MarkedFrame(d)) + IF d = c /\ m.marked THEN 1 ELSE 0
      BY <2>2, <2>4, PushNumber
    <2> HIDE DEF s
    <2>6. \A d \in Home(p) : /\ Len(pending'[d]) = Number(s, SyncFrame(d))
                             /\ marked'[d] = Number(s, MarkedFrame(d))
      <3> TAKE d \in Home(p)
      <3>1. /\ d \in Conn /\ Len(pending[d]) = Number(stack[p], SyncFrame(d))
            /\ marked[d] = Number(stack[p], MarkedFrame(d)) /\ marked \in [Conn -> Int]
        BY HomeFacts
      <3> QED
        BY <1>1, <2>1, <2>5, <3>1
    <2>7. marked' \in [Conn -> Int] /\ SameConn(marked, marked', p)
      BY <1>1, <2>1, HomeFacts DEF SameConn
    <2>8. ~AtTop(s, "sync", "blocked")
      BY <2>2, <2>3 DEF AtTop
    <2>9. HasSync(s) /\ ~AtTop(s, "sync", "dispatch") /\ toDispatch'[p] # <<>>
             => semaphore'[p] \/ Signalling(p)
      BY <2>3, HomeFacts
    <2>10. WaitInv'
      BY <2>1, <2>3, <2>6, <2>7, <2>8, <2>9, HomeFacts, MainStep
    <2> QED
      BY <2>1, <2>10
  <1>3. CASE ~client[c]
    <2>1. stack' = [stack EXCEPT ![p] = below] /\ marked' = marked /\ invalid' = invalid
      BY <1>1, <1>3 DEF DispatchMessage, dispatchVars
    <2>2. \A d \in Home(p) : /\ Len(pending'[d]) = Number(below, SyncFrame(d))
                             /\ marked'[d] = Number(below, MarkedFrame(d))
      BY <2>1, HomeFacts
    <2>3. ~AtTop(below, "sync", "blocked")
      BY DEF AtTop
    <2>4. WaitInv'
      BY <2>1, <2>2, <2>3, HomeFacts, MainStep
    <2> QED
      BY <2>1, <2>4
  <1> QED
    BY <1>2, <1>3

LEMMA DispatchOneMessageStep ==
    ASSUME IInv, NEW p \in Proc, DispatchOneMessage(p) PROVE IInv'
  <1> DEFINE c == Head(runq[p]).conn
  <1>0. ConnTypes /\ WaitInv
    BY DEF IInv, WaitInv
  <1>1. /\ runq[p] # <<>> /\ stack[p] = <<>> /\ runq' = [runq EXCEPT ![p] = Tail(@)]
        /\ UNCHANGED <<pending, shouldWait, queuePc, semaphore, toDispatch>>
    BY DEF DispatchOneMessage, NextTask, replyVars, socketVars
  <1>2. /\ runq' \in [Proc -> Seq(Task)] /\ Same(runq, runq', p)
        /\ runq'[p] \in Seq(HomeTask(p)) /\ c \in Home(p)
    BY <1>0, <1>1, RunLoopStep
  <1>3. c \in Conn /\ incoming[c] \in Seq(Msg)
    BY <1>0, <1>2 DEF Home, ConnTypes
  <1>4. /\ ~HasSync(stack[p]) /\ ~AtTop(stack[p], "sync", "dispatch")
        /\ ~AtTop(stack[p], "sync", "blocked") /\ GoodStack(p, stack[p])
    BY <1>0, <1>1, HomeFacts DEF HasSync, AtTop
  <1> HIDE DEF c
  <1>5. CASE incoming[c] = <<>>
    <2>1. UNCHANGED <<incoming, stack, marked, invalid>>
      BY <1>5 DEF DispatchOneMessage, c, dispatchVars
    <2>2. stack' = [stack EXCEPT ![p] = stack[p]]
      BY <1>0, <2>1 DEF WaitInv, WaitTypes
    <2>3. \A d \in Home(p) : /\ Len(pending'[d]) = Number(stack[p], SyncFrame(d))
                             /\ marked'[d] = Number(stack[p], MarkedFrame(d))
      BY <1>0, <1>1, <2>1, HomeFacts
    <2>4. WaitInv'
      BY <1>0, <1>1, <1>2, <1>4, <2>1, <2>2, <2>3, HomeFacts, MainStep
    <2>5. ConnTypes'
      BY <1>0, <2>1 DEF DispatchOneMessage, ConnTypes, replyVars, otherVars, outVars,
                        socketVars, countVars
    <2> QED
      BY <2>4, <2>5 DEF IInv, WaitInv
  <1>6. CASE incoming[c] # <<>>
    <2>1. incoming' = [incoming EXCEPT ![c] = Tail(@)] /\ DispatchMessage(c, Head(incoming[c]), stack[p])
      BY <1>1, <1>6 DEF DispatchOneMessage, c
    <2>2. Head(incoming[c]) \in Msg /\ incoming' \in [Conn -> Seq(Msg)]
      BY <1>0, <1>3, <1>6, <2>1, HeadTailProperties, TailAt DEF ConnTypes
    <2>3. WaitInv' /\ invalid' \in [Conn -> BOOLEAN]
      <3>1. invalid \in [Conn -> BOOLEAN]
        BY <1>0 DEF ConnTypes
      <3> QED
        BY <1>0, <1>1, <1>2, <1>4, <2>1, <2>2, <3>1, DispatchMessageStep
    <2>4. ConnTypes'
      BY <1>0, <2>2, <2>3 DEF DispatchOneMessage, ConnTypes, replyVars, otherVars, outVars,
                        socketVars, countVars
    <2> QED
      BY <2>3, <2>4 DEF IInv, WaitInv
  <1> QED
    BY <1>5, <1>6

(* A step that replaces the top of the stack by the same call at another   *)
(* point.                                                                  *)
LEMMA ReplaceStep ==
    ASSUME WaitInv, NEW p \in Proc, stack[p] # <<>>, NEW f \in GoodFrame(p),
           f.kind = Last(stack[p]).kind, f.conn = Last(stack[p]).conn,
           f.msg = Last(stack[p]).msg,
           Replace(p, f),
           toDispatch' \in [Proc -> Seq(Item)], Same(toDispatch, toDispatch', p),
           toDispatch'[p] \in Seq(HomeItem(p)),
           semaphore' \in [Proc -> BOOLEAN], Same(semaphore, semaphore', p),
           UNCHANGED <<pending, marked, runq, shouldWait, queuePc>>,
           /\ HasSync(stack[p]) /\ ~(f.kind = "sync" /\ f.pc = "dispatch")
              /\ toDispatch'[p] # <<>>
              => semaphore'[p] \/ Signalling(p),
           f.kind = "sync" /\ f.pc = "blocked" =>
               (Last(pending[f.conn]).got \/ ~shouldWait[f.conn] => semaphore'[p])
    PROVE  WaitInv'
  <1> DEFINE s == Append(Front(stack[p]), f)
  <1>1. GoodStack(p, stack[p])
    BY HomeFacts
  <1>2. /\ GoodStack(p, s) /\ s # <<>> /\ Last(s) = f
        /\ HasSync(s) => HasSync(stack[p])
        /\ \A c \in Conn : /\ Number(s, SyncFrame(c)) = Number(stack[p], SyncFrame(c))
                           /\ Number(s, MarkedFrame(c)) = Number(stack[p], MarkedFrame(c))
    BY <1>1, ReplaceTop
  <1>3. stack' = [stack EXCEPT ![p] = s]
    BY DEF Replace, WaitInv, WaitTypes
  <1> HIDE DEF s
  <1>4. \A c \in Home(p) : /\ Len(pending'[c]) = Number(s, SyncFrame(c))
                           /\ marked'[c] = Number(s, MarkedFrame(c))
    BY <1>2, HomeFacts
  <1>5. HasSync(s) /\ ~AtTop(s, "sync", "dispatch") /\ toDispatch'[p] # <<>>
           => semaphore'[p] \/ Signalling(p)
    BY <1>2 DEF AtTop
  <1>6. AtTop(s, "sync", "blocked") =>
           (Last(pending'[Last(s).conn]).got \/ ~shouldWait[Last(s).conn] => semaphore'[p])
    BY <1>2 DEF AtTop
  <1> QED
    BY <1>2, <1>3, <1>4, <1>5, <1>6, HomeFacts, MainStep

(* A step that pops a frame and leaves a stack that does not sleep.        *)
LEMMA PopStep ==
    ASSUME WaitInv, NEW p \in Proc, stack[p] # <<>>, Pop(p),
           ~AtTop(stack[p], "sync", "dispatch"),
           toDispatch' \in [Proc -> Seq(Item)], Same(toDispatch, toDispatch', p),
           toDispatch'[p] \in Seq(HomeItem(p)),
           Front(stack[p]) # <<>> => toDispatch'[p] = toDispatch[p],
           pending' \in [Conn -> Seq(PendingReply)], SameConn(pending, pending', p),
           marked' \in [Conn -> Int], SameConn(marked, marked', p),
           \A c \in Home(p) :
               /\ Len(pending'[c]) = Number(Front(stack[p]), SyncFrame(c))
               /\ marked'[c] = Number(Front(stack[p]), MarkedFrame(c)),
           UNCHANGED <<runq, shouldWait, queuePc, semaphore>>
    PROVE  WaitInv'
  <1> DEFINE s == Front(stack[p])
  <1>1. GoodStack(p, stack[p])
    BY HomeFacts
  <1>2. /\ GoodStack(p, s)
        /\ HasSync(s) => HasSync(stack[p])
        /\ s # <<>> => Last(s).kind # "sync" \/ Last(s).pc = "check"
    BY <1>1, GoodTop
  <1>3. stack' = [stack EXCEPT ![p] = s]
    BY DEF Pop, WaitInv, WaitTypes
  <1> HIDE DEF s
  <1>4. ~AtTop(s, "sync", "blocked")
    BY <1>2 DEF AtTop
  <1>5. HasSync(s) => s # <<>>
    BY DEF HasSync
  <1>6. HasSync(s) /\ ~AtTop(s, "sync", "dispatch") /\ toDispatch'[p] # <<>>
           => semaphore'[p] \/ Signalling(p)
    BY <1>2, <1>5, HomeFacts DEF s
  <1>7. \A c \in Home(p) : /\ Len(pending'[c]) = Number(s, SyncFrame(c))
                           /\ marked'[c] = Number(s, MarkedFrame(c))
    BY DEF s
  <1> QED
    BY <1>2, <1>3, <1>4, <1>6, <1>7, HomeFacts, MainStep

(* The top of a stack and the call it is in.                               *)
LEMMA TopFacts ==
    ASSUME WaitInv, NEW p \in Proc, NEW kind, NEW pc, At(p, kind, pc)
    PROVE  /\ stack[p] # <<>> /\ Top(p) = Last(stack[p]) /\ Top(p) \in GoodFrame(p)
           /\ Top(p) \in Frame /\ Top(p).kind = kind /\ Top(p).pc = pc
           /\ kind # "batch" => Top(p).conn \in Home(p) /\ Top(p).conn \in Conn
           /\ \A c \in Conn :
                /\ Number(stack[p], SyncFrame(c)) \in Nat
                /\ Number(Front(stack[p]), SyncFrame(c)) \in Nat
                /\ Number(Front(stack[p]), MarkedFrame(c)) \in Nat
                /\ Number(stack[p], SyncFrame(c)) = Number(Front(stack[p]), SyncFrame(c))
                       + IF kind = "sync" /\ Top(p).conn = c THEN 1 ELSE 0
                /\ Number(stack[p], MarkedFrame(c)) = Number(Front(stack[p]), MarkedFrame(c))
                       + IF kind = "handler" /\ Top(p).conn = c /\ Top(p).msg.marked THEN 1 ELSE 0
  <1>1. /\ stack[p] # <<>> /\ Top(p) = Last(stack[p]) /\ Top(p).kind = kind /\ Top(p).pc = pc
    BY DEF At, Top
  <1>2. GoodStack(p, stack[p])
    BY HomeFacts
  <1>3. Top(p) \in GoodFrame(p) /\ Top(p) \in Frame
    BY <1>1, <1>2, GoodTop
  <1>4. kind # "batch" => Top(p).conn \in Home(p) /\ Top(p).conn \in Conn
    BY <1>1, <1>3 DEF GoodFrame, Home
  <1>5. \A c \in Conn : /\ Top(p) \in SyncFrame(c) <=> kind = "sync" /\ Top(p).conn = c
                        /\ Top(p) \in MarkedFrame(c) <=>
                               kind = "handler" /\ Top(p).conn = c /\ Top(p).msg.marked
    BY <1>1, <1>3 DEF SyncFrame, MarkedFrame
  <1>6. \A P : /\ Number(stack[p], P) \in Nat /\ Number(Front(stack[p]), P) \in Nat
               /\ Number(stack[p], P) = Number(Front(stack[p]), P) + IF Top(p) \in P THEN 1 ELSE 0
    BY <1>1, <1>2, PopNumber
  <1> QED
    BY <1>1, <1>3, <1>4, <1>5, <1>6

-----------------------------------------------------------------------------
(* The steps of the main thread.                                           *)
LEMMA MarkInvalidTypes ==
    ASSUME IInv, NEW p \in Proc, MarkInvalid(p) PROVE ConnTypes' /\ UNCHANGED waitVars
  <1>1. ConnTypes /\ WaitInv
    BY DEF IInv, WaitInv
  <1>2. Top(p).conn \in Conn
    BY <1>1, TopFacts DEF MarkInvalid
  <1>3. left' \in [Conn -> [Ops -> Nat]]
    BY <1>1, <1>2, SpendTypes DEF MarkInvalid, Ops
  <1>4. invalid' \in [Conn -> BOOLEAN]
    BY <1>1, <1>2 DEF MarkInvalid, ConnTypes
  <1> QED
    BY <1>1, <1>3, <1>4 DEF MarkInvalid, ConnTypes, waitVars, replyVars, otherVars, outVars,
                            socketVars, procVars, loopVars, mainVars

(* The handler's frame after incrementDispatchMessageMarked...Count: the   *)
(* message counts as marked.                                               *)
Raised(f) == [f EXCEPT !.msg = [@ EXCEPT !.marked = TRUE]]

LEMMA RaisedFacts ==
    ASSUME IInv, NEW p \in Proc, IncrementMarkedCount(p)
    PROVE  LET f == Top(p)
               g == Raised(f)
           IN  /\ stack[p] # <<>> /\ f = Last(stack[p]) /\ f \in GoodFrame(p) /\ f \in Frame
               /\ f.kind = "handler" /\ f.pc = "run" /\ f.msg.kind = "async" /\ ~f.msg.marked
               /\ f.conn \in Home(p) /\ f.conn \in Conn /\ ProcOf[f.conn] = p
               /\ g \in GoodFrame(p) /\ g \in Frame
               /\ g.kind = "handler" /\ g.pc = "run" /\ g.conn = f.conn
               /\ g.rest = f.rest /\ g.held = f.held /\ g.old = f.old
               /\ g.msg.kind = "async" /\ g.msg.marked
               /\ g.msg.id = f.msg.id /\ g.msg.n = f.msg.n
               /\ stack' = [stack EXCEPT ![p] = Append(Front(stack[p]), g)]
  <1> DEFINE f == Top(p)
             g == Raised(f)
  <1>0. WaitInv
    BY DEF IInv, WaitInv
  <1>1. At(p, "handler", "run") /\ f.msg.kind = "async" /\ ~f.msg.marked /\ Replace(p, g)
    BY DEF IncrementMarkedCount, Raised
  <1>2. /\ stack[p] # <<>> /\ f = Last(stack[p]) /\ f \in GoodFrame(p) /\ f \in Frame
        /\ f.kind = "handler" /\ f.pc = "run" /\ f.conn \in Home(p) /\ f.conn \in Conn
        /\ ProcOf[f.conn] = p
    BY <1>0, <1>1, TopFacts DEF Home
  <1> HIDE DEF f
  <1>3. /\ g \in Frame /\ g.kind = f.kind /\ g.pc = f.pc /\ g.conn = f.conn
        /\ g.rest = f.rest /\ g.held = f.held /\ g.old = f.old
        /\ g.msg.kind = f.msg.kind /\ g.msg.marked
        /\ g.msg.id = f.msg.id /\ g.msg.n = f.msg.n
    BY <1>2 DEF Raised, Frame, Msg
  <1> HIDE DEF g
  <1>4. g \in GoodFrame(p)
    BY <1>2, <1>3 DEF GoodFrame
  <1>5. stack' = [stack EXCEPT ![p] = Append(Front(stack[p]), g)]
    BY <1>0, <1>1 DEF Replace, WaitInv, WaitTypes
  <1> QED
    BY <1>1, <1>2, <1>3, <1>4, <1>5 DEF f, g

LEMMA IncrementMarkedCountStep ==
    ASSUME IInv, NEW p \in Proc, IncrementMarkedCount(p) PROVE IInv'
  <1> DEFINE f == Top(p)
             g == Raised(f)
             c == f.conn
             b == Front(stack[p])
             s == Append(b, g)
  <1>0. ConnTypes /\ WaitInv
    BY DEF IInv, WaitInv
  <1>1. /\ stack[p] # <<>> /\ f = Last(stack[p]) /\ f \in Frame
        /\ f.kind = "handler" /\ ~f.msg.marked
        /\ c \in Home(p) /\ c \in Conn /\ ProcOf[c] = p
        /\ g \in GoodFrame(p) /\ g \in Frame /\ g.kind = "handler" /\ g.conn = c /\ g.msg.marked
        /\ stack' = [stack EXCEPT ![p] = s]
    BY RaisedFacts
  <1>2. /\ marked' = [marked EXCEPT ![c] = @ + 1]
        /\ UNCHANGED <<pending, runq, shouldWait, queuePc, semaphore, toDispatch>>
    BY DEF IncrementMarkedCount, replyVars, socketVars, loopVars
  <1>3. left' \in [Conn -> [Ops -> Nat]]
    BY <1>0, <1>1, SpendTypes DEF IncrementMarkedCount, Ops
  <1> HIDE DEF f, g, c
  <1>4. GoodStack(p, stack[p])
    BY <1>0, HomeFacts
  <1>5. /\ GoodStack(p, b)
        /\ HasSync(b) => HasSync(stack[p])
        /\ b # <<>> => Last(b).kind # "sync" \/ Last(b).pc = "check"
    BY <1>1, <1>4, GoodTop
  <1>6. /\ GoodStack(p, s) /\ s # <<>> /\ Last(s) = g
        /\ HasSync(s) => HasSync(b)
    BY <1>1, <1>5, GoodPush
  <1>7. \A d \in Conn :
          /\ Number(s, SyncFrame(d)) = Number(stack[p], SyncFrame(d))
          /\ Number(s, MarkedFrame(d)) = Number(stack[p], MarkedFrame(d)) + IF c = d THEN 1 ELSE 0
          /\ Number(stack[p], MarkedFrame(d)) \in Nat
    <2> SUFFICES ASSUME NEW d \in Conn
                 PROVE  /\ Number(s, SyncFrame(d)) = Number(stack[p], SyncFrame(d))
                        /\ Number(s, MarkedFrame(d)) =
                               Number(stack[p], MarkedFrame(d)) + IF c = d THEN 1 ELSE 0
                        /\ Number(stack[p], MarkedFrame(d)) \in Nat
      OBVIOUS
    <2>1. /\ f \notin SyncFrame(d) /\ g \notin SyncFrame(d) /\ f \notin MarkedFrame(d)
          /\ g \in MarkedFrame(d) <=> c = d
      BY <1>1 DEF SyncFrame, MarkedFrame
    <2>2. \A P : /\ Number(stack[p], P) \in Nat /\ Number(b, P) \in Nat
                 /\ Number(stack[p], P) = Number(b, P) + IF f \in P THEN 1 ELSE 0
      BY <1>1, <1>4, PopNumber
    <2>3. \A P : Number(s, P) = Number(b, P) + IF g \in P THEN 1 ELSE 0
      BY <1>1, <1>5, PushNumber
    <2> QED
      BY <2>1, <2>2, <2>3
  <1> HIDE DEF s, b
  <1>8. marked' \in [Conn -> Int] /\ SameConn(marked, marked', p)
    BY <1>0, <1>1, <1>2, HomeFacts DEF SameConn
  <1>9. \A d \in Home(p) : /\ Len(pending'[d]) = Number(s, SyncFrame(d))
                           /\ marked'[d] = Number(s, MarkedFrame(d))
    <2> TAKE d \in Home(p)
    <2>1. /\ d \in Conn /\ Len(pending[d]) = Number(stack[p], SyncFrame(d))
          /\ marked[d] = Number(stack[p], MarkedFrame(d)) /\ marked \in [Conn -> Int]
      BY <1>0, HomeFacts
    <2> QED
      BY <1>1, <1>2, <1>7, <2>1
  <1>10. HasSync(s) /\ ~AtTop(s, "sync", "dispatch") /\ toDispatch'[p] # <<>>
            => semaphore'[p] \/ Signalling(p)
    <2>1. ~AtTop(stack[p], "sync", "dispatch")
      BY <1>1 DEF AtTop
    <2> QED
      BY <1>0, <1>2, <1>5, <1>6, <2>1, HomeFacts
  <1>11. ~AtTop(s, "sync", "blocked")
    BY <1>1, <1>6 DEF AtTop
  <1>12. WaitInv'
    BY <1>0, <1>1, <1>2, <1>6, <1>8, <1>9, <1>10, <1>11, HomeFacts, MainStep
  <1>13. ConnTypes'
    BY <1>0, <1>3 DEF IncrementMarkedCount, ConnTypes, replyVars, otherVars, outVars, socketVars,
                      loopVars
  <1> QED
    BY <1>12, <1>13 DEF IInv, WaitInv

LEMMA EndDispatchStep ==
    ASSUME IInv, NEW p \in Proc, EndDispatch(p) PROVE IInv'
  <1> DEFINE f == Top(p)
             c == f.conn
  <1>0. ConnTypes /\ WaitInv
    BY DEF IInv, WaitInv
  <1>1. /\ stack[p] # <<>> /\ f = Last(stack[p]) /\ f \in Frame /\ f.kind = "handler"
        /\ c \in Home(p) /\ c \in Conn /\ ProcOf[c] = p
        /\ \A d \in Conn :
             /\ Number(Front(stack[p]), MarkedFrame(d)) \in Nat
             /\ Number(stack[p], SyncFrame(d)) = Number(Front(stack[p]), SyncFrame(d))
             /\ Number(stack[p], MarkedFrame(d)) =
                    Number(Front(stack[p]), MarkedFrame(d)) + IF c = d /\ f.msg.marked THEN 1 ELSE 0
    <2>1. At(p, "handler", "run")
      BY DEF EndDispatch
    <2> QED
      BY <1>0, <2>1, TopFacts DEF Home
  <1>2. marked' = [marked EXCEPT ![c] = IF f.msg.marked THEN @ + (-1) ELSE @]
    BY DEF EndDispatch, CountMarked
  <1>3. f.msg \in Msg /\ f.msg.id \in Nat /\ f.old \in BOOLEAN
    BY <1>1 DEF Frame, Msg
  <1>4. WaitInv'
    <2>1. /\ UNCHANGED <<pending, runq, shouldWait, queuePc, semaphore, toDispatch>> /\ Pop(p)
      BY DEF EndDispatch, replyVars, socketVars, loopVars
    <2>2. marked' \in [Conn -> Int] /\ SameConn(marked, marked', p)
      BY <1>0, <1>1, <1>2, HomeFacts DEF SameConn
    <2>3. \A d \in Home(p) :
               /\ Len(pending'[d]) = Number(Front(stack[p]), SyncFrame(d))
               /\ marked'[d] = Number(Front(stack[p]), MarkedFrame(d))
      <3> TAKE d \in Home(p)
      <3>1. /\ d \in Conn /\ Len(pending[d]) = Number(stack[p], SyncFrame(d))
            /\ marked[d] = Number(stack[p], MarkedFrame(d)) /\ marked \in [Conn -> Int]
        BY <1>0, HomeFacts
      <3> HIDE DEF f
      <3> QED
        BY <1>1, <1>2, <2>1, <3>1
    <2>4. ~AtTop(stack[p], "sync", "dispatch")
      BY <1>1 DEF AtTop
    <2> QED
      BY <1>0, <1>1, <2>1, <2>2, <2>3, <2>4, HomeFacts, PopStep
  <1>5. ConnTypes'
    <2>1. PICK kept \in BOOLEAN :
            LET report == invalid[c] /\ client[c]
            IN  /\ IF kept
                   THEN /\ f.msg.kind = "sync" /\ Spend(c, "delay")
                        /\ delayed' = [delayed EXCEPT ![c] = @ \cup {f.msg.id}]
                   ELSE UNCHANGED <<delayed, left>>
                /\ outgoing' = [outgoing EXCEPT ![c] =
                                 IF SendsReply(c, f, kept) THEN Append(@, Reply(f.msg.id)) ELSE @]
                /\ queue' = [queue EXCEPT ![c] =
                                 @ \o (IF SendsReply(c, f, kept) THEN <<"send">> ELSE <<>>)
                                   \o (IF report THEN <<"invalidate">> ELSE <<>>)]
                /\ client' = [client EXCEPT ![c] = @ /\ ~report]
                /\ invalid' = [invalid EXCEPT ![c] = f.old]
      BY DEF EndDispatch
    <2> HIDE DEF f
    <2>2. left' \in [Conn -> [Ops -> Nat]] /\ delayed' \in [Conn -> SUBSET Nat]
      <3>1. kept => left' \in [Conn -> [Ops -> Nat]]
        BY <1>0, <1>1, <2>1, SpendTypes DEF Ops
      <3>2. CASE kept
        <4>1. delayed' = [delayed EXCEPT ![c] = @ \cup {f.msg.id}]
          BY <2>1, <3>2
        <4>2. delayed \in [Conn -> SUBSET Nat]
          BY <1>0 DEF ConnTypes
        <4> QED
          BY <1>1, <1>3, <3>1, <3>2, <4>1, <4>2
      <3>3. CASE ~kept
        BY <1>0, <2>1, <3>3 DEF ConnTypes
      <3> QED
        BY <3>2, <3>3
    <2>3. outgoing' \in [Conn -> Seq(Msg)]
      <3>1. Reply(f.msg.id) \in Msg
        BY <1>3 DEF Reply, Msg
      <3>2. outgoing \in [Conn -> Seq(Msg)]
        BY <1>0 DEF ConnTypes
      <3>3. [outgoing EXCEPT ![c] = Append(@, Reply(f.msg.id))] \in [Conn -> Seq(Msg)]
        BY <1>1, <3>1, <3>2, AppendAt
      <3> QED
        BY <1>1, <2>1, <3>2, <3>3
    <2>4. queue' \in [Conn -> Seq(WorkItem)]
      <3> DEFINE a == IF SendsReply(c, f, kept) THEN <<"send">> ELSE <<>>
                 b == IF invalid[c] /\ client[c] THEN <<"invalidate">> ELSE <<>>
      <3>1. a \in Seq(WorkItem) /\ b \in Seq(WorkItem)
        <4>1. /\ <<"send">> \in Seq(WorkItem) /\ <<"invalidate">> \in Seq(WorkItem)
              /\ <<>> \in Seq(WorkItem)
          BY DEF WorkItem
        <4> QED
          BY <4>1
      <3>2. queue \in [Conn -> Seq(WorkItem)] /\ queue' = [queue EXCEPT ![c] = @ \o a \o b]
        BY <1>0, <2>1 DEF ConnTypes
      <3> HIDE DEF a, b
      <3>3. queue[c] \o a \o b \in Seq(WorkItem)
        BY <1>1, <3>1, <3>2, ConcatProperties
      <3> QED
        BY <1>1, <3>2, <3>3
    <2>5. client' \in [Conn -> BOOLEAN] /\ invalid' \in [Conn -> BOOLEAN]
      BY <1>0, <1>1, <1>3, <2>1 DEF ConnTypes
    <2> QED
      BY <1>0, <2>2, <2>3, <2>4, <2>5 DEF EndDispatch, ConnTypes, replyVars, socketVars, loopVars
  <1> QED
    BY <1>4, <1>5 DEF IInv, WaitInv

LEMMA DispatchMessagesTaskStep ==
    ASSUME IInv, NEW p \in Proc, DispatchMessagesTask(p) PROVE IInv'
  <1> DEFINE c == Head(runq[p]).conn
             f == NewFrame("batch", "swap", c, NoMsg, FALSE)
             s == Append(stack[p], f)
  <1>0. ConnTypes /\ WaitInv
    BY DEF IInv, WaitInv
  <1>1. /\ runq[p] # <<>> /\ stack[p] = <<>> /\ runq' = [runq EXCEPT ![p] = Tail(@)]
        /\ UNCHANGED <<pending, shouldWait, queuePc, semaphore, toDispatch, marked>>
        /\ stack' = [stack EXCEPT ![p] = s]
        /\ scheduled' = [scheduled EXCEPT ![p] = scheduled[p] \ {c}]
    BY <1>0 DEF DispatchMessagesTask, NextTask, Push, ResetScheduled, connVars, replyVars,
                socketVars, dispatchVars, WaitInv, WaitTypes
  <1>2. /\ runq' \in [Proc -> Seq(Task)] /\ Same(runq, runq', p)
        /\ runq'[p] \in Seq(HomeTask(p)) /\ c \in Home(p)
    BY <1>0, <1>1, RunLoopStep
  <1>3. f \in GoodFrame(p) /\ f.kind = "batch" /\ f \in Frame
    <2>1. NoMsg \in Msg /\ c \in Conn /\ c # NoConn
      BY <1>2, ConnAssumption DEF Home, NoMsg, Msg
    <2> QED
      BY <2>1, EmptySeq DEF NewFrame, GoodFrame, Frame
  <1> HIDE DEF f, c
  <1>4. GoodStack(p, stack[p]) /\ ~HasSync(stack[p])
    BY <1>0, <1>1, HomeFacts DEF HasSync
  <1>5. /\ GoodStack(p, s) /\ s # <<>> /\ Last(s) = f
        /\ HasSync(s) => HasSync(stack[p])
    BY <1>1, <1>3, <1>4, GoodPush
  <1>6. \A d \in Conn : /\ Number(s, SyncFrame(d)) = Number(stack[p], SyncFrame(d))
                        /\ Number(s, MarkedFrame(d)) = Number(stack[p], MarkedFrame(d))
    <2>1. \A d \in Conn : f \notin SyncFrame(d) /\ f \notin MarkedFrame(d)
      BY <1>3 DEF SyncFrame, MarkedFrame
    <2> QED
      BY <1>3, <1>4, <2>1, PushNumber
  <1> HIDE DEF s
  <1>7. \A d \in Home(p) : /\ Len(pending'[d]) = Number(s, SyncFrame(d))
                           /\ marked'[d] = Number(s, MarkedFrame(d))
    BY <1>0, <1>1, <1>6, HomeFacts
  <1>8. ~AtTop(s, "sync", "blocked")
    BY <1>3, <1>5 DEF AtTop
  <1>9. WaitInv'
    BY <1>0, <1>1, <1>2, <1>4, <1>5, <1>7, <1>8, HomeFacts, MainStep
  <1>10. ConnTypes'
    <2>1. scheduled' \in [Proc -> SUBSET Conn]
      BY <1>0, <1>1 DEF ConnTypes
    <2> QED
      BY <1>0, <2>1 DEF DispatchMessagesTask, ConnTypes, connVars, countVars, replyVars,
                        otherVars, outVars, socketVars, dispatchVars
  <1> QED
    BY <1>9, <1>10 DEF IInv, WaitInv

(* The steps of dispatchMessages.                                          *)
LEMMA BatchFrame ==
    ASSUME WaitInv, NEW p \in Proc, NEW f \in GoodFrame(p), f.kind = "batch",
           NEW rest \in Seq(HomeItem(p))
    PROVE  [f EXCEPT !.pc = "loop", !.rest = rest] \in GoodFrame(p)
  <1>1. rest \in Seq(Item)
    <2>1. HomeItem(p) \subseteq Item
      BY DEF HomeItem, Item, Home
    <2> QED
      BY <2>1, SeqMonotonic
  <1>2. f \in Frame
    BY DEF GoodFrame
  <1>3. [f EXCEPT !.pc = "loop", !.rest = rest] \in Frame
    BY <1>1, <1>2 DEF Frame
  <1> QED
    BY <1>2, <1>3 DEF GoodFrame, Frame

LEMMA SwapMessagesStep ==
    ASSUME IInv, NEW p \in Proc, SwapMessages(p) PROVE IInv'
  <1> DEFINE f == [Top(p) EXCEPT !.pc = "loop", !.rest = toDispatch[p]]
  <1>0. ConnTypes /\ WaitInv
    BY DEF IInv, WaitInv
  <1>1. /\ stack[p] # <<>> /\ Top(p) = Last(stack[p]) /\ Top(p) \in GoodFrame(p)
        /\ Top(p) \in Frame /\ Top(p).kind = "batch"
    BY <1>0, TopFacts DEF SwapMessages
  <1>2. /\ Replace(p, f) /\ toDispatch' = [toDispatch EXCEPT ![p] = <<>>]
        /\ UNCHANGED <<pending, marked, runq, shouldWait, queuePc, semaphore>>
    BY <1>0 DEF SwapMessages, Swap, Replace, connVars, replyVars, socketVars, dispatchVars,
                WaitInv, WaitTypes
  <1>3. /\ f \in GoodFrame(p) /\ f.kind = "batch"
        /\ f.kind = Last(stack[p]).kind /\ f.conn = Last(stack[p]).conn
        /\ f.msg = Last(stack[p]).msg
    <2>1. toDispatch[p] \in Seq(HomeItem(p))
      BY <1>0, HomeFacts
    <2>2. f \in GoodFrame(p)
      BY <1>0, <1>1, <2>1, BatchFrame
    <2> QED
      BY <1>1, <2>2 DEF Frame
  <1> HIDE DEF f
  <1>4. /\ toDispatch' \in [Proc -> Seq(Item)] /\ Same(toDispatch, toDispatch', p)
        /\ toDispatch'[p] \in Seq(HomeItem(p)) /\ toDispatch'[p] = <<>>
    BY <1>0, <1>2, HomeFacts DEF Same
  <1>5. WaitInv'
    BY <1>0, <1>1, <1>2, <1>3, <1>4, HomeFacts, ReplaceStep
  <1>6. ConnTypes'
    BY <1>0 DEF SwapMessages, ConnTypes, connVars, countVars, replyVars, otherVars, outVars,
                socketVars, dispatchVars
  <1> QED
    BY <1>5, <1>6 DEF IInv, WaitInv

LEMMA DispatchNextStep ==
    ASSUME IInv, NEW p \in Proc, DispatchNext(p) PROVE IInv'
  <1> DEFINE f    == Top(p)
             item == Head(f.rest)
             next == [f EXCEPT !.rest = Tail(@)]
             held == [next EXCEPT !.held = Append(@, item)]
  <1>0. ConnTypes /\ WaitInv
    BY DEF IInv, WaitInv
  <1>1. /\ stack[p] # <<>> /\ f = Last(stack[p]) /\ f \in GoodFrame(p)
        /\ f \in Frame /\ f.kind = "batch" /\ f.pc = "loop"
    BY <1>0, TopFacts DEF DispatchNext
  <1>2. f.rest # <<>> /\ f.rest \in Seq(HomeItem(p)) /\ f.held \in Seq(HomeItem(p))
    BY <1>1 DEF DispatchNext, GoodFrame
  <1>3. item \in HomeItem(p) /\ Tail(f.rest) \in Seq(HomeItem(p))
    BY <1>2, HeadTailProperties
  <1>4. /\ UNCHANGED <<pending, shouldWait, queuePc, semaphore, toDispatch, runq>>
    BY DEF DispatchNext, replyVars, socketVars, loopVars
  <1>5. /\ next \in GoodFrame(p) /\ next \in Frame /\ next.kind = "batch"
        /\ next.conn = f.conn /\ next.msg = f.msg /\ next.held = f.held
        /\ next.rest = Tail(f.rest) /\ next.pc = "loop"
    <2>1. next = [f EXCEPT !.pc = "loop", !.rest = Tail(f.rest)]
      BY <1>1 DEF Frame
    <2>2. next \in GoodFrame(p)
      BY <1>0, <1>1, <1>3, <2>1, BatchFrame
    <2> QED
      BY <1>1, <2>2 DEF Frame, GoodFrame
  <1>6. GoodStack(p, stack[p]) /\ ~AtTop(stack[p], "sync", "dispatch")
    BY <1>0, <1>1, HomeFacts DEF AtTop
  <1>7. CASE f.conn # NoConn /\ f.conn # item.conn
    <2>1. Replace(p, held) /\ UNCHANGED <<marked, invalid>>
      BY <1>7 DEF DispatchNext, dispatchVars
    <2>2. /\ held \in GoodFrame(p) /\ held.kind = "batch" /\ held.conn = f.conn
          /\ held.msg = f.msg
      <3>1. Append(f.held, item) \in Seq(HomeItem(p))
        BY <1>2, <1>3, AppendProperties
      <3>2. Append(f.held, item) \in Seq(Item)
        <4>1. HomeItem(p) \subseteq Item
          BY DEF HomeItem, Item, Home
        <4> QED
          BY <3>1, <4>1, SeqMonotonic
      <3>3. held = [next EXCEPT !.held = Append(f.held, item)]
        BY <1>5 DEF Frame
      <3> HIDE DEF next, f, item, held
      <3>4. held \in Frame /\ held.kind = "batch" /\ held.conn = f.conn /\ held.msg = f.msg
            /\ held.held = Append(f.held, item) /\ held.rest = next.rest /\ held.pc = next.pc
        BY <1>5, <3>2, <3>3 DEF Frame
      <3> QED
        BY <1>3, <1>5, <1>7, <3>1, <3>4 DEF GoodFrame
    <2> HIDE DEF held, next, item, f
    <2>3. WaitInv'
      BY <1>0, <1>1, <1>4, <1>6, <2>1, <2>2, HomeFacts, ReplaceStep
    <2>4. ConnTypes'
      BY <1>0, <2>1 DEF DispatchNext, ConnTypes, replyVars, otherVars, outVars, socketVars,
                        loopVars, countVars
    <2> QED
      BY <2>3, <2>4 DEF IInv, WaitInv
  <1>8. CASE ~(f.conn # NoConn /\ f.conn # item.conn)
    <2> DEFINE below == Append(Front(stack[p]), next)
    <2>1. DispatchMessage(item.conn, item.msg, below)
      BY <1>8 DEF DispatchNext
    <2>2. item.conn \in Home(p) /\ item.msg \in Msg
      BY <1>3 DEF HomeItem
    <2> HIDE DEF next, item, f
    <2>3. /\ GoodStack(p, below) /\ below # <<>> /\ Last(below) = next
          /\ HasSync(below) => HasSync(stack[p])
          /\ \A c \in Conn : /\ Number(below, SyncFrame(c)) = Number(stack[p], SyncFrame(c))
                             /\ Number(below, MarkedFrame(c)) = Number(stack[p], MarkedFrame(c))
      BY <1>1, <1>5, <1>6, ReplaceTop
    <2> HIDE DEF below
    <2>4. WaitInv' /\ invalid' \in [Conn -> BOOLEAN]
      <3>1. invalid \in [Conn -> BOOLEAN]
        BY <1>0 DEF ConnTypes
      <3>2. Last(below).kind # "sync"
        BY <1>5, <2>3
      <3>3. /\ runq' \in [Proc -> Seq(Task)] /\ Same(runq, runq', p)
            /\ runq'[p] \in Seq(HomeTask(p))
        BY <1>0, <1>4, HomeFacts
      <3> QED
        BY <1>0, <1>4, <1>6, <2>1, <2>2, <2>3, <3>1, <3>2, <3>3, DispatchMessageStep
    <2>5. ConnTypes'
      BY <1>0, <2>4 DEF DispatchNext, ConnTypes, replyVars, otherVars, outVars, socketVars,
                        loopVars, countVars
    <2> QED
      BY <2>4, <2>5 DEF IInv, WaitInv
  <1> QED
    BY <1>7, <1>8

LEMMA PutBackStep ==
    ASSUME IInv, NEW p \in Proc, PutBack(p) PROVE IInv'
  <1> DEFINE f == Top(p)
  <1>0. ConnTypes /\ WaitInv
    BY DEF IInv, WaitInv
  <1>1. /\ stack[p] # <<>> /\ f = Last(stack[p]) /\ f \in GoodFrame(p)
        /\ f \in Frame /\ f.kind = "batch"
        /\ \A d \in Conn :
             /\ Number(stack[p], SyncFrame(d)) = Number(Front(stack[p]), SyncFrame(d))
             /\ Number(stack[p], MarkedFrame(d)) = Number(Front(stack[p]), MarkedFrame(d))
    <2>1. At(p, "batch", "loop")
      BY DEF PutBack
    <2> QED
      BY <1>0, <2>1, TopFacts
  <1>2. /\ toDispatch' = [toDispatch EXCEPT ![p] = @ \o f.held] /\ Pop(p)
        /\ UNCHANGED <<pending, shouldWait, queuePc, semaphore, runq, marked>>
    BY DEF PutBack, connVars, replyVars, socketVars, dispatchVars
  <1>3. f.held \in Seq(HomeItem(p)) /\ f.held \in Seq(Item) /\ (f.conn = NoConn => f.held = <<>>)
    BY <1>1 DEF GoodFrame, Frame
  <1>4. Front(stack[p]) # <<>> => f.conn = NoConn
    BY <1>0, <1>1, HomeFacts, GoodTop
  <1> HIDE DEF f
  <1>5. /\ toDispatch \in [Proc -> Seq(Item)] /\ toDispatch[p] \in Seq(HomeItem(p))
    BY <1>0, HomeFacts
  <1>6. /\ toDispatch' \in [Proc -> Seq(Item)] /\ Same(toDispatch, toDispatch', p)
    BY <1>2, <1>3, <1>5, ConcatAt DEF Same
  <1>7. toDispatch'[p] = toDispatch[p] \o f.held
    BY <1>2, <1>5
  <1>8. toDispatch'[p] \in Seq(HomeItem(p))
    BY <1>3, <1>5, <1>7, ConcatProperties
  <1>9. Front(stack[p]) # <<>> => toDispatch'[p] = toDispatch[p]
    <2>1. toDispatch[p] \o <<>> = toDispatch[p]
      BY <1>5, ConcatEmptySeq
    <2> QED
      BY <1>3, <1>4, <1>7, <2>1
  <1>10. ~AtTop(stack[p], "sync", "dispatch")
    BY <1>1 DEF AtTop
  <1>11. \A c \in Home(p) :
               /\ Len(pending'[c]) = Number(Front(stack[p]), SyncFrame(c))
               /\ marked'[c] = Number(Front(stack[p]), MarkedFrame(c))
    BY <1>0, <1>1, <1>2, HomeFacts
  <1>12. WaitInv'
    BY <1>0, <1>1, <1>2, <1>6, <1>8, <1>9, <1>10, <1>11, HomeFacts, PopStep
  <1>13. ConnTypes'
    BY <1>0 DEF PutBack, ConnTypes, connVars, countVars, replyVars, otherVars, outVars,
                socketVars, dispatchVars
  <1> QED
    BY <1>12, <1>13 DEF IInv, WaitInv

LEMMA DispatchConnectionDidCloseStep ==
    ASSUME IInv, NEW p \in Proc, DispatchConnectionDidClose(p) PROVE IInv'
  <1>0. ConnTypes /\ WaitInv
    BY DEF IInv, WaitInv
  <1>1. /\ runq[p] # <<>> /\ stack[p] = <<>> /\ runq' = [runq EXCEPT ![p] = Tail(@)]
        /\ UNCHANGED <<pending, shouldWait, queuePc, semaphore, toDispatch, marked, stack>>
    BY DEF DispatchConnectionDidClose, NextTask, replyVars, socketVars, dispatchVars, mainVars
  <1>2. /\ runq' \in [Proc -> Seq(Task)] /\ Same(runq, runq', p)
        /\ runq'[p] \in Seq(HomeTask(p)) /\ Head(runq[p]).conn \in Home(p)
    BY <1>0, <1>1, RunLoopStep
  <1>3. /\ ~HasSync(stack[p]) /\ ~AtTop(stack[p], "sync", "blocked") /\ GoodStack(p, stack[p])
    BY <1>0, <1>1, HomeFacts DEF HasSync, AtTop
  <1>4. stack' = [stack EXCEPT ![p] = stack[p]]
    BY <1>0, <1>1 DEF WaitInv, WaitTypes
  <1>5. \A d \in Home(p) : /\ Len(pending'[d]) = Number(stack[p], SyncFrame(d))
                           /\ marked'[d] = Number(stack[p], MarkedFrame(d))
    BY <1>0, <1>1, HomeFacts
  <1>6. WaitInv'
    BY <1>0, <1>1, <1>2, <1>3, <1>4, <1>5, HomeFacts, MainStep
  <1>7. ConnTypes'
    <2>1. client' \in [Conn -> BOOLEAN]
      BY <1>0, <1>2 DEF DispatchConnectionDidClose, ConnTypes, Home
    <2> QED
      BY <1>0, <2>1 DEF DispatchConnectionDidClose, ConnTypes, replyVars, otherVars, outVars,
                        socketVars, dispatchVars, mainVars, countVars
  <1> QED
    BY <1>6, <1>7 DEF IInv, WaitInv

-----------------------------------------------------------------------------
(* The steps of a synchronous call of the main thread.                     *)
LEMMA SyncDispatchStep ==
    ASSUME IInv, NEW p \in Proc, SyncDispatch(p) PROVE IInv'
  <1> DEFINE f == [Top(p) EXCEPT !.pc = "check"]
             g == [NewFrame("batch", "swap", NoConn, NoMsg, FALSE)
                     EXCEPT !.pc = "loop", !.rest = toDispatch[p]]
             b == Append(Front(stack[p]), f)
             s == Append(b, g)
  <1>0. ConnTypes /\ WaitInv
    BY DEF IInv, WaitInv
  <1>1. /\ stack[p] # <<>> /\ Top(p) = Last(stack[p]) /\ Top(p) \in GoodFrame(p)
        /\ Top(p) \in Frame /\ Top(p).kind = "sync"
    BY <1>0, TopFacts DEF SyncDispatch
  <1>2. /\ stack' = [stack EXCEPT ![p] = s] /\ toDispatch' = [toDispatch EXCEPT ![p] = <<>>]
        /\ UNCHANGED <<pending, marked, runq, shouldWait, queuePc, semaphore>>
    BY DEF SyncDispatch, Swap, connVars, replyVars, socketVars, dispatchVars
  <1>3. /\ f \in GoodFrame(p) /\ f.kind = Last(stack[p]).kind /\ f.conn = Last(stack[p]).conn
        /\ f.msg = Last(stack[p]).msg /\ f.pc = "check"
    BY <1>1 DEF GoodFrame, Frame
  <1>4. g \in GoodFrame(p) /\ g \in Frame /\ g.kind = "batch" /\ g.conn = NoConn
    <2> DEFINE h == NewFrame("batch", "swap", NoConn, NoMsg, FALSE)
    <2>1. toDispatch[p] \in Seq(HomeItem(p))
      BY <1>0, HomeFacts
    <2>2. h \in GoodFrame(p) /\ h \in Frame /\ h.kind = "batch" /\ h.conn = NoConn
      <3>1. NoMsg \in Msg
        BY DEF NoMsg, Msg
      <3> QED
        BY <3>1, EmptySeq DEF NewFrame, GoodFrame, Frame
    <2>3. g = [h EXCEPT !.pc = "loop", !.rest = toDispatch[p]]
      OBVIOUS
    <2> HIDE DEF h, g
    <2>4. g \in GoodFrame(p)
      BY <1>0, <2>1, <2>2, <2>3, BatchFrame
    <2> QED
      BY <2>2, <2>3, <2>4 DEF GoodFrame, Frame
  <1> HIDE DEF f, g
  <1>5. GoodStack(p, stack[p])
    BY <1>0, HomeFacts
  <1>6. /\ GoodStack(p, b) /\ b # <<>> /\ Last(b) = f
        /\ \A c \in Conn : /\ Number(b, SyncFrame(c)) = Number(stack[p], SyncFrame(c))
                           /\ Number(b, MarkedFrame(c)) = Number(stack[p], MarkedFrame(c))
    BY <1>1, <1>3, <1>5, ReplaceTop
  <1> HIDE DEF b
  <1>7. GoodStack(p, s) /\ s # <<>> /\ Last(s) = g
    BY <1>3, <1>4, <1>6, GoodPush
  <1>8. \A c \in Conn : /\ Number(s, SyncFrame(c)) = Number(b, SyncFrame(c))
                        /\ Number(s, MarkedFrame(c)) = Number(b, MarkedFrame(c))
    <2>1. \A c \in Conn : g \notin SyncFrame(c) /\ g \notin MarkedFrame(c)
      BY <1>4 DEF SyncFrame, MarkedFrame
    <2> QED
      BY <1>4, <1>6, <2>1, PushNumber
  <1> HIDE DEF s
  <1>9. \A c \in Home(p) : /\ Len(pending'[c]) = Number(s, SyncFrame(c))
                           /\ marked'[c] = Number(s, MarkedFrame(c))
    BY <1>0, <1>2, <1>6, <1>8, HomeFacts
  <1>10. /\ toDispatch' \in [Proc -> Seq(Item)] /\ Same(toDispatch, toDispatch', p)
         /\ toDispatch'[p] \in Seq(HomeItem(p)) /\ toDispatch'[p] = <<>>
    BY <1>0, <1>2, HomeFacts DEF Same
  <1>11. ~AtTop(s, "sync", "blocked")
    BY <1>4, <1>7 DEF AtTop
  <1>12. WaitInv'
    BY <1>0, <1>2, <1>7, <1>9, <1>10, <1>11, HomeFacts, MainStep
  <1>13. ConnTypes'
    BY <1>0 DEF SyncDispatch, ConnTypes, connVars, countVars, replyVars, otherVars, outVars,
                socketVars, dispatchVars
  <1> QED
    BY <1>12, <1>13 DEF IInv, WaitInv

LEMMA SyncWakeStep ==
    ASSUME IInv, NEW p \in Proc, SyncWake(p) PROVE IInv'
  <1> DEFINE f == [Top(p) EXCEPT !.pc = "dispatch"]
  <1>0. ConnTypes /\ WaitInv
    BY DEF IInv, WaitInv
  <1>1. /\ stack[p] # <<>> /\ Top(p) = Last(stack[p]) /\ Top(p) \in GoodFrame(p)
        /\ Top(p) \in Frame /\ Top(p).kind = "sync"
    BY <1>0, TopFacts DEF SyncWake
  <1>2. /\ Replace(p, f) /\ semaphore' = [semaphore EXCEPT ![p] = FALSE]
        /\ UNCHANGED <<pending, marked, runq, shouldWait, queuePc, toDispatch>>
    BY DEF SyncWake, connVars, replyVars, socketVars, dispatchVars
  <1>3. /\ f \in GoodFrame(p) /\ f.kind = Last(stack[p]).kind /\ f.conn = Last(stack[p]).conn
        /\ f.msg = Last(stack[p]).msg /\ f.pc = "dispatch" /\ f.kind = "sync"
    BY <1>1 DEF GoodFrame, Frame
  <1> HIDE DEF f
  <1>4. semaphore' \in [Proc -> BOOLEAN] /\ Same(semaphore, semaphore', p)
    BY <1>0, <1>2, HomeFacts DEF Same
  <1>5. WaitInv'
    BY <1>0, <1>1, <1>2, <1>3, <1>4, HomeFacts, ReplaceStep
  <1>6. ConnTypes'
    BY <1>0 DEF SyncWake, ConnTypes, connVars, countVars, replyVars, otherVars, outVars,
                socketVars, dispatchVars
  <1> QED
    BY <1>5, <1>6 DEF IInv, WaitInv

(* The call on c returns; left may change.                                 *)
LEMMA SyncReturnStep ==
    ASSUME ConnTypes, WaitInv, NEW p \in Proc, NEW pc \in {"check", "blocked"},
           At(p, "sync", pc), NEW ok, SyncReturn(p, Top(p).conn, ok), UNCHANGED semaphore,
           left' \in [Conn -> [Ops -> Nat]]
    PROVE  IInv'
  <1> DEFINE c == Top(p).conn
  <1>1. /\ stack[p] # <<>> /\ Top(p) = Last(stack[p]) /\ Top(p).pc = pc
        /\ c \in Home(p) /\ c \in Conn /\ ProcOf[c] = p
        /\ \A d \in Conn :
             /\ Number(stack[p], SyncFrame(d)) \in Nat
             /\ Number(Front(stack[p]), SyncFrame(d)) \in Nat
             /\ Number(stack[p], SyncFrame(d)) =
                    Number(Front(stack[p]), SyncFrame(d)) + IF c = d THEN 1 ELSE 0
             /\ Number(stack[p], MarkedFrame(d)) = Number(Front(stack[p]), MarkedFrame(d))
    BY TopFacts DEF Home
  <1>2. /\ pending' = [pending EXCEPT ![c] = Front(pending[c])] /\ Pop(p)
        /\ UNCHANGED <<shouldWait, queuePc, runq, toDispatch, marked>>
    BY DEF SyncReturn, PopPending, dispatchVars
  <1>3. ~AtTop(stack[p], "sync", "dispatch")
    BY <1>1 DEF AtTop
  <1> HIDE DEF c
  <1>4. /\ pending \in [Conn -> Seq(PendingReply)]
        /\ \A d \in Home(p) : /\ d \in Conn
                              /\ Len(pending[d]) = Number(stack[p], SyncFrame(d))
                              /\ marked[d] = Number(stack[p], MarkedFrame(d))
    BY HomeFacts
  <1>5. pending[c] \in Seq(PendingReply) /\ Len(pending[c]) # 0
    BY <1>1, <1>4
  <1>6. pending[c] # <<>>
    BY <1>5, EmptySeq
  <1>7. Front(pending[c]) \in Seq(PendingReply) /\ Len(Front(pending[c])) = Len(pending[c]) - 1
    BY <1>5, <1>6, FrontFacts
  <1>8. pending' \in [Conn -> Seq(PendingReply)] /\ SameConn(pending, pending', p)
    BY <1>1, <1>2, <1>4, <1>7 DEF SameConn
  <1>9. \A d \in Home(p) :
               /\ Len(pending'[d]) = Number(Front(stack[p]), SyncFrame(d))
               /\ marked'[d] = Number(Front(stack[p]), MarkedFrame(d))
    BY <1>1, <1>2, <1>4, <1>7
  <1>10. WaitInv'
    BY <1>1, <1>2, <1>3, <1>8, <1>9, HomeFacts, PopStep
  <1>11. alive' \in [Proc -> BOOLEAN] /\ connected' \in [Conn -> BOOLEAN]
    BY DEF SyncReturn, DidFailToSendSyncMessage, Terminate, ConnTypes
  <1>12. ConnTypes'
    BY <1>11 DEF SyncReturn, ConnTypes, dispatchVars, otherVars, outVars
  <1> QED
    BY <1>10, <1>12 DEF IInv, WaitInv

LEMMA SyncCheckStep ==
    ASSUME IInv, NEW p \in Proc, SyncCheck(p) PROVE IInv'
  <1> DEFINE c == Top(p).conn
             f == [Top(p) EXCEPT !.pc = "blocked"]
  <1>0. ConnTypes /\ WaitInv /\ left' \in [Conn -> [Ops -> Nat]]
    BY DEF IInv, WaitInv, SyncCheck, ConnTypes
  <1>1. At(p, "sync", "check")
    BY DEF SyncCheck
  <1>2. CASE StopsWaiting(c)
    <2>1. SyncReturn(p, Top(p).conn, Last(pending[c]).got) /\ UNCHANGED semaphore
      BY <1>2 DEF SyncCheck
    <2> QED
      BY <1>0, <1>1, <2>1, SyncReturnStep
  <1>3. CASE ~StopsWaiting(c)
    <2>1. /\ stack[p] # <<>> /\ Top(p) = Last(stack[p]) /\ Top(p) \in GoodFrame(p)
          /\ Top(p) \in Frame /\ Top(p).kind = "sync" /\ Top(p).pc = "check"
      BY <1>0, <1>1, TopFacts
    <2>2. /\ Replace(p, f)
          /\ UNCHANGED <<pending, marked, runq, shouldWait, queuePc, toDispatch, semaphore>>
      BY <1>3 DEF SyncCheck, loopVars, connVars, replyVars, socketVars, dispatchVars
    <2>3. ~Last(pending[c]).got /\ shouldWait[c]
      BY <1>3 DEF StopsWaiting
    <2>4. /\ f \in GoodFrame(p) /\ f.kind = Last(stack[p]).kind /\ f.conn = Last(stack[p]).conn
          /\ f.msg = Last(stack[p]).msg /\ f.pc = "blocked" /\ f.kind = "sync" /\ f.conn = c
      BY <2>1 DEF GoodFrame, Frame
    <2>5. ~AtTop(stack[p], "sync", "dispatch")
      BY <2>1 DEF AtTop
    <2> HIDE DEF f, c
    <2>6. WaitInv'
      BY <1>0, <2>1, <2>2, <2>3, <2>4, <2>5, HomeFacts, ReplaceStep
    <2>7. ConnTypes'
      BY <1>0, <1>3 DEF SyncCheck, c, ConnTypes, connVars, loopVars, replyVars, otherVars,
                        outVars, socketVars, dispatchVars
    <2> QED
      BY <2>6, <2>7 DEF IInv, WaitInv
  <1> QED
    BY <1>2, <1>3

LEMMA SyncTimeoutStep ==
    ASSUME IInv, NEW p \in Proc, SyncTimeout(p) PROVE IInv'
  <1>0. ConnTypes /\ WaitInv
    BY DEF IInv, WaitInv
  <1>1. /\ At(p, "sync", "blocked") /\ Spend(Top(p).conn, "timeout")
        /\ SyncReturn(p, Top(p).conn, FALSE) /\ UNCHANGED semaphore
    BY DEF SyncTimeout
  <1>2. Top(p).conn \in Conn
    BY <1>0, <1>1, TopFacts
  <1>3. left' \in [Conn -> [Ops -> Nat]]
    BY <1>0, <1>1, <1>2, SpendTypes DEF Ops
  <1> QED
    BY <1>0, <1>1, <1>3, SyncReturnStep

LEMMA SendSyncStep ==
    ASSUME IInv, NEW c \in Conn, SendSync(c) PROVE IInv'
  <1> DEFINE p == ProcOf[c]
             id == requestID[c] + 1
             m == [kind |-> "sync", id |-> id, marked |-> ShouldMark(c, TRUE), n |-> sent[c] + 1]
             f == NewFrame("sync", "dispatch", c, m, FALSE)
             r == [id |-> id, got |-> FALSE]
             s == Append(stack[p], f)
  <1>0. ConnTypes /\ WaitInv /\ p \in Proc /\ c \in Home(p)
    BY ConnAssumption DEF IInv, WaitInv, Home
  <1>1. /\ Running(p) /\ Spend(c, "sync") /\ requestID' = [requestID EXCEPT ![c] = id]
        /\ UNCHANGED <<client, shouldWait, queuePc, wire, incoming, marked, invalid, secondary,
                       delayed, runq, toDispatch, scheduled, semaphore>>
    BY DEF SendSync, dispatchVars, otherVars, loopVars
  <1>2. id \in Nat /\ m \in Msg
    <2>1. id \in Nat /\ sent[c] + 1 \in Nat
      BY <1>0 DEF ConnTypes
    <2>2. ShouldMark(c, TRUE) \in BOOLEAN
      BY ShouldMarkType, Zenon
    <2> QED
      BY <2>1, <2>2, MessageTypes
  <1>3. left' \in [Conn -> [Ops -> Nat]] /\ requestID' \in [Conn -> Nat]
    <2>1. left' \in [Conn -> [Ops -> Nat]]
      BY <1>0, <1>1, SpendTypes DEF Ops
    <2> QED
      BY <1>0, <1>1, <1>2, <2>1 DEF ConnTypes
  <1>4. CASE client[c] /\ shouldWait[c]
    <2>1. /\ pending' = [pending EXCEPT ![c] = Append(@, r)]
          /\ SendMessage(c, m) /\ sent' = [sent EXCEPT ![c] = @ + 1]
          /\ stack' = [stack EXCEPT ![p] = s] /\ UNCHANGED <<alive, connected>>
      BY <1>0, <1>4 DEF SendSync, Push, WaitInv, WaitTypes
    <2>2. /\ f \in GoodFrame(p) /\ f.kind = "sync" /\ f.conn = c /\ f \in Frame
          /\ f.pc = "dispatch"
      BY <1>0, <1>2, EmptySeq DEF NewFrame, GoodFrame, Frame
    <2>3. r \in PendingReply
      BY <1>2 DEF PendingReply
    <2>4. outgoing' \in [Conn -> Seq(Msg)] /\ queue' \in [Conn -> Seq(WorkItem)]
      BY <1>0, <1>2, <2>1, SendMessageTypes
    <2>5. GoodStack(p, stack[p]) /\ (stack[p] # <<>> => Last(stack[p]).kind = "handler")
      BY <1>0, <1>1, HomeFacts DEF Running, Top
    <2> HIDE DEF p, id, m, f, r
    <2>6. GoodStack(p, s) /\ s # <<>> /\ Last(s) = f
      BY <2>2, <2>5, GoodPush
    <2>7. \A d \in Conn : /\ Number(stack[p], SyncFrame(d)) \in Nat
                          /\ Number(s, SyncFrame(d)) =
                                 Number(stack[p], SyncFrame(d)) + IF d = c THEN 1 ELSE 0
                          /\ Number(s, MarkedFrame(d)) = Number(stack[p], MarkedFrame(d))
      <3>1. \A d \in Conn : (f \in SyncFrame(d) <=> d = c) /\ f \notin MarkedFrame(d)
        BY <2>2 DEF SyncFrame, MarkedFrame
      <3> QED
        BY <2>2, <2>5, <3>1, PushNumber
    <2> HIDE DEF s
    <2>8. /\ pending \in [Conn -> Seq(PendingReply)]
          /\ \A d \in Home(p) : /\ d \in Conn
                                /\ Len(pending[d]) = Number(stack[p], SyncFrame(d))
                                /\ marked[d] = Number(stack[p], MarkedFrame(d))
      BY <1>0, HomeFacts
    <2>9. pending' \in [Conn -> Seq(PendingReply)] /\ SameConn(pending, pending', p)
      <3>1. pending' \in [Conn -> Seq(PendingReply)]
        BY <2>1, <2>3, <2>8, AppendAt
      <3> QED
        BY <2>1, <2>8, <3>1 DEF SameConn, p
    <2>10. Len(Append(pending[c], r)) = Len(pending[c]) + 1
      BY <2>3, <2>8, AppendProperties
    <2>11. \A d \in Home(p) : /\ Len(pending'[d]) = Number(s, SyncFrame(d))
                              /\ marked'[d] = Number(s, MarkedFrame(d))
      BY <1>1, <2>1, <2>7, <2>8, <2>10
    <2>12. AtTop(s, "sync", "dispatch") /\ ~AtTop(s, "sync", "blocked")
      BY <2>2, <2>6 DEF AtTop
    <2>13. WaitInv'
      BY <1>0, <1>1, <2>1, <2>6, <2>9, <2>11, <2>12, HomeFacts, MainStep
    <2>14. sent' \in [Conn -> Nat]
      BY <1>0, <2>1 DEF ConnTypes
    <2>15. ConnTypes'
      BY <1>0, <1>1, <1>3, <2>1, <2>4, <2>14 DEF ConnTypes
    <2> QED
      BY <2>13, <2>15 DEF IInv, WaitInv
  <1>5. CASE ~(client[c] /\ shouldWait[c])
    <2>1. DidFailToSendSyncMessage(c, TRUE) /\ UNCHANGED <<pending, sent, stack, outgoing, queue>>
      BY <1>5 DEF SendSync, outVars
    <2>2. alive' \in [Proc -> BOOLEAN] /\ connected' \in [Conn -> BOOLEAN]
      BY <1>0, <2>1 DEF DidFailToSendSyncMessage, Terminate, ConnTypes
    <2>3. ConnTypes'
      BY <1>0, <1>1, <1>3, <2>1, <2>2 DEF ConnTypes
    <2>4. UNCHANGED waitVars
      BY <1>1, <2>1 DEF waitVars
    <2> QED
      BY <1>0, <2>3, <2>4, SameWait DEF IInv, WaitInv
  <1> QED
    BY <1>4, <1>5

-----------------------------------------------------------------------------
(* The connection work queue of c leaves the stacks alone.  It may only    *)
(* add to what is signalled, and signals whatever it makes a wait notice.  *)
LEMMA QueueStep ==
    ASSUME WaitInv, NEW c \in Conn, UNCHANGED <<stack, marked>>,
           pending' \in [Conn -> Seq(PendingReply)],
           \A d \in Conn : Len(pending'[d]) = Len(pending[d]),
           shouldWait' \in [Conn -> BOOLEAN],
           \A d \in Conn : d # c => pending'[d] = pending[d] /\ shouldWait'[d] = shouldWait[d],
           queuePc' \in [Conn -> {"idle", "signal"}],
           semaphore' \in [Proc -> BOOLEAN],
           \A q \in Proc : semaphore[q] => semaphore'[q],
           runq' \in [Proc -> Seq(Task)], \A q \in Proc : runq'[q] \in Seq(HomeTask(q)),
           toDispatch' \in [Proc -> Seq(Item)],
           \A q \in Proc : toDispatch'[q] \in Seq(HomeItem(q)),
           \A q \in Proc : toDispatch'[q] = toDispatch[q] \/ Signalling(q)',
           \A q \in Proc : Signalling(q) => Signalling(q)' \/ semaphore'[q],
           /\ AtTop(stack[ProcOf[c]], "sync", "blocked") /\ Last(stack[ProcOf[c]]).conn = c
              /\ (Last(pending'[c]).got \/ ~shouldWait'[c])
              => Last(pending[c]).got \/ ~shouldWait[c] \/ semaphore'[ProcOf[c]]
    PROVE  WaitInv'
  <1>1. WaitTypes'
    BY DEF WaitInv, WaitTypes
  <1>2. Homes'
    BY DEF WaitInv, Homes
  <1>3. Counts'
    BY DEF WaitInv, Counts
  <1>4. Signalled'
    <2> SUFFICES ASSUME NEW q \in Proc
                 PROVE  MessagesSignalled(q)' /\ RepliesSignalled(q)'
      BY DEF Signalled
    <2>1. MessagesSignalled(q)'
      BY DEF WaitInv, Signalled, MessagesSignalled
    <2>2. RepliesSignalled(q)'
      <3> SUFFICES ASSUME AtTop(stack[q], "sync", "blocked"),
                          Last(pending'[Last(stack[q]).conn]).got \/ ~shouldWait'[Last(stack[q]).conn]
                   PROVE  semaphore'[q]
        BY DEF RepliesSignalled
      <3> DEFINE d == Last(stack[q]).conn
      <3>1. GoodStack(q, stack[q]) /\ stack[q] # <<>> /\ Last(stack[q]).kind = "sync"
        BY DEF WaitInv, Homes, AtTop
      <3>2. Last(stack[q]) \in GoodFrame(q)
        BY <3>1, GoodTop
      <3>3. d \in Conn /\ ProcOf[d] = q
        BY <3>1, <3>2 DEF GoodFrame, Home
      <3>4. Last(pending[d]).got \/ ~shouldWait[d] => semaphore[q]
        BY DEF WaitInv, Signalled, RepliesSignalled
      <3>5. CASE d = c
        BY <3>3, <3>4, <3>5
      <3>6. CASE d # c
        BY <3>3, <3>4, <3>6
      <3> QED
        BY <3>5, <3>6
    <2> QED
      BY <2>1, <2>2
  <1> QED
    BY <1>1, <1>2, <1>3, <1>4 DEF WaitInv

(* The facts about a queue step that most steps leave alone.               *)
LEMMA QueueFacts ==
    ASSUME WaitInv
    PROVE  /\ pending \in [Conn -> Seq(PendingReply)] /\ shouldWait \in [Conn -> BOOLEAN]
           /\ queuePc \in [Conn -> {"idle", "signal"}] /\ semaphore \in [Proc -> BOOLEAN]
           /\ runq \in [Proc -> Seq(Task)] /\ \A q \in Proc : runq[q] \in Seq(HomeTask(q))
           /\ toDispatch \in [Proc -> Seq(Item)]
           /\ \A q \in Proc : toDispatch[q] \in Seq(HomeItem(q))
  BY DEF WaitInv, WaitTypes, Homes

(* A message is read: the head of the socket's buffer.                     *)
LEMMA ReadableFacts ==
    ASSUME ConnTypes, NEW c \in Conn, Readable(c), Consume(c)
    PROVE  /\ Head(wire[c]) \in Msg /\ wire' \in [Conn -> Seq(Msg)]
           /\ ProcOf[c] \in Proc
  <1>1. wire \in [Conn -> Seq(Msg)] /\ wire[c] # <<>> /\ wire' = [wire EXCEPT ![c] = Tail(@)]
    BY DEF ConnTypes, Readable, Consume
  <1>2. wire' \in [Conn -> Seq(Msg)]
    BY <1>1, TailAt
  <1> QED
    BY <1>1, <1>2, HeadTailProperties, ConnAssumption

LEMMA TaskAdded ==
    ASSUME WaitInv, NEW c \in Conn, NEW t \in HomeTask(ProcOf[c])
    PROVE  LET r == [runq EXCEPT ![ProcOf[c]] = Append(@, t)]
           IN  r \in [Proc -> Seq(Task)] /\ \A q \in Proc : r[q] \in Seq(HomeTask(q))
  <1> DEFINE p == ProcOf[c]
             r == [runq EXCEPT ![p] = Append(@, t)]
  <1>1. /\ p \in Proc /\ runq \in [Proc -> Seq(Task)]
        /\ \A q \in Proc : runq[q] \in Seq(HomeTask(q))
    BY QueueFacts, ConnAssumption
  <1>2. t \in Task
    BY DEF HomeTask, Task, Home
  <1>3. r \in [Proc -> Seq(Task)]
    BY <1>1, <1>2, AppendAt
  <1>4. Append(runq[p], t) \in Seq(HomeTask(p))
    BY <1>1, AppendProperties
  <1>5. \A q \in Proc : r[q] \in Seq(HomeTask(q))
    BY <1>1, <1>4
  <1> QED
    BY <1>3, <1>5

LEMMA ReplyStep ==
    ASSUME IInv, NEW c \in Conn, ProcessIncomingSyncReply(c) PROVE IInv'
  <1> DEFINE p == ProcOf[c]
             id == Head(wire[c]).id
             hits == {i \in DOMAIN pending[c] : pending[c][i].id = id}
             mark(x, i) == IF i \in hits THEN [x[i] EXCEPT !.got = TRUE] ELSE x[i]
             t == [i \in DOMAIN pending[c] |-> mark(pending[c], i)]
  <1>0. ConnTypes /\ WaitInv
    BY DEF IInv, WaitInv
  <1>1. /\ UNCHANGED <<client, connected, outgoing, incoming, invalid, delayed, queue, requestID,
                       scheduled, alive, sent, left>>
        /\ UNCHANGED <<stack, marked, shouldWait, queuePc, runq, toDispatch>>
    BY DEF ProcessIncomingSyncReply, dispatchVars, outVars, mainVars, countVars
  <1>2. wire' \in [Conn -> Seq(Msg)] /\ p \in Proc
    BY <1>0, ReadableFacts DEF ProcessIncomingSyncReply
  <1>3. \A q \in Proc : Signalling(q)' = Signalling(q)
    BY <1>1 DEF Signalling
  <1>4. CASE hits # {}
    <2>1. /\ pending' = [pending EXCEPT ![c] = t] /\ UNCHANGED secondary
          /\ semaphore' = [semaphore EXCEPT ![p] = @ \/ Len(pending[c]) \in hits]
      BY <1>4 DEF ProcessIncomingSyncReply, ReplyWakesClient
    <2>2. /\ pending[c] \in Seq(PendingReply) /\ Len(pending[c]) \in Nat
          /\ DOMAIN pending[c] = 1..Len(pending[c])
          /\ \A i \in 1..Len(pending[c]) : pending[c][i] \in PendingReply
      BY <1>0, QueueFacts, LenProperties, ElementOfSeq
    <2>3. \A i \in 1..Len(pending[c]) : mark(pending[c], i) \in PendingReply
      BY <2>2 DEF PendingReply
    <2>4. t \in [1..Len(pending[c]) -> PendingReply]
      BY <2>2, <2>3
    <2>5. t \in Seq(PendingReply) /\ Len(t) = Len(pending[c])
      BY <2>2, <2>4, FunctionIsSeq
    <2>6. Len(pending[c]) \notin hits /\ pending[c] # <<>> => Last(t) = Last(pending[c])
      <3>1. pending[c] # <<>> => Len(pending[c]) \in 1..Len(pending[c])
        BY <2>2, EmptySeq
      <3> QED
        BY <2>2, <2>5, <3>1 DEF Last
    <2> HIDE DEF t, hits
    <2>7. /\ pending' \in [Conn -> Seq(PendingReply)] /\ pending'[c] = t
          /\ \A d \in Conn : Len(pending'[d]) = Len(pending[d])
          /\ \A d \in Conn : d # c => pending'[d] = pending[d]
      BY <1>0, <2>1, <2>5, QueueFacts
    <2>8. /\ semaphore' \in [Proc -> BOOLEAN] /\ \A q \in Proc : semaphore[q] => semaphore'[q]
          /\ Len(pending[c]) \in hits => semaphore'[p]
      BY <1>0, <1>2, <2>1, QueueFacts
    <2>9. AtTop(stack[p], "sync", "blocked") /\ Last(stack[p]).conn = c => pending[c] # <<>>
      <3> SUFFICES ASSUME AtTop(stack[p], "sync", "blocked"), Last(stack[p]).conn = c
                   PROVE  pending[c] # <<>>
        OBVIOUS
      <3>1. At(p, "sync", "blocked")
        BY DEF ProcessIncomingSyncReply, Readable, QueueIdle, At, AtTop, Top
      <3>2. Number(stack[p], SyncFrame(c)) # 0
        BY <1>0, <1>2, <3>1, TopFacts
      <3>3. Len(pending[c]) # 0
        BY <1>0, <3>2 DEF WaitInv, Counts
      <3> QED
        BY <3>3, EmptySeq
    <2>10. /\ AtTop(stack[p], "sync", "blocked") /\ Last(stack[p]).conn = c
              /\ (Last(pending'[c]).got \/ ~shouldWait'[c])
              => Last(pending[c]).got \/ ~shouldWait[c] \/ semaphore'[p]
      BY <1>1, <2>6, <2>7, <2>8, <2>9
    <2>11. WaitInv'
      BY <1>0, <1>1, <1>3, <2>7, <2>8, <2>10, QueueFacts, QueueStep
    <2>12. ConnTypes'
      BY <1>0, <1>1, <1>2, <2>1 DEF ConnTypes
    <2> QED
      BY <2>11, <2>12 DEF IInv, WaitInv
  <1>5. CASE hits = {}
    <2>1. UNCHANGED waitVars
      BY <1>1, <1>5 DEF ProcessIncomingSyncReply, waitVars
    <2>2. secondary' \in [Conn -> SecondaryCall]
      <3>1. \/ secondary' = secondary
            \/ secondary' = [secondary EXCEPT ![c].got = TRUE, ![c].set = TRUE]
        BY <1>5 DEF ProcessIncomingSyncReply
      <3> DEFINE x == [secondary EXCEPT ![c].got = TRUE]
      <3>2. secondary \in [Conn -> SecondaryCall]
        BY <1>0 DEF ConnTypes
      <3>3. x \in [Conn -> SecondaryCall]
        BY <3>2 DEF SecondaryCall
      <3>4. [secondary EXCEPT ![c].got = TRUE, ![c].set = TRUE] = [x EXCEPT ![c].set = TRUE]
        OBVIOUS
      <3> HIDE DEF x
      <3>5. [x EXCEPT ![c].set = TRUE] \in [Conn -> SecondaryCall]
        BY <3>3 DEF SecondaryCall
      <3> QED
        BY <3>1, <3>2, <3>4, <3>5
    <2>3. ConnTypes'
      BY <1>0, <1>1, <1>2, <2>2 DEF ConnTypes
    <2> QED
      BY <1>0, <2>1, <2>3, SameWait DEF IInv, WaitInv
  <1> QED
    BY <1>4, <1>5

LEMMA ProcessMarkedMessageStep ==
    ASSUME IInv, NEW c \in Conn, ProcessMarkedMessage(c) PROVE IInv'
  <1> DEFINE p == ProcOf[c]
             item == [conn |-> c, msg |-> Head(wire[c])]
             t == SyncTask(c)
  <1>0. ConnTypes /\ WaitInv /\ c \in Home(p)
    BY DEF IInv, WaitInv, Home
  <1>1. /\ UNCHANGED <<client, connected, outgoing, incoming, invalid, secondary, delayed, queue,
                       requestID, alive, sent, left>>
        /\ UNCHANGED <<stack, marked, pending, shouldWait, semaphore>>
        /\ runq' = [runq EXCEPT ![p] = IF PostsTask(c) THEN Append(@, t) ELSE @]
        /\ scheduled' = [scheduled EXCEPT ![p] = @ \cup {c}]
        /\ toDispatch' = [toDispatch EXCEPT ![p] = Append(@, item)]
        /\ queuePc' = [queuePc EXCEPT ![c] = "signal"]
    BY DEF ProcessMarkedMessage, dispatchVars, replyVars, otherVars, outVars, mainVars, countVars
  <1>2. wire' \in [Conn -> Seq(Msg)] /\ p \in Proc /\ Head(wire[c]) \in Msg
    BY <1>0, ReadableFacts DEF ProcessMarkedMessage
  <1>3. item \in HomeItem(p) /\ item \in Item /\ t \in HomeTask(p)
    BY <1>0, <1>2 DEF HomeItem, Item, HomeTask, SyncTask
  <1> HIDE DEF item, t
  <1>4. runq' \in [Proc -> Seq(Task)] /\ \A q \in Proc : runq'[q] \in Seq(HomeTask(q))
    <2>1. CASE PostsTask(c)
      <3>1. runq' = [runq EXCEPT ![p] = Append(@, t)]
        BY <1>1, <2>1
      <3> QED
        BY <1>0, <1>3, <3>1, TaskAdded
    <2>2. CASE ~PostsTask(c)
      <3>1. runq' = runq
        BY <1>0, <1>1, <2>2, QueueFacts
      <3> QED
        BY <1>0, <3>1, QueueFacts
    <2> QED
      BY <2>1, <2>2
  <1>5. toDispatch' \in [Proc -> Seq(Item)] /\ \A q \in Proc : toDispatch'[q] \in Seq(HomeItem(q))
    <2>1. toDispatch' \in [Proc -> Seq(Item)]
      BY <1>0, <1>1, <1>2, <1>3, QueueFacts, AppendAt
    <2>2. Append(toDispatch[p], item) \in Seq(HomeItem(p))
      BY <1>0, <1>2, <1>3, QueueFacts, AppendProperties
    <2> QED
      BY <1>0, <1>1, <1>2, <2>1, <2>2, QueueFacts
  <1>6. /\ queuePc' \in [Conn -> {"idle", "signal"}]
        /\ \A q \in Proc : Signalling(q) => Signalling(q)'
        /\ Signalling(p)'
    BY <1>0, <1>1, QueueFacts DEF Signalling
  <1>7. \A q \in Proc : toDispatch'[q] = toDispatch[q] \/ Signalling(q)'
    BY <1>0, <1>1, <1>6, QueueFacts
  <1>8. WaitInv'
    BY <1>0, <1>1, <1>4, <1>5, <1>6, <1>7, QueueFacts, QueueStep
  <1>9. scheduled' \in [Proc -> SUBSET Conn]
    BY <1>0, <1>1 DEF ConnTypes
  <1>10. ConnTypes'
    BY <1>0, <1>1, <1>2, <1>9 DEF ConnTypes
  <1> QED
    BY <1>8, <1>10 DEF IInv, WaitInv

LEMMA WakeUpStep ==
    ASSUME IInv, NEW c \in Conn, WakeUpClientRunLoop(c) PROVE IInv'
  <1> DEFINE p == ProcOf[c]
  <1>0. ConnTypes /\ WaitInv /\ p \in Proc
    BY ConnAssumption DEF IInv, WaitInv
  <1>1. /\ UNCHANGED <<client, connected, outgoing, incoming, invalid, secondary, delayed, queue,
                       wire, requestID, scheduled, alive, sent, left>>
        /\ UNCHANGED <<stack, marked, pending, shouldWait, runq, toDispatch>>
        /\ queuePc' = [queuePc EXCEPT ![c] = "idle"]
        /\ semaphore' = [semaphore EXCEPT ![p] = TRUE]
    BY <1>0 DEF WakeUpClientRunLoop, MessageWakesClient, dispatchVars, replyVars, otherVars,
                outVars, mainVars, countVars
  <1>2. /\ queuePc' \in [Conn -> {"idle", "signal"}] /\ semaphore' \in [Proc -> BOOLEAN]
        /\ \A q \in Proc : semaphore[q] => semaphore'[q]
    BY <1>0, <1>1, QueueFacts
  <1>3. \A q \in Proc : Signalling(q) => Signalling(q)' \/ semaphore'[q]
    BY <1>0, <1>1, QueueFacts DEF Signalling
  <1>4. WaitInv'
    BY <1>0, <1>1, <1>2, <1>3, QueueFacts, QueueStep
  <1>5. ConnTypes'
    BY <1>0, <1>1 DEF ConnTypes
  <1> QED
    BY <1>4, <1>5 DEF IInv, WaitInv

LEMMA EnqueueStep ==
    ASSUME IInv, NEW c \in Conn, EnqueueIncomingMessage(c) PROVE IInv'
  <1> DEFINE p == ProcOf[c]
             t == [kind |-> "one", conn |-> c]
  <1>0. ConnTypes /\ WaitInv /\ c \in Home(p)
    BY DEF IInv, WaitInv, Home
  <1>1. /\ UNCHANGED <<client, connected, outgoing, invalid, secondary, delayed, queue,
                       requestID, scheduled, alive, sent, left>>
        /\ UNCHANGED <<stack, marked, pending, shouldWait, semaphore, queuePc, toDispatch>>
        /\ runq' = [runq EXCEPT ![p] = @ \o <<t>>]
        /\ incoming' = [incoming EXCEPT ![c] = Append(@, Head(wire[c]))]
    BY DEF EnqueueIncomingMessage, OneTask, dispatchVars, replyVars, otherVars, outVars,
           mainVars, countVars
  <1>2. wire' \in [Conn -> Seq(Msg)] /\ p \in Proc /\ Head(wire[c]) \in Msg
    BY <1>0, ReadableFacts DEF EnqueueIncomingMessage
  <1>3. t \in HomeTask(p) /\ t \in Task
    BY <1>0 DEF HomeTask, Task
  <1> HIDE DEF t
  <1>4. runq' = [runq EXCEPT ![p] = Append(@, t)]
    <2>1. runq[p] \o <<t>> = Append(runq[p], t)
      BY <1>0, <1>2, <1>3, QueueFacts, AppendIsConcat
    <2> QED
      BY <1>1, <2>1
  <1>5. runq' \in [Proc -> Seq(Task)] /\ \A q \in Proc : runq'[q] \in Seq(HomeTask(q))
    BY <1>0, <1>3, <1>4, TaskAdded
  <1>6. \A q \in Proc : Signalling(q)' = Signalling(q)
    BY <1>1 DEF Signalling
  <1>7. WaitInv'
    BY <1>0, <1>1, <1>5, <1>6, QueueFacts, QueueStep
  <1>8. incoming' \in [Conn -> Seq(Msg)]
    BY <1>0, <1>1, <1>2, AppendAt DEF ConnTypes
  <1>9. ConnTypes'
    BY <1>0, <1>1, <1>2, <1>8 DEF ConnTypes
  <1> QED
    BY <1>7, <1>9 DEF IInv, WaitInv

(* Called from ReadEndOfFile and PostedDidClose.                           *)
LEMMA DidCloseStep ==
    ASSUME IInv, NEW c \in Conn, QueueIdle(c), ConnectionDidClose(c),
           queue' \in [Conn -> Seq(WorkItem)]
    PROVE  IInv'
  <1> DEFINE p == ProcOf[c]
             t == [kind |-> "close", conn |-> c]
  <1>0. ConnTypes /\ WaitInv /\ c \in Home(p) /\ p \in Proc
    BY ConnAssumption DEF IInv, WaitInv, Home
  <1>1. /\ UNCHANGED <<client, outgoing, incoming, invalid, delayed, requestID, scheduled,
                       alive, sent, left>>
        /\ UNCHANGED <<stack, marked, pending, queuePc, toDispatch>>
        /\ connected' = [connected EXCEPT ![c] = FALSE]
        /\ wire' = [wire EXCEPT ![c] = <<>>]
        /\ secondary' = [secondary EXCEPT ![c].set = SecondaryAtClose(c)]
        /\ runq' = [runq EXCEPT ![p] = Append(@, t)]
        /\ shouldWait' = [shouldWait EXCEPT ![c] = FALSE]
        /\ semaphore' = [semaphore EXCEPT ![p] = @ \/ pending[c] # <<>>]
    BY DEF ConnectionDidClose, CloseWakes, dispatchVars, mainVars, countVars
  <1>2. t \in HomeTask(p)
    BY <1>0 DEF HomeTask
  <1> HIDE DEF t
  <1>3. runq' \in [Proc -> Seq(Task)] /\ \A q \in Proc : runq'[q] \in Seq(HomeTask(q))
    BY <1>0, <1>1, <1>2, TaskAdded
  <1>4. /\ semaphore' \in [Proc -> BOOLEAN] /\ \A q \in Proc : semaphore[q] => semaphore'[q]
        /\ pending[c] # <<>> => semaphore'[p]
    BY <1>0, <1>1, QueueFacts
  <1>5. AtTop(stack[p], "sync", "blocked") /\ Last(stack[p]).conn = c => pending[c] # <<>>
    <2> SUFFICES ASSUME AtTop(stack[p], "sync", "blocked"), Last(stack[p]).conn = c
                 PROVE  pending[c] # <<>>
      OBVIOUS
    <2>1. At(p, "sync", "blocked")
      BY DEF QueueIdle, At, AtTop, Top
    <2>2. Number(stack[p], SyncFrame(c)) # 0
      BY <1>0, <2>1, TopFacts
    <2>3. Len(pending[c]) # 0
      BY <1>0, <2>2 DEF WaitInv, Counts
    <2> QED
      BY <2>3, EmptySeq
  <1>6. shouldWait' \in [Conn -> BOOLEAN] /\ \A d \in Conn : d # c => shouldWait'[d] = shouldWait[d]
    BY <1>0, <1>1, QueueFacts
  <1>7. \A q \in Proc : Signalling(q)' = Signalling(q)
    BY <1>1 DEF Signalling
  <1>8. WaitInv'
    BY <1>0, <1>1, <1>3, <1>4, <1>5, <1>6, <1>7, QueueFacts, QueueStep
  <1>9. secondary' \in [Conn -> SecondaryCall]
    <2>1. secondary \in [Conn -> SecondaryCall]
      BY <1>0 DEF ConnTypes
    <2>2. SecondaryAtClose(c) \in BOOLEAN
      BY DEF SecondaryAtClose
    <2> QED
      BY <1>1, <2>1, <2>2 DEF SecondaryCall
  <1>10. wire' \in [Conn -> Seq(Msg)] /\ connected' \in [Conn -> BOOLEAN]
    BY <1>0, <1>1, EmptySeq DEF ConnTypes
  <1>11. ConnTypes'
    BY <1>0, <1>1, <1>9, <1>10 DEF ConnTypes
  <1> QED
    BY <1>8, <1>11 DEF IInv, WaitInv

-----------------------------------------------------------------------------
(* The invariant is inductive.                                             *)
LEMMA InitInv == Init => IInv
  <1> SUFFICES ASSUME Init PROVE IInv
    OBVIOUS
  <1>1. ConnTypes
    BY EmptySeq, ConnAssumption DEF Init, ConnTypes, SecondaryCall, NoCall
  <1>2. WaitTypes
    BY EmptySeq DEF Init, WaitTypes
  <1>3. Homes
    <2> SUFFICES ASSUME NEW p \in Proc
                 PROVE  /\ GoodStack(p, stack[p])
                        /\ runq[p] \in Seq(HomeTask(p)) /\ toDispatch[p] \in Seq(HomeItem(p))
      BY DEF Homes
    <2>1. stack[p] = <<>> /\ runq[p] = <<>> /\ toDispatch[p] = <<>>
      BY DEF Init
    <2> QED
      BY <2>1, GoodEmpty, EmptySeq
  <1>4. Counts
    <2> SUFFICES ASSUME NEW c \in Conn
                 PROVE  /\ Len(pending[c]) = Number(stack[ProcOf[c]], SyncFrame(c))
                        /\ marked[c] = Number(stack[ProcOf[c]], MarkedFrame(c))
      BY DEF Counts
    <2>1. ProcOf[c] \in Proc
      BY ConnAssumption
    <2>2. pending[c] = <<>> /\ marked[c] = 0 /\ stack[ProcOf[c]] = <<>>
      BY <2>1 DEF Init
    <2>3. Len(<<>>) = 0
      BY EmptySeq
    <2> QED
      BY <2>2, <2>3, NumberOfEmpty
  <1>5. Signalled
    BY DEF Init, Signalled, MessagesSignalled, RepliesSignalled, AtTop
  <1> QED
    BY <1>1, <1>2, <1>3, <1>4, <1>5 DEF IInv

LEMMA ConnSteps ==
    ASSUME IInv, NEW c \in Conn,
           Client(c) \/ SendDelayedReply(c) \/ QueueThread(c) \/ SecondaryThread(c)
               \/ SecondaryReturn(c, TRUE)
    PROVE  IInv'
  <1>0. ConnTypes /\ WaitInv
    BY DEF IInv, WaitInv
  <1>1. ASSUME ConnTypes' /\ UNCHANGED waitVars PROVE IInv'
    BY <1>0, <1>1, SameWait DEF IInv, WaitInv
  <1>2. CASE Send(c)
    BY <1>0, <1>1, <1>2, SendTypes
  <1>3. CASE SendSync(c)
    BY <1>3, SendSyncStep
  <1>4. CASE Invalidate(c) \/ PostConnectionDidClose(c)
    BY <1>0, <1>1, <1>4, InvalidateTypes
  <1>5. CASE Crash(c) \/ PlatformInvalidate(c)
    BY <1>0, <1>1, <1>5, CloseTypes
  <1>6. CASE SendDelayedReply(c)
    BY <1>0, <1>1, <1>6, SendDelayedReplyTypes
  <1>7. CASE SecondaryBegin(c) \/ SecondarySend(c) \/ SecondaryReturn(c, FALSE)
                 \/ SecondaryReturn(c, TRUE)
    BY <1>0, <1>1, <1>7, SecondaryTypes
  <1>8. CASE SendOutgoingMessages(c)
    BY <1>0, <1>1, <1>8, SendOutgoingTypes
  <1>9. CASE ReadEndOfFile(c)
    BY <1>0, <1>9, DidCloseStep DEF ReadEndOfFile, ConnTypes
  <1>10. CASE PostedDidClose(c)
    <2>1. QueueIdle(c) /\ queue[c] # <<>> /\ ConnectionDidClose(c)
      BY <1>10 DEF PostedDidClose, NextWork
    <2>2. queue' \in [Conn -> Seq(WorkItem)]
      BY <1>0, <1>10, <2>1, TailAt DEF PostedDidClose, ConnTypes
    <2> QED
      BY <2>1, <2>2, DidCloseStep
  <1>11. CASE ProcessIncomingSyncReply(c)
    BY <1>11, ReplyStep
  <1>12. CASE ProcessMarkedMessage(c)
    BY <1>12, ProcessMarkedMessageStep
  <1>13. CASE WakeUpClientRunLoop(c)
    BY <1>13, WakeUpStep
  <1>14. CASE EnqueueIncomingMessage(c)
    BY <1>14, EnqueueStep
  <1> QED
    BY <1>2, <1>3, <1>4, <1>5, <1>6, <1>7, <1>8, <1>9, <1>10, <1>11, <1>12, <1>13, <1>14
    DEF Client, QueueThread, SecondaryThread

LEMMA ProcSteps ==
    ASSUME IInv, NEW p \in Proc,
           MainThread(p) \/ MarkInvalid(p) \/ IncrementMarkedCount(p) \/ SyncTimeout(p)
    PROVE  IInv'
  <1>1. CASE MarkInvalid(p)
    <2>1. WaitInv
      BY DEF IInv, WaitInv
    <2> QED
      BY <1>1, <2>1, MarkInvalidTypes, SameWait DEF IInv, WaitInv
  <1>2. CASE SyncTimeout(p)
    BY <1>2, SyncTimeoutStep
  <1>3. CASE IncrementMarkedCount(p)
    BY <1>3, IncrementMarkedCountStep
  <1>4. CASE MainThread(p)
    BY <1>4, EndDispatchStep, DispatchOneMessageStep, DispatchMessagesTaskStep,
       SwapMessagesStep, DispatchNextStep, PutBackStep, DispatchConnectionDidCloseStep,
       SyncDispatchStep, SyncCheckStep, SyncWakeStep
    DEF MainThread
  <1> QED
    BY <1>1, <1>2, <1>3, <1>4

LEMMA NextInv == IInv /\ [Next]_vars => IInv'
  <1> SUFFICES ASSUME IInv, [Next]_vars PROVE IInv'
    OBVIOUS
  <1>1. CASE Next
    BY <1>1, ConnSteps, ProcSteps DEF Next
  <1>2. CASE UNCHANGED vars
    <2>1. ConnTypes /\ WaitInv
      BY DEF IInv, WaitInv
    <2>2. UNCHANGED <<client, connected, outgoing, incoming, invalid, secondary, delayed, queue,
                      wire, requestID, scheduled, alive, sent, left>>
      BY <1>2 DEF vars, connVars, procVars, countVars, dispatchVars, replyVars, otherVars,
                  outVars, socketVars, loopVars, mainVars
    <2>3. UNCHANGED waitVars
      BY <1>2 DEF vars, waitVars, connVars, procVars, dispatchVars, replyVars, socketVars,
                  loopVars, mainVars
    <2>4. ConnTypes'
      BY <2>1, <2>2 DEF ConnTypes
    <2> QED
      BY <2>1, <2>3, <2>4, SameWait DEF IInv, WaitInv
  <1> QED
    BY <1>1, <1>2

LEMMA InvTypes == IInv => TypeOK
  <1> SUFFICES ASSUME IInv PROVE TypeOK
    OBVIOUS
  <1>1. marked \in [Conn -> Nat]
    <2>1. marked \in [Conn -> Int] /\ stack \in [Proc -> Seq(Frame)]
      BY DEF IInv, WaitTypes
    <2>2. ASSUME NEW c \in Conn PROVE marked[c] \in Nat
      <3>1. stack[ProcOf[c]] \in Seq(Frame)
        BY <2>1, ConnAssumption
      <3>2. marked[c] = Number(stack[ProcOf[c]], MarkedFrame(c))
        BY DEF IInv, Counts
      <3> QED
        BY <3>1, <3>2, NumberIsNat
    <2> QED
      BY <2>1, <2>2
  <1> QED
    BY <1>1 DEF IInv, ConnTypes, WaitTypes, TypeOK, SecondaryCall, PendingReply, WorkItem

LEMMA InvWakeup == IInv => NoLostWakeup
  <1> SUFFICES ASSUME IInv, NEW p \in Proc, At(p, "sync", "blocked")
               PROVE  /\ toDispatch[p] # <<>> => semaphore[p] \/ Signalling(p)
                      /\ Last(pending[Top(p).conn]).got \/ ~shouldWait[Top(p).conn] => semaphore[p]
    BY DEF NoLostWakeup
  <1>1. AtTop(stack[p], "sync", "blocked") /\ ~AtTop(stack[p], "sync", "dispatch")
    BY DEF At, Top, AtTop
  <1>2. MessagesSignalled(p) /\ RepliesSignalled(p)
    BY DEF IInv, Signalled
  <1>3. HasSync(stack[p])
    <2>1. stack[p] \in Seq(Frame) /\ stack[p] # <<>> /\ Last(stack[p]).kind = "sync"
      BY <1>1 DEF IInv, WaitTypes, AtTop
    <2>2. /\ Len(stack[p]) \in Nat \ {0} /\ DOMAIN stack[p] = 1..Len(stack[p])
          /\ Last(stack[p]) = stack[p][Len(stack[p])]
      BY <2>1, FrontFacts, LenProperties
    <2> QED
      BY <2>1, <2>2 DEF HasSync
  <1> QED
    BY <1>1, <1>2, <1>3 DEF MessagesSignalled, RepliesSignalled, Top

(* Every variable keeps its type, whatever the number of processes and     *)
(* connections and whatever the client does: in particular the count of    *)
(* marked messages being dispatched never goes below zero, because it is   *)
(* the number of their handlers on the stack of the main thread.           *)
THEOREM TypeCorrect == Spec => []TypeOK
  <1>1. Spec => []IInv
    BY InitInv, NextInv, PTL DEF Spec
  <1> QED
    BY <1>1, InvTypes, PTL

(* waitForSyncReply never sleeps through a message to dispatch, its reply  *)
(* or the close of its connection, for any number of processes and of      *)
(* connections sharing the semaphore of a process, and any depth of nested *)
(* calls of sendSyncMessage.                                               *)
THEOREM NoWakeupIsLost == Spec => []NoLostWakeup
  <1>1. Spec => []IInv
    BY InitInv, NextInv, PTL DEF Spec
  <1> QED
    BY <1>1, InvWakeup, PTL
=============================================================================
