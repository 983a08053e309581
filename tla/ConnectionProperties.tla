------------------------ MODULE ConnectionProperties ------------------------
(***************************************************************************)
(* What makes IPC::Connection correct: no wake-up is lost, no message is   *)
(* stranded, every synchronous call gets one reply and returns, and a      *)
(* message overtakes another only where the code means it to.              *)
(***************************************************************************)
EXTENDS Connection, FiniteSets

(* Somebody is about to signal the semaphore of p.                         *)
Signalling(p) == \E c \in Conn : ProcOf[c] = p /\ queuePc[c] = "signal"

(* A main thread that sleeps in waitForSyncReply has nothing to do, or the *)
(* semaphore is set: no message to dispatch, no reply on top of the stack  *)
(* and no close of the connection is slept through, although one binary    *)
(* semaphore serves all connections and all nested waits of the process.   *)
NoLostWakeup ==
    \A p \in Proc : At(p, "sync", "blocked") =>
        LET c == Top(p).conn
        IN  /\ toDispatch[p] # <<>> => semaphore[p] \/ Signalling(p)
            /\ Last(pending[c]).got \/ ~shouldWait[c] => semaphore[p]

(* The run loop will call dispatchMessages(c), or is about to.             *)
WillDispatch(p, c) ==
    c \in scheduled[p] \/ (At(p, "batch", "swap") /\ Top(p).conn = c)

(* A message to be dispatched while waiting for a sync reply is also       *)
(* dispatched when nobody waits: its connection is in the scheduled set    *)
(* and the run loop holds the task, or dispatchMessages is about to take   *)
(* it.  This is so for the messages set aside in a local vector, too.      *)
NoStrandedMessage ==
    \A p \in Proc : alive[p] =>
        /\ \A c \in scheduled[p] : \E i \in DOMAIN runq[p] : runq[p][i] = SyncTask(c)
        /\ \A i \in DOMAIN toDispatch[p] : WillDispatch(p, toDispatch[p][i].conn)
        /\ \A k \in DOMAIN stack[p] :
             LET f == stack[p][k]
             IN  /\ \A i \in DOMAIN f.held : f.held[i].conn \in scheduled[p]
                 /\ f.conn # NoConn => \A i \in DOMAIN f.rest :
                      f.rest[i].conn # f.conn => f.rest[i].conn \in scheduled[p]

(* The stack of pending replies is the stack of calls: the assertions in   *)
(* sendSyncMessage and waitForSyncReply that the last pending reply is the *)
(* one of the returning call.  The depth of a call is its place among the  *)
(* calls on the same connection, from the bottom of the stack.             *)
PendingMatchesCalls ==
    \A c \in Conn :
        LET s        == stack[ProcOf[c]]
            calls    == {k \in DOMAIN s : s[k].kind = "sync" /\ s[k].conn = c}
            depth(k) == Cardinality({j \in calls : j <= k})
        IN  /\ Cardinality(calls) = Len(pending[c])
            /\ \A k \in calls : s[k].msg.id = pending[c][depth(k)].id

(* How many elements of a sequence are in a set.                           *)
Number(s, P) == Cardinality({k \in DOMAIN s : s[k] \in P})

(* The messages a dispatchMessages has taken: its two local vectors.       *)
Vectors(f) == f.rest \o f.held

(* How many messages in P the frames of a stack have taken.                *)
NumberTaken(s, P) ==
    Cardinality(UNION {{k} \X {j \in DOMAIN Vectors(s[k]) : Vectors(s[k])[j] \in P} : k \in DOMAIN s})

(* The request number i of a connection and its reply, in the places where *)
(* they can be: as messages, items of SyncMessageState and running         *)
(* handlers of the end d that answers.                                     *)
Request(i) == [kind : {"sync"}, id : {i}, marked : BOOLEAN, n : Nat]

ReplyTo(i) == [kind : {"reply"}, id : {i}, marked : BOOLEAN, n : Nat]

RequestItem(d, i) == [conn : {d}, msg : Request(i)]

RequestHandler(d, i) ==
    {f \in Frame : f.kind = "handler" /\ f.conn = d /\ f.msg \in Request(i)}

(* How often the end d has the request i, read and not answered.           *)
Unanswered(d, i) ==
    LET p == ProcOf[d]
    IN    Number(incoming[d], Request(i))
        + Number(toDispatch[p], RequestItem(d, i))
        + NumberTaken(stack[p], RequestItem(d, i))
        + Number(stack[p], RequestHandler(d, i))
        + (IF i \in delayed[d] THEN 1 ELSE 0)

(* The number of places where the request i of c is, or its reply.         *)
Tokens(c, i) ==
    LET d == Peer[c]
    IN    Number(outgoing[c], Request(i)) + Number(wire[d], Request(i))
        + Unanswered(d, i)
        + Number(outgoing[d], ReplyTo(i)) + Number(wire[c], ReplyTo(i))

(* A thread is in the call with the request i of c, and the reply is there *)
(* or not.                                                                 *)
InCall(c, i, got) ==
    \/ \E k \in DOMAIN pending[c] : pending[c][k].id = i /\ pending[c][k].got = got
    \/ secondary[c].pc = "blocked" /\ secondary[c].id = i /\ secondary[c].got = got

(* Nothing has gone wrong at this end: no close, no lost message.          *)
Works(c) ==
    /\ client[c] /\ connected[c] /\ alive[ProcOf[c]]
    /\ \A b \in Budgets : left[c]["fail"] = b[c]["fail"]

(* A request is in one place at most on its way through both processes and *)
(* back, and nowhere once the reply is there: a reply is never sent twice  *)
(* (the assertions on replyDecoder in processIncomingSyncReply).  While    *)
(* both ends work and the call waits, somebody still owes the reply.       *)
OneReplyPerRequest ==
    \A c \in Conn : \A i \in 1..requestID[c] :
        /\ Tokens(c, i) <= 1
        /\ InCall(c, i, TRUE) => Tokens(c, i) = 0
        /\ InCall(c, i, FALSE) /\ Works(c) /\ Works(Peer[c]) => Tokens(c, i) = 1

(* A message that is not marked never overtakes a message sent before it   *)
(* on the same connection (a marked one may overtake).                     *)
UnmarkedNeverOvertakes ==
    \A p \in Proc : NextTask(p, "one") =>
        LET c == Head(runq[p]).conn
        IN  incoming[c] # <<>> =>
              \A i \in DOMAIN toDispatch[p] :
                  toDispatch[p][i].conn = c =>
                      toDispatch[p][i].msg.n > Head(incoming[c]).n

(* The main thread sleeps in a call on c and nobody is waking it up.       *)
BlockedOn(c) ==
    LET p == ProcOf[c]
    IN  At(p, "sync", "blocked") /\ Top(p).conn = c /\ ~semaphore[p] /\ ~Signalling(p)

Silent(c) == outgoing[c] = <<>> /\ wire[c] = <<>>

(* Two synchronous callers are never stuck waiting for each other: asleep  *)
(* in calls on the same connection with nothing on its way that could wake *)
(* one of them.  The comment in processIncomingMessage names this deadlock *)
(* as the reason why marked messages are dispatched while waiting.         *)
SendersNotStuck ==
    \A c \in Conn : ~(/\ BlockedOn(c) /\ BlockedOn(Peer[c])
                      /\ Silent(c) /\ Silent(Peer[c]))

(* The setting in which that is so for any number of processes and calls.  *)
(* No connection has OnlySend set on both ends, and an OnlySend connection *)
(* has its process to itself; no message is lost on a full socket, and no  *)
(* client keeps a reply encoder (budgets B allow neither).                 *)
SendersApart(B) ==
    /\ \A c \in Conn : ~(OnlySend[c] /\ OnlySend[Peer[c]])
    /\ \A c, x \in Conn : OnlySend[c] /\ ProcOf[x] = ProcOf[c] => x = c
    /\ \A b \in B, c \in Conn : b[c]["fail"] = 0 /\ b[c]["delay"] = 0

(* Every synchronous call of the main thread returns, if only because the  *)
(* other end closes or a process exits.                                    *)
SyncReturns ==
    \A c \in Conn : pending[c] # <<>> ~> (pending[c] = <<>> \/ ~alive[ProcOf[c]])

(* So does every synchronous call of a secondary thread.                   *)
SecondaryReturns ==
    \A c \in Conn : secondary[c].pc # "idle" ~>
                        (secondary[c].pc = "idle" \/ ~alive[ProcOf[c]])

(* Every message that reaches a process is dispatched (or dropped, once    *)
(* the connection is invalid): the queues drain.                           *)
MessagesDispatched ==
    \A c \in Conn : LET p == ProcOf[c] IN
        (incoming[c] # <<>> \/ toDispatch[p] # <<>>) ~>
            ((incoming[c] = <<>> /\ toDispatch[p] = <<>>) \/ ~alive[p])
=============================================================================
