------------------------------ MODULE Connection ------------------------------
(***************************************************************************)
(* IPC::Connection of WebKit2 (Platform/IPC/Connection.cpp, and            *)
(* unix/ConnectionUnix.cpp for the socket).                                *)
(*                                                                         *)
(* A connection object lives in one process.  Three kinds of threads touch *)
(* it: the client run loop (the process's main thread), the connection     *)
(* work queue (it reads and writes the socket) and secondary threads that  *)
(* send synchronous messages.  All connections of a process share one      *)
(* SyncMessageState: a queue of messages to dispatch while waiting for a   *)
(* reply and a binary semaphore.                                           *)
(*                                                                         *)
(* The C++ call stack of the main thread is a sequence of frames, because  *)
(* a message handler may send a synchronous message, which dispatches      *)
(* other messages while it waits, and so on.                               *)
(***************************************************************************)
EXTENDS Integers, Sequences, SequencesExt

CONSTANTS
    Conn,        \* the connection objects (socket ends)
    Proc,        \* the processes; each has one client run loop
    ProcOf,      \* the process of a connection
    Peer,        \* the other end of a connection
    OnlySend,    \* m_onlySendMessagesAsDispatchWhenWaiting...
    ExitOnFail,  \* m_shouldExitOnSyncMessageSendFailure
    NoConn,      \* the null allowedConnection of dispatchMessages
    Budgets      \* how often each operation may be used on a connection:
                 \* one of these

(* What the environment of a connection does: client code, the other       *)
(* threads, the clock and the kernel.                                      *)
Ops == {"async", "urgent", "sync", "secondary", "delay", "invalidate",
        "invalid", "increment", "timeout", "fail", "posted", "crash"}

ASSUME ConnAssumption ==
    /\ NoConn \notin Conn
    /\ ProcOf \in [Conn -> Proc]
    /\ Peer \in [Conn -> Conn]
    /\ \A c \in Conn : Peer[c] # c /\ Peer[Peer[c]] = c
    /\ OnlySend \in [Conn -> BOOLEAN]
    /\ ExitOnFail \in [Conn -> BOOLEAN]
    /\ Budgets \subseteq [Conn -> [Ops -> Nat]]

VARIABLES
    \* fields of a connection
    client,      \* m_client is not null: the connection is valid
    connected,   \* m_isConnected, and the socket is open
    outgoing,    \* m_outgoingMessages
    incoming,    \* m_incomingMessages
    pending,     \* m_pendingSyncReplies
    shouldWait,  \* m_shouldWaitForSyncReplies
    requestID,   \* m_syncRequestID
    marked,      \* m_inDispatchMessageMarkedDispatchWhenWaiting...Count
    invalid,     \* m_didReceiveInvalidMessage
    secondary,   \* a secondary thread and its SecondaryThreadPendingSyncReply
    delayed,     \* requests whose reply encoder the client has kept
    queue,       \* the work items of m_connectionQueue
    queuePc,     \* what the connection queue's thread is doing
    wire,        \* the socket's receive buffer
    \* state of a process
    alive,
    runq,        \* the functions queued on the client RunLoop
    stack,       \* the call stack of the main thread
    semaphore,   \* m_waitForSyncReplySemaphore.m_isSet
    toDispatch,  \* m_messagesToDispatchWhileWaitingForSyncReply
    scheduled,   \* m_didScheduleDispatchMessagesWorkSet
    \* bookkeeping of the model
    sent,        \* messages sent on a connection: numbers the messages
    left         \* what remains of the budget

dispatchVars == <<marked, invalid>>
replyVars    == <<pending, shouldWait, requestID>>
otherVars    == <<secondary, delayed>>
outVars      == <<outgoing, queue>>
socketVars   == <<connected, queuePc, wire>>
loopVars     == <<runq, toDispatch, scheduled, semaphore>>
mainVars     == <<alive, stack>>
countVars    == <<sent, left>>
connVars == <<client, incoming, dispatchVars, replyVars, otherVars, outVars, socketVars>>
procVars == <<loopVars, mainVars>>
vars == <<connVars, procVars, countVars>>

-----------------------------------------------------------------------------
(* Messages.  id is the sync request ID of a sync message or a reply, n    *)
(* numbers the messages (not the replies) of a connection in sending order *)
(* and marked is the DispatchMessageWhenWaitingForSyncReply flag.          *)
Msg == [kind : {"none", "async", "sync", "reply"},
        id : Nat, marked : BOOLEAN, n : Nat]

NoMsg == [kind |-> "none", id |-> 0, marked |-> FALSE, n |-> 0]

Reply(i) == [kind |-> "reply", id |-> i, marked |-> FALSE, n |-> 0]

(* No call is in progress on the secondary thread.                         *)
NoCall == [pc |-> "idle", id |-> 0, got |-> FALSE, set |-> FALSE]

Item == [conn : Conn, msg : Msg]

Task == [kind : {"one", "sync", "close"}, conn : Conn]

SyncTask(c) == [kind |-> "sync", conn |-> c]

(* Frames of the main thread's stack.                                      *)
(*   batch    SyncMessageState::dispatchMessages(conn); rest and held are  *)
(*            its local vectors                                            *)
(*   handler  dispatchMessage has called the client; old is                *)
(*            oldDidReceiveInvalidMessage                                  *)
(*   sync     waitForSyncReply for the request msg.id                      *)
Frame == [kind : {"batch", "handler", "sync"},
          pc : {"swap", "loop", "run", "dispatch", "check", "blocked"},
          conn : Conn \cup {NoConn}, msg : Msg,
          rest : Seq(Item), held : Seq(Item), old : BOOLEAN]

NewFrame(kind, pc, c, m, old) ==
    [kind |-> kind, pc |-> pc, conn |-> c, msg |-> m,
     rest |-> <<>>, held |-> <<>>, old |-> old]

Top(p) == Last(stack[p])

(* The main thread of p is in the frame kind at the point pc.              *)
At(p, kind, pc) ==
    /\ alive[p]
    /\ stack[p] # <<>>
    /\ Top(p).kind = kind
    /\ Top(p).pc = pc

(* The main thread of p runs client code: a message handler, or a run loop *)
(* source such as a timer or an input event.                               *)
Running(p) == alive[p] /\ (stack[p] # <<>> => Top(p).kind = "handler")

(* The run loop of p is about to run a function of the given kind.         *)
NextTask(p, kind) ==
    alive[p] /\ stack[p] = <<>> /\ runq[p] # <<>> /\ Head(runq[p]).kind = kind

Push(p, f) == stack' = [stack EXCEPT ![p] = Append(@, f)]

Replace(p, f) == stack' = [stack EXCEPT ![p] = Append(Front(@), f)]

Pop(p) == stack' = [stack EXCEPT ![p] = Front(@)]

Spend(c, op) == left[c][op] > 0 /\ left' = [left EXCEPT ![c][op] = @ - 1]

-----------------------------------------------------------------------------
Init ==
    /\ client = [c \in Conn |-> TRUE]
    /\ connected = [c \in Conn |-> TRUE]
    /\ outgoing = [c \in Conn |-> <<>>]
    /\ incoming = [c \in Conn |-> <<>>]
    /\ pending = [c \in Conn |-> <<>>]
    /\ shouldWait = [c \in Conn |-> TRUE]
    /\ requestID = [c \in Conn |-> 0]
    /\ marked = [c \in Conn |-> 0]
    /\ invalid = [c \in Conn |-> FALSE]
    /\ secondary = [c \in Conn |-> NoCall]
    /\ delayed = [c \in Conn |-> {}]
    /\ queue = [c \in Conn |-> <<>>]
    /\ queuePc = [c \in Conn |-> "idle"]
    /\ wire = [c \in Conn |-> <<>>]
    /\ alive = [p \in Proc |-> TRUE]
    /\ runq = [p \in Proc |-> <<>>]
    /\ stack = [p \in Proc |-> <<>>]
    /\ semaphore = [p \in Proc |-> FALSE]
    /\ toDispatch = [p \in Proc |-> <<>>]
    /\ scheduled = [p \in Proc |-> {}]
    /\ sent = [c \in Conn |-> 0]
    /\ left \in Budgets

-----------------------------------------------------------------------------
(* Sending.                                                                *)

(* sendMessage marks a message only if the client asked for it, and on an  *)
(* OnlySend connection only while it dispatches a marked message itself.   *)
ShouldMarkFaulty(c, flag) == flag /\ ~OnlySend[c]
ShouldMark(c, flag) == flag /\ (~OnlySend[c] \/ marked[c] > 0)

(* sendMessage: dropped when the connection is invalid.                    *)
SendMessage(c, m) ==
    IF client[c]
    THEN /\ outgoing' = [outgoing EXCEPT ![c] = Append(@, m)]
         /\ queue' = [queue EXCEPT ![c] = Append(@, "send")]
    ELSE UNCHANGED <<outVars>>

(* Connection::send from client code on the main thread.                   *)
Send(c) ==
    /\ Running(ProcOf[c])
    /\ client[c]
    /\ \E op \in {"async", "urgent"} :
        /\ Spend(c, op)
        /\ SendMessage(c, [kind |-> "async", id |-> 0,
                           marked |-> ShouldMark(c, op = "urgent"), n |-> sent[c] + 1])
    /\ sent' = [sent EXCEPT ![c] = @ + 1]
    /\ UNCHANGED <<client, incoming, dispatchVars, replyVars, otherVars,
                   socketVars, procVars>>

(* exit(0), or a crash: the kernel closes the sockets of the process.      *)
Terminate(p) ==
    /\ alive' = [alive EXCEPT ![p] = FALSE]
    /\ connected' = [c \in Conn |-> connected[c] /\ ProcOf[c] # p]

(* didFailToSendSyncMessage, when the call on c failed.                    *)
DidFailToSendSyncMessage(c, failed) ==
    IF failed /\ ExitOnFail[c] THEN Terminate(ProcOf[c])
                               ELSE UNCHANGED <<alive, connected>>

(* sendSyncMessage on the main thread, up to the call of waitForSyncReply. *)
SendSync(c) ==
    LET p  == ProcOf[c]
        id == requestID[c] + 1
        m  == [kind |-> "sync", id |-> id, marked |-> ShouldMark(c, TRUE),
               n |-> sent[c] + 1]
    IN  /\ Running(p)
        /\ Spend(c, "sync")
        /\ requestID' = [requestID EXCEPT ![c] = id]
        /\ IF client[c] /\ shouldWait[c]
           THEN /\ pending' = [pending EXCEPT ![c] =
                                 Append(@, [id |-> id, got |-> FALSE])]
                /\ SendMessage(c, m)
                /\ sent' = [sent EXCEPT ![c] = @ + 1]
                /\ Push(p, NewFrame("sync", "dispatch", c, m, FALSE))
                /\ UNCHANGED <<alive, connected>>
           ELSE /\ DidFailToSendSyncMessage(c, TRUE)
                /\ UNCHANGED <<pending, sent, stack, outVars>>
        /\ UNCHANGED <<client, shouldWait, queuePc, wire, incoming,
                       dispatchVars, otherVars, loopVars>>

(* A reply encoder that the client had kept is sent with sendSyncReply.    *)
SendDelayedReply(c) ==
    /\ Running(ProcOf[c])
    /\ \E i \in delayed[c] :
        /\ SendMessage(c, Reply(i))
        /\ delayed' = [delayed EXCEPT ![c] = @ \ {i}]
    /\ UNCHANGED <<client, secondary, incoming, dispatchVars, replyVars,
                   socketVars, countVars, procVars>>

(* invalidate, called by client code.                                      *)
Invalidate(c) ==
    /\ Running(ProcOf[c])
    /\ client[c]
    /\ Spend(c, "invalidate")
    /\ client' = [client EXCEPT ![c] = FALSE]
    /\ queue' = [queue EXCEPT ![c] = Append(@, "invalidate")]
    /\ UNCHANGED <<outgoing, sent, incoming, dispatchVars, replyVars,
                   otherVars, socketVars, procVars>>

(* markCurrentlyDispatchedMessageAsInvalid.                                *)
MarkInvalid(p) ==
    /\ At(p, "handler", "run")
    /\ Spend(Top(p).conn, "invalid")
    /\ invalid' = [invalid EXCEPT ![Top(p).conn] = TRUE]
    /\ UNCHANGED <<client, marked, sent, incoming, replyVars, otherVars,
                   outVars, socketVars, procVars>>

-----------------------------------------------------------------------------
(* Dispatching on the main thread.                                         *)

(* The count of marked messages being dispatched, after dispatchMessage    *)
(* has called the client (step 1) and after the client returned (-1).      *)
CountMarkedFaulty(c, m, step) == [marked EXCEPT ![c] = IF m.marked \/ step < 0 THEN @ + step ELSE @]
CountMarked(c, m, step) == [marked EXCEPT ![c] = IF m.marked THEN @ + step ELSE @]

(* dispatchMessage up to the call of the client; below is the stack.       *)
DispatchMessage(c, m, below) ==
    LET p == ProcOf[c]
    IN  IF client[c]
        THEN /\ stack' = [stack EXCEPT ![p] =
                            Append(below, NewFrame("handler", "run", c, m, invalid[c]))]
             /\ marked' = CountMarked(c, m, 1)
             /\ invalid' = [invalid EXCEPT ![c] = FALSE]
        ELSE /\ stack' = [stack EXCEPT ![p] = below]
             /\ UNCHANGED dispatchVars

(* incrementDispatchMessageMarkedDispatchWhenWaitingForSyncReplyCount, as  *)
(* createPluginAsynchronously of the plug-in process calls it in the       *)
(* handler of a message that is not marked, so that its calls are marked.  *)
(* From here on the handler counts like that of a marked message; the      *)
(* decrement at its end is the one of EndDispatch (the code leaves it out  *)
(* when the connection has gone away; nothing reads the count then).       *)
IncrementMarkedCount(p) ==
    LET f == Top(p)
    IN  /\ At(p, "handler", "run")
        /\ f.msg.kind = "async" /\ ~f.msg.marked
        /\ Spend(f.conn, "increment")
        /\ marked' = [marked EXCEPT ![f.conn] = @ + 1]
        /\ Replace(p, [f EXCEPT !.msg = [@ EXCEPT !.marked = TRUE]])
        /\ UNCHANGED <<client, alive, invalid, sent, incoming, replyVars, otherVars,
                       outVars, socketVars, loopVars>>

(* dispatchSyncMessage sends the reply, unless the client kept its encoder. *)
SendsReplyFaulty(c, f, kept) == f.msg.kind = "sync" /\ client[c]
SendsReply(c, f, kept) == f.msg.kind = "sync" /\ client[c] /\ ~kept

(* The client returns to dispatchMessage: the reply is sent, the counters  *)
(* go back, and an invalid message is reported to the client, which then   *)
(* invalidates the connection.                                             *)
EndDispatch(p) ==
    /\ At(p, "handler", "run")
    /\ \E kept \in BOOLEAN :
        LET f      == Top(p)
            c      == f.conn
            report == invalid[c] /\ client[c]
        IN  /\ IF kept
               THEN /\ f.msg.kind = "sync" /\ Spend(c, "delay")
                    /\ delayed' = [delayed EXCEPT ![c] = @ \cup {f.msg.id}]
               ELSE UNCHANGED <<delayed, left>>
            /\ outgoing' = [outgoing EXCEPT ![c] =
                             IF SendsReply(c, f, kept) THEN Append(@, Reply(f.msg.id)) ELSE @]
            /\ queue' = [queue EXCEPT ![c] =
                             @ \o (IF SendsReply(c, f, kept) THEN <<"send">> ELSE <<>>)
                               \o (IF report THEN <<"invalidate">> ELSE <<>>)]
            /\ marked' = CountMarked(c, f.msg, -1)
            /\ client' = [client EXCEPT ![c] = @ /\ ~report]
            /\ invalid' = [invalid EXCEPT ![c] = f.old]
    /\ Pop(p)
    /\ UNCHANGED <<secondary, alive, sent, incoming, replyVars, socketVars, loopVars>>

(* dispatchOneMessage, run by the run loop.                                *)
DispatchOneMessage(p) ==
    /\ NextTask(p, "one")
    /\ LET c == Head(runq[p]).conn
       IN  IF incoming[c] = <<>>
           THEN UNCHANGED <<incoming, stack, dispatchVars>>
           ELSE /\ incoming' = [incoming EXCEPT ![c] = Tail(@)]
                /\ DispatchMessage(c, Head(incoming[c]), <<>>)
    /\ runq' = [runq EXCEPT ![p] = Tail(@)]
    /\ UNCHANGED <<client, alive, semaphore, toDispatch, scheduled, replyVars,
                   otherVars, outVars, socketVars, countVars>>

(* dispatchMessageAndResetDidScheduleDispatchMessagesForConnection: forget *)
(* that the call was scheduled, then dispatchMessages(connection).         *)
ResetScheduledFaulty(p, c) == scheduled[p]
ResetScheduled(p, c) == scheduled[p] \ {c}

DispatchMessagesTask(p) ==
    /\ NextTask(p, "sync")
    /\ LET c == Head(runq[p]).conn
       IN  /\ scheduled' = [scheduled EXCEPT ![p] = ResetScheduled(p, c)]
           /\ Push(p, NewFrame("batch", "swap", c, NoMsg, FALSE))
    /\ runq' = [runq EXCEPT ![p] = Tail(@)]
    /\ UNCHANGED <<alive, semaphore, toDispatch, countVars, connVars>>

(* dispatchMessages takes the messages of the process under the lock: the  *)
(* call of frame f has the rest to dispatch.                               *)
Swap(p, below, f) ==
    /\ stack' = [stack EXCEPT ![p] =
                    Append(below, [f EXCEPT !.pc = "loop", !.rest = toDispatch[p]])]
    /\ toDispatch' = [toDispatch EXCEPT ![p] = <<>>]

SwapMessages(p) ==
    /\ At(p, "batch", "swap")
    /\ Swap(p, Front(stack[p]), Top(p))
    /\ UNCHANGED <<alive, runq, semaphore, scheduled, connVars, countVars>>

(* An iteration of its loop: dispatch the message, or set it aside when it *)
(* belongs to a connection other than the allowed one.                     *)
DispatchNext(p) ==
    /\ At(p, "batch", "loop")
    /\ Top(p).rest # <<>>
    /\ LET f    == Top(p)
           item == Head(f.rest)
           next == [f EXCEPT !.rest = Tail(@)]
       IN  IF f.conn # NoConn /\ f.conn # item.conn
           THEN /\ Replace(p, [next EXCEPT !.held = Append(@, item)])
                /\ UNCHANGED dispatchVars
           ELSE DispatchMessage(item.conn, item.msg, Append(Front(stack[p]), next))
    /\ UNCHANGED <<client, alive, incoming, replyVars, otherVars, outVars,
                   socketVars, loopVars, countVars>>

(* The end of dispatchMessages: put the held messages back at the end.     *)
PutBack(p) ==
    /\ At(p, "batch", "loop")
    /\ Top(p).rest = <<>>
    /\ toDispatch' = [toDispatch EXCEPT ![p] = @ \o Top(p).held]
    /\ Pop(p)
    /\ UNCHANGED <<alive, runq, semaphore, scheduled, countVars, connVars>>

(* dispatchConnectionDidClose, run by the run loop.                        *)
DispatchConnectionDidClose(p) ==
    /\ NextTask(p, "close")
    /\ client' = [client EXCEPT ![Head(runq[p]).conn] = FALSE]
    /\ runq' = [runq EXCEPT ![p] = Tail(@)]
    /\ UNCHANGED <<semaphore, toDispatch, scheduled, incoming, dispatchVars,
                   replyVars, otherVars, outVars, socketVars, mainVars,
                   countVars>>

-----------------------------------------------------------------------------
(* Waiting for a synchronous reply on the main thread.                     *)

(* waitForSyncReply calls dispatchMessages(0).                             *)
SyncDispatch(p) ==
    /\ At(p, "sync", "dispatch")
    /\ Swap(p, Append(Front(stack[p]), [Top(p) EXCEPT !.pc = "check"]),
            NewFrame("batch", "swap", NoConn, NoMsg, FALSE))
    /\ UNCHANGED <<alive, runq, semaphore, scheduled, connVars, countVars>>

(* waitForSyncReply returns to sendSyncMessage, which pops the pending     *)
(* reply and returns to client code.                                       *)
PopPendingFaulty(c) == Tail(pending[c])
PopPending(c) == Front(pending[c])

SyncReturn(p, c, ok) ==
    /\ pending' = [pending EXCEPT ![c] = PopPending(c)]
    /\ Pop(p)
    /\ DidFailToSendSyncMessage(c, ~ok)
    /\ UNCHANGED <<client, shouldWait, requestID, queuePc, wire, runq,
                   toDispatch, scheduled, sent, incoming, dispatchVars,
                   otherVars, outVars>>

(* It looks at the reply on top of the stack of pending replies, and stops *)
(* when the connection was closed or invalidated.                          *)
StopsWaitingFaulty(c) == Last(pending[c]).got \/ ~shouldWait[c]
StopsWaiting(c) == Last(pending[c]).got \/ ~shouldWait[c] \/ ~client[c]

SyncCheck(p) ==
    /\ At(p, "sync", "check")
    /\ LET f == Top(p)
           c == f.conn
       IN  IF StopsWaiting(c)
           THEN /\ SyncReturn(p, c, Last(pending[c]).got)
                /\ UNCHANGED semaphore
           ELSE /\ Replace(p, [f EXCEPT !.pc = "blocked"])
                /\ UNCHANGED <<alive, sent, loopVars, connVars>>
    /\ UNCHANGED left

(* The semaphore was set: BinarySemaphore::wait resets it.                 *)
SyncWake(p) ==
    /\ At(p, "sync", "blocked")
    /\ semaphore[p]
    /\ semaphore' = [semaphore EXCEPT ![p] = FALSE]
    /\ Replace(p, [Top(p) EXCEPT !.pc = "dispatch"])
    /\ UNCHANGED <<alive, runq, toDispatch, scheduled, countVars, connVars>>

(* The absolute time of the call passed.  The signal may have come just    *)
(* then: timedWait reports a timeout, BinarySemaphore::wait returns false  *)
(* without looking at m_isSet again, and the semaphore stays set.          *)
SyncTimeout(p) ==
    /\ At(p, "sync", "blocked")
    /\ Spend(Top(p).conn, "timeout")
    /\ SyncReturn(p, Top(p).conn, FALSE)
    /\ UNCHANGED semaphore

-----------------------------------------------------------------------------
(* sendSyncMessageFromSecondaryThread.                                     *)

SecondaryBegin(c) ==
    /\ alive[ProcOf[c]]
    /\ secondary[c].pc = "idle"
    /\ Spend(c, "secondary")
    /\ requestID' = [requestID EXCEPT ![c] = @ + 1]
    /\ IF client[c] /\ shouldWait[c]
       THEN secondary' = [secondary EXCEPT ![c] =
                [pc |-> "send", id |-> requestID[c] + 1, got |-> FALSE, set |-> FALSE]]
       ELSE UNCHANGED secondary
    /\ UNCHANGED <<client, pending, shouldWait, delayed, sent, incoming,
                   dispatchVars, outVars, socketVars, procVars>>

SecondarySend(c) ==
    /\ alive[ProcOf[c]]
    /\ secondary[c].pc = "send"
    /\ SendMessage(c, [kind |-> "sync", id |-> secondary[c].id,
                       marked |-> ShouldMark(c, FALSE), n |-> sent[c] + 1])
    /\ sent' = [sent EXCEPT ![c] = @ + 1]
    /\ secondary' = [secondary EXCEPT ![c].pc = "blocked"]
    /\ UNCHANGED <<client, delayed, left, incoming, dispatchVars, replyVars,
                   socketVars, procVars>>

(* The wait ends, with a timeout even if the semaphore was set meanwhile,  *)
(* and the thread leaves the map.                                          *)
SecondaryReturn(c, timedOut) ==
    /\ alive[ProcOf[c]]
    /\ secondary[c].pc = "blocked"
    /\ timedOut \/ secondary[c].set
    /\ IF timedOut THEN Spend(c, "timeout") ELSE UNCHANGED left
    /\ secondary' = [secondary EXCEPT ![c] = NoCall]
    /\ UNCHANGED <<client, delayed, sent, incoming, dispatchVars, replyVars,
                   outVars, socketVars, procVars>>

-----------------------------------------------------------------------------
(* The connection work queue of c.                                         *)

QueueIdle(c) == alive[ProcOf[c]] /\ queuePc[c] = "idle"

NextWork(c, item) == QueueIdle(c) /\ queue[c] # <<>> /\ Head(queue[c]) = item

(* sendOutgoingMessage writes messages into the other end's buffer.        *)
Write(c, ms) == wire' = [wire EXCEPT ![Peer[c]] = @ \o ms]

(* sendOutgoingMessages writes messages until the queue is empty or        *)
(* sendmsg fails; the message it fails on has left m_outgoingMessages.     *)
(* Writing to a closed socket fails; "fail" stands for a full buffer (the  *)
(* socket does not block).                                                 *)
SendOutgoingMessages(c) ==
    /\ NextWork(c, "send")
    /\ queue' = [queue EXCEPT ![c] = Tail(@)]
    /\ LET out == outgoing[c]
       IN  \/ /\ ~connected[c] \/ out = <<>>
              /\ UNCHANGED <<outgoing, wire, left>>
           \/ /\ connected[c] /\ connected[Peer[c]] /\ out # <<>>
              /\ Write(c, out)
              /\ outgoing' = [outgoing EXCEPT ![c] = <<>>]
              /\ UNCHANGED left
           \/ /\ connected[c] /\ ~connected[Peer[c]] /\ out # <<>>
              /\ outgoing' = [outgoing EXCEPT ![c] = Tail(@)]
              /\ UNCHANGED <<wire, left>>
           \/ /\ connected[c] /\ connected[Peer[c]]
              /\ Spend(c, "fail")
              /\ \E k \in DOMAIN out :
                  /\ Write(c, SubSeq(out, 1, k - 1))
                  /\ outgoing' = [outgoing EXCEPT ![c] = SubSeq(@, k + 1, Len(@))]
    /\ UNCHANGED <<client, connected, queuePc, sent, incoming, dispatchVars,
                   replyVars, otherVars, procVars>>

(* platformInvalidate, posted by invalidate: the socket is closed.         *)
PlatformInvalidate(c) ==
    /\ NextWork(c, "invalidate")
    /\ queue' = [queue EXCEPT ![c] = Tail(@)]
    /\ connected' = [connected EXCEPT ![c] = FALSE]
    /\ wire' = [wire EXCEPT ![c] = <<>>]
    /\ UNCHANGED <<client, outgoing, queuePc, incoming, dispatchVars,
                   replyVars, otherVars, countVars, procVars>>

(* connectionDidClose: whoever waits for a reply is woken up, and the      *)
(* client is told on its run loop.  The callback of a child process        *)
(* (m_didCloseOnConnectionWorkQueueCallback) starts a watchdog that exits  *)
(* ten seconds later; Crash is such an exit, at any time.                  *)
CloseWakesFaulty(c) == Len(pending[c]) > 1
CloseWakes(c) == pending[c] # <<>>

SecondaryAtCloseFaulty(c) == secondary[c].set
SecondaryAtClose(c) == secondary[c].set \/ secondary[c].pc # "idle"

ConnectionDidClose(c) ==
    LET p == ProcOf[c]
    IN  /\ connected' = [connected EXCEPT ![c] = FALSE]
        /\ wire' = [wire EXCEPT ![c] = <<>>]
        /\ shouldWait' = [shouldWait EXCEPT ![c] = FALSE]
        /\ semaphore' = [semaphore EXCEPT ![p] = @ \/ CloseWakes(c)]
        /\ secondary' = [secondary EXCEPT ![c].set = SecondaryAtClose(c)]
        /\ runq' = [runq EXCEPT ![p] = Append(@, [kind |-> "close", conn |-> c])]
        /\ UNCHANGED <<client, outgoing, pending, requestID, delayed, queuePc,
                       toDispatch, scheduled, incoming, dispatchVars,
                       mainVars, countVars>>

(* readyReadHandler reads zero bytes: the other end is closed.             *)
ReadEndOfFile(c) ==
    /\ QueueIdle(c)
    /\ connected[c]
    /\ ~connected[Peer[c]]
    /\ wire[c] = <<>>
    /\ ConnectionDidClose(c)
    /\ UNCHANGED queue

(* The call posted by postConnectionDidCloseOnConnectionWorkQueue.         *)
PostedDidClose(c) ==
    /\ NextWork(c, "didClose")
    /\ queue' = [queue EXCEPT ![c] = Tail(@)]
    /\ ConnectionDidClose(c)

(* readyReadHandler reads a message and calls processIncomingMessage.      *)
Readable(c) == QueueIdle(c) /\ connected[c] /\ wire[c] # <<>>

Consume(c) == wire' = [wire EXCEPT ![c] = Tail(@)]

(* processIncomingSyncReply finds the request on the stack of pending      *)
(* replies or in the map of the secondary threads.  The client is woken up *)
(* only when the reply is for the top of the stack.                        *)
ReplyWakesClientFaulty(c, hits) == 1 \in hits
ReplyWakesClient(c, hits) == Len(pending[c]) \in hits

ProcessIncomingSyncReply(c) ==
    /\ Readable(c)
    /\ Head(wire[c]).kind = "reply"
    /\ Consume(c)
    /\ LET p    == ProcOf[c]
           id   == Head(wire[c]).id
           hits == {i \in DOMAIN pending[c] : pending[c][i].id = id}
       IN  IF hits # {}
           THEN /\ pending' = [pending EXCEPT ![c] =
                     [i \in DOMAIN @ |-> IF i \in hits THEN [@[i] EXCEPT !.got = TRUE]
                                                       ELSE @[i]]]
                /\ semaphore' = [semaphore EXCEPT ![p] = @ \/ ReplyWakesClient(c, hits)]
                /\ UNCHANGED secondary
           ELSE /\ secondary' =
                     IF secondary[c].pc # "idle" /\ secondary[c].id = id
                     THEN [secondary EXCEPT ![c].got = TRUE, ![c].set = TRUE]
                     ELSE secondary
                /\ UNCHANGED <<pending, semaphore>>
    /\ UNCHANGED <<client, connected, shouldWait, requestID, delayed, queuePc,
                   runq, toDispatch, scheduled, incoming, dispatchVars,
                   outVars, mainVars, countVars>>

(* SyncMessageState::processIncomingMessage, under its mutex.  A task is   *)
(* posted unless one is scheduled for the connection already.              *)
PostsTaskFaulty(c) == scheduled[ProcOf[c]] = {}
PostsTask(c) == c \notin scheduled[ProcOf[c]]

ProcessMarkedMessage(c) ==
    /\ Readable(c)
    /\ Head(wire[c]).kind # "reply" /\ Head(wire[c]).marked
    /\ Consume(c)
    /\ LET p == ProcOf[c]
       IN  /\ runq' = [runq EXCEPT ![p] = IF PostsTask(c) THEN Append(@, SyncTask(c)) ELSE @]
           /\ scheduled' = [scheduled EXCEPT ![p] = @ \cup {c}]
           /\ toDispatch' = [toDispatch EXCEPT ![p] =
                               Append(@, [conn |-> c, msg |-> Head(wire[c])])]
    /\ queuePc' = [queuePc EXCEPT ![c] = "signal"]
    /\ UNCHANGED <<client, connected, semaphore, incoming, dispatchVars,
                   replyVars, otherVars, outVars, mainVars, countVars>>

(* ... which calls wakeUpClientRunLoop after it has released the mutex.    *)
MessageWakesClientFaulty(c) == pending[c] # <<>>
MessageWakesClient(c) == TRUE

WakeUpClientRunLoop(c) ==
    /\ alive[ProcOf[c]]
    /\ queuePc[c] = "signal"
    /\ queuePc' = [queuePc EXCEPT ![c] = "idle"]
    /\ semaphore' = [semaphore EXCEPT ![ProcOf[c]] = @ \/ MessageWakesClient(c)]
    /\ UNCHANGED <<client, connected, wire, runq, toDispatch, scheduled,
                   incoming, dispatchVars, replyVars, otherVars, outVars,
                   mainVars, countVars>>

(* enqueueIncomingMessage posts one task for every message.                *)
OneTaskFaulty(c) == IF incoming[c] = <<>> THEN <<[kind |-> "one", conn |-> c]>> ELSE <<>>
OneTask(c) == <<[kind |-> "one", conn |-> c]>>

EnqueueIncomingMessage(c) ==
    /\ Readable(c)
    /\ Head(wire[c]).kind # "reply" /\ ~Head(wire[c]).marked
    /\ Consume(c)
    /\ incoming' = [incoming EXCEPT ![c] = Append(@, Head(wire[c]))]
    /\ runq' = [runq EXCEPT ![ProcOf[c]] = @ \o OneTask(c)]
    /\ UNCHANGED <<client, connected, queuePc, semaphore, toDispatch,
                   scheduled, dispatchVars, replyVars, otherVars, outVars,
                   mainVars, countVars>>

-----------------------------------------------------------------------------
(* The environment: a process crashes; later the UI process may tell this  *)
(* process of the crash, which posts connectionDidClose on a connection    *)
(* that the client has not seen closed yet.                                *)
Crash(c) ==
    /\ alive[ProcOf[c]]
    /\ Spend(c, "crash")
    /\ Terminate(ProcOf[c])
    /\ UNCHANGED <<client, queuePc, wire, stack, sent, incoming, dispatchVars,
                   replyVars, otherVars, outVars, loopVars>>

PostConnectionDidClose(c) ==
    /\ alive[ProcOf[c]]
    /\ ~alive[ProcOf[Peer[c]]]
    /\ client[c]
    /\ Spend(c, "posted")
    /\ queue' = [queue EXCEPT ![c] = Append(@, "didClose")]
    /\ UNCHANGED <<client, outgoing, sent, incoming, dispatchVars, replyVars,
                   otherVars, socketVars, procVars>>

-----------------------------------------------------------------------------
(* What client code and the environment may do but need not.               *)
Client(c) == \/ Send(c) \/ SendSync(c) \/ Invalidate(c)
             \/ SecondaryBegin(c) \/ PostConnectionDidClose(c) \/ Crash(c)

(* Steps of the main thread that the code takes by itself; the handlers of *)
(* the client return.                                                      *)
MainThread(p) == \/ EndDispatch(p) \/ DispatchOneMessage(p) \/ DispatchMessagesTask(p)
                 \/ SwapMessages(p) \/ DispatchNext(p) \/ PutBack(p)
                 \/ DispatchConnectionDidClose(p)
                 \/ SyncDispatch(p) \/ SyncCheck(p) \/ SyncWake(p)

QueueThread(c) == \/ SendOutgoingMessages(c) \/ PlatformInvalidate(c)
                  \/ ReadEndOfFile(c) \/ PostedDidClose(c)
                  \/ ProcessIncomingSyncReply(c) \/ ProcessMarkedMessage(c)
                  \/ WakeUpClientRunLoop(c) \/ EnqueueIncomingMessage(c)

SecondaryThread(c) == SecondarySend(c) \/ SecondaryReturn(c, FALSE)

Next == \/ \E c \in Conn : \/ Client(c) \/ SendDelayedReply(c)
                           \/ QueueThread(c) \/ SecondaryThread(c)
                           \/ SecondaryReturn(c, TRUE)
        \/ \E p \in Proc : \/ MainThread(p) \/ MarkInvalid(p)
                           \/ IncrementMarkedCount(p) \/ SyncTimeout(p)

Spec == Init /\ [][Next]_vars

(* Threads are scheduled fairly, handlers return and a client that keeps a *)
(* reply encoder sends the reply when its code next runs, again and again. *)
Fairness ==
    /\ \A p \in Proc : WF_vars(MainThread(p))
    /\ \A c \in Conn : /\ WF_vars(QueueThread(c))
                       /\ WF_vars(SecondaryThread(c))
                       /\ SF_vars(SendDelayedReply(c))

FairSpec == Spec /\ Fairness

-----------------------------------------------------------------------------
(* The type of every variable.                                             *)
TypeOK ==
    /\ client \in [Conn -> BOOLEAN]
    /\ connected \in [Conn -> BOOLEAN]
    /\ outgoing \in [Conn -> Seq(Msg)]
    /\ incoming \in [Conn -> Seq(Msg)]
    /\ pending \in [Conn -> Seq([id : Nat, got : BOOLEAN])]
    /\ shouldWait \in [Conn -> BOOLEAN]
    /\ requestID \in [Conn -> Nat]
    /\ marked \in [Conn -> Nat]
    /\ invalid \in [Conn -> BOOLEAN]
    /\ secondary \in [Conn -> [pc : {"idle", "send", "blocked"}, id : Nat,
                               got : BOOLEAN, set : BOOLEAN]]
    /\ delayed \in [Conn -> SUBSET Nat]
    /\ queue \in [Conn -> Seq({"send", "invalidate", "didClose"})]
    /\ queuePc \in [Conn -> {"idle", "signal"}]
    /\ wire \in [Conn -> Seq(Msg)]
    /\ alive \in [Proc -> BOOLEAN]
    /\ runq \in [Proc -> Seq(Task)]
    /\ stack \in [Proc -> Seq(Frame)]
    /\ semaphore \in [Proc -> BOOLEAN]
    /\ toDispatch \in [Proc -> Seq(Item)]
    /\ scheduled \in [Proc -> SUBSET Conn]
    /\ sent \in [Conn -> Nat]
    /\ left \in [Conn -> [Ops -> Nat]]

=============================================================================
