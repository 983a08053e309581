# TLA+ verification of WebKit (qplusweb)

The repository is a WebKit tree (January 2014) with the EFL port: a multi-process
web engine. This directory holds TLA+ models of the parts of it that are
concurrent and hard to test, TLC configurations that check them on small
instances, and TLAPS proofs of what matters most for all instances.
Paths below are relative to `Source/`.

## 1. Inventory

| Component | State | Operations | Hard behaviour |
|---|---|---|---|
| **IPC connection** `WebKit2/Platform/IPC/Connection.cpp`, `unix/ConnectionUnix.cpp`, `WTF/wtf/threads/BinarySemaphore.cpp` | per connection: client, outgoing and incoming queue, stack of pending sync replies, map of secondary-thread replies, request ID, count of marked messages in dispatch; per process: `SyncMessageState` (queue, set of scheduled connections, binary semaphore) | send, sendSyncMessage (main and secondary thread), sendSyncReply, invalidate, dispatchOneMessage, dispatchMessages, processIncomingMessage, connectionDidClose | three kinds of threads, nested synchronous calls, one semaphore for all waits, close and timeout racing replies, messages lost on a full socket |
| **Waiting for one message** `Connection::waitForMessage` | `m_waitForMessageMap`, `m_incomingMessages`, tasks on the run loop | wait, arrive, time out | two locks; a timeout races the arrival; tasks outlive their message |
| **DFG compiler worklist** `JavaScriptCore/dfg/DFGWorklist.cpp`, callers in `jit/JITOperations.cpp`, `runtime/VM.cpp` | `m_plans`, `m_queue`, `m_readyPlans`, two condition variables | enqueue, runThread, waitUntilAllPlansForVMAreReady, removeAllReadyPlansForVM, completeAllReadyPlansForVM | state checked under the lock and used after it; one signal per plan; a VM destroyed while its plans are compiled |
| **Web SQL databases** `WebCore/Modules/webdatabase` | coordination info per origin; per handle its queue of transactions and its flags; per transaction two state machines; the task queue of the database thread | transaction steps, callbacks, acquireLock, releaseLock, close, markAsDeletedAndClose, interrupt, stopDatabases, shutdown | a transaction split over two threads that request states of each other without a lock; one of many steps fails; closing, deleting and stopping at any moment |
| **Run loop, work queue** `WTF/wtf/RunLoop.cpp`, `WebKit2/Platform/efl/DispatchQueueEfl.cpp` | function queue, timers, wake-up pipe | dispatch, performWork, wakeUp | re-entrance, wake-ups |
| **Network load scheduler** `WebKit2/NetworkProcess/HostRecord.cpp`, `NetworkResourceLoadScheduler.cpp` | per-host queues by priority, loaders in flight | schedule, serve, remove | limits, requests of a web process that is gone |
| **Parallel garbage collection** `JavaScriptCore/heap/GCThread.cpp`, `GCThreadSharedData.cpp`, `SlotVisitor.cpp`, `CopyVisitor.cpp`, `CopiedSpace.cpp`, `Heap.cpp` | phase, numbers of active threads and markers; mark bits, local and shared mark stacks, opaque roots; from-space, to-space, work lists, lent blocks | markRoots, drain, drainFromShared, donate, the weak fixpoint, copyFromShared, doneCopying, the phases | termination detection, threads that come late, one condition for several kinds of waiters |
| **Child process lifecycle** `WebKit2/Shared/ChildProcessProxy.cpp`, `UIProcess/ResponsivenessTimer.cpp` | launch state, pending messages | launch, send, terminate | messages sent while launching, crash while launching |
| **Plug-in process manager** `WebKit2/WebProcess/Plugins/PluginProcessConnectionManager.cpp` | connections by token | pluginProcessCrashed | the notice of a crash races the socket's end of file |
| JavaScript front end and JITs, DOM, CSS, layout, loaders, ports, tools | large data structures | – | sequential; correctness is about unbounded data |

How they interact. The UI process, the web processes, the plug-in process and the
network process talk over `IPC::Connection`. A connection's work queue reads the
socket and hands every message to the client's run loop, either one task per
message (`m_incomingMessages`) or, for messages marked
*DispatchMessageWhenWaitingForSyncReply*, through the `SyncMessageState` that all
connections of the process share. The main thread dispatches messages from the
run loop, and marked ones also while it waits for a synchronous reply. A plug-in
process crash is reported twice to the web process: by the socket and by a
message of the UI process. In a web process, the JavaScript VMs share one DFG
worklist and its compiler threads; the heap of each has GC threads that work
only during a collection. Every script context that uses Web SQL has a database
thread, which runs the transactions of all its databases and calls script back
through tasks posted to the context's thread; the main thread deletes databases
and stops workers.

What makes them correct. Connection: no wake-up is lost, no message is stranded,
one reply per request, calls return, senders do not deadlock, order is kept where
it is meant to be. waitForMessage: one wait at a time, other messages are not
disturbed. Worklist: plans are neither lost nor doubled, threads do not sleep on
work, nothing of a stopped VM is left. Collector: when marking ends exactly the
live cells are marked, live backing stores survive copying, collections end. Web
SQL: a writer is alone, a transaction is in one place at a time, its locks come
back whatever fails, script is told the truth, transactions end. The hazards, each with its line and the
properties that cover it, are listed in `PROJECT.json`.

## 2. Modules

### Connection.tla

One step is the code between two points where another thread can interfere: the
acquisitions of a mutex, the semaphore operations, the posts to a queue. The
fields of a connection are functions of the connection, those of
`SyncMessageState` and the run loop functions of the process.

* The C++ stack of a main thread is a sequence of frames (`stack`): a
  `dispatchMessages` call with its two local vectors (`batch`), a client handler
  below `dispatchMessage` (`handler`), or a `waitForSyncReply` (`sync`). This is
  what makes nested calls, and their interplay with one binary semaphore,
  explicit.
* The work queue of a connection executes its posted functions in order
  (`queue`: `send`, `invalidate`, `didClose`) or reads the socket. The socket is
  a FIFO (`wire`), closed from either end; a full buffer makes `sendmsg` fail
  (`fail`), which loses the message, as in `sendOutgoingMessage`.
* `processIncomingMessage` on a marked message has two steps
  (`ProcessMarkedMessage`, `WakeUpClientRunLoop`) because the mutex is released
  before the semaphore is signalled.
* Client code is arbitrary: whenever it runs (in a handler, or from a run loop
  source) it may send, call, invalidate, or answer a request whose encoder it
  kept.
* A message is a record of its kind, its request ID, its flag and a number; names,
  arguments and attachments are left out.

| Actions | Code |
|---|---|
| `Send`, `SendMessage`, `ShouldMark` | `sendMessage` |
| `SendSync`, `SyncDispatch`, `SyncCheck`, `SyncWake`, `SyncTimeout`, `SyncReturn` | `sendSyncMessage`, `waitForSyncReply` |
| `SecondaryBegin`, `SecondarySend`, `SecondaryReturn` | `sendSyncMessageFromSecondaryThread` |
| `DispatchOneMessage`, `DispatchMessage`, `EndDispatch`, `MarkInvalid` | `dispatchOneMessage`, `dispatchMessage`, `dispatchSyncMessage` |
| `DispatchMessagesTask`, `SwapMessages`, `DispatchNext`, `PutBack` | `SyncMessageState::dispatchMessages...` |
| `ProcessMarkedMessage`, `WakeUpClientRunLoop`, `ProcessIncomingSyncReply`, `EnqueueIncomingMessage` | `processIncomingMessage` and what it calls |
| `ConnectionDidClose`, `ReadEndOfFile`, `PostedDidClose`, `DispatchConnectionDidClose` | `connectionDidClose`, `dispatchConnectionDidClose` |
| `IncrementMarkedCount` | `incrementDispatchMessageMarkedDispatchWhenWaitingForSyncReplyCount` in `WebProcessConnection::createPluginAsynchronously`; the decrement is part of `EndDispatch` |
| `SendOutgoingMessages`, `Invalidate`, `PlatformInvalidate` | `sendOutgoingMessages`, `invalidate`, `platformInvalidate` |
| `Crash`, `Terminate`, `PostConnectionDidClose` | the kernel; `exit(0)` after a failed call; `pluginProcessCrashed` |

`ConnectionProperties.tla` states the properties, `MCConnection.tla` (two
processes, one connection) and `MCConnectionShared.tla` (three processes; the web
process has two connections) instantiate it. Of the run loop and the work queue
(`RunLoop::performWork`, `DispatchQueue::performWork` of the EFL port) the module
has only that functions run one at a time in the order in which they were
dispatched (`NextTask`, `NextWork`, `QueueIdle`). Left out: `open()`, receivers on
other work queues, `SpinRunLoopWhileWaitingForReply` (a busy loop outside the Mac
port with the same exits), messages with an invalid receiver name, and
`m_didCloseOnConnectionWorkQueueCallback`, with which a child process starts a
watchdog that ends it ten seconds after its connection closed (`ChildProcess.cpp`).

### WaitForMessage.tla

`waitForMessage` on its own, because it uses neither the sync replies nor the
shared state: the connection queue receives numbered messages, the main thread
waits for those in `Wanted`. The two locks (`m_waitForMessageMutex`,
`m_incomingMessagesLock`) separate the steps `Receive` and
`EnqueueIncomingMessage`, and `LookInQueue`, `InsertWait` and `LookInMap`.

### Worklist.tla

Compiler threads (`Take`, `Finish`) and VMs. A VM enters the worklist to optimize
a code block (`operationOptimize`), to discard code or to be destroyed; its
actions are the parts of these calls between two acquisitions of `m_lock`. A
condition variable is the set of those who wait on it; `signal` wakes up any one
of them, `broadcast` all. Left out: the destructor (the global worklist is
leaked, so it never runs) and FTL tier-up, a second caller of the same operations.

### Tracing, GCThreadSharedData, CopiedSpace, SlotVisitor, CopyVisitor, Heap

A full collection by a main thread and any number of GC threads. A module per
class; `Heap.tla` composes them, `HeapProperties.tla` states the properties.
What is done under one lock without waiting is one step; a thread that waits on a
condition is in `asleep`, with a program counter (`pc`) that says on which one, and
a broadcast takes all of these out.

| Module | State | Actions and the code they stand for |
|---|---|---|
| `GCThreadSharedData` | `phase`, `shouldWait`, `activeThreads` | `WaitForNextPhase`, `NextPhase` (`GCThread::waitForNextPhase`), `StartNextPhase`, `EndCurrentPhase`, `AwaitIdleThreads`, `IdleThreads` |
| `SlotVisitor` | `marked`, `stack`, `sharedStack`, `activeMarkers`, `shouldExit`, `localRoots`, `opaqueRoots` | `VisitCell`, `Drained` (`drain`), `Donate` (`donateKnownParallel`), `EnterDrain`, `Share`, `WakeMarker` (`drainFromShared`) |
| `CopiedSpace` | `store`, `toSpace`, `fromSpace`, `pinned`, `liveBytes`, `workList`, `loaned`, `borrowed` | `ReportLiveBytes`, `SwapSpaces` (`startedCopying`), `KeepBlocks` (`doneCopying`) |
| `CopyVisitor` | `blocksToCopy`, `copyIndex`, `todo` | `GetNextBlocksToCopy`, `SkipBlock`, `CopyItem` (`copyFromShared`), `DoneCopying` |
| `Heap` | `roots`, `group`, `collections` | `Collect`, `AppendRoots`, `VisitWeak`, `FinishMarking`, ... (`markRoots`), `StartCopyPhase`, ... (`copyBackingStores`), `Destroy`, `Join` |

`Tracing.tla` is the abstract specification of marking: from an unmarked heap,
mark live cells only, and end when all of them are marked. `MarksLiveCells` says
that Heap implements its safety part, `Spec`; `CollectionEnds` contains the
liveness part, `Ends`, that marking ends. The mapping: `tracing` is "the main thread is in markRoots before
didFinishMarking", and `LiveCells` the least set that holds the roots, the
children of its cells, the cells whose weak handle asks for an opaque root that it
adds, and the values of weak map entries whose map and key it has.

Abstractions: a mark stack is a set (a cell is pushed once, by the thread whose
test-and-set marks it); a donation and a theft take any non-empty part (the code
goes by segments); the size of the shared stack that is read without the lock may
be anything; a cell is visited in one step; all backing stores have one size;
whether to copy at all (a question of fragmentation) is a free choice.
Left out: Eden collections and the remembered set, oversize blocks, hash-consing,
finalizers, sweeping, allocation between collections.

### DatabaseThread, SQLTransactionCoordinator, SQLTransactionBackend, DatabaseBackend, SQLTransaction, WebDatabase

The databases of one origin in one script context, after they were opened. The
modules extend each other in this order, a class each; `WebDatabase.tla` composes
them with script and the main thread, `WebDatabaseProperties.tla` states the
properties.

* `queue` is the task queue of the database thread: a transaction in it stands for
  a `DatabaseTransactionTask`, a database for its `DatabaseCloseTask`. `posted` is
  the queue of `DeliverPendingCallbackTask`s of the script thread.
* The backend's state machine runs from a task until it idles; each state function
  is an action (`AcquireLock`, `OpenTransactionAndPreflight`, `RunStatements`,
  `PostflightAndCommit`, `CleanupAfterTransactionErrorCallback`,
  `CleanupAndTerminate`), so that interrupts and deletions come between them. What
  SQLite answers is a free choice. The state functions of the frontend
  (`Deliver...Callback`) run to the request to the backend in one step.
* `requested` and `scriptRequested` are the two `m_requestedState` fields. Both are
  plain fields in the code, written by one thread and read by the other.
* `DoCleanup` is the whole of `doCleanup`, with the release of the lock, the
  transactions that get it and the tasks these post.
* `close()` has three steps: `CloseTransactionQueue` (under the handle's mutex),
  `CloseDatabase`, `UnscheduleDatabaseTasks`. The destructors of unscheduled tasks
  run under the queue's mutex; if one of them passes a lock on, the thread
  takes that mutex a second time (`thread = "selfLocked"`).
* `Shutdown` is `SQLTransactionCoordinator::shutdown`, which returns only if
  nothing is pending (`thread = "spinning"` otherwise).
* Script may run in a worker or on the main thread (`worker`, chosen in Init). The
  main thread deletes a database in two steps (`MarkAsDeleted`, `ScheduleClose`) and
  then waits; `InterruptDatabase` (one handle after the other, as
  `interruptAllDatabasesForContext` does) and `StopDatabases` stop a worker.
* `sqlite` is the state of the object `m_sqliteTransaction`. On an interrupted or
  closed handle the code calls `stop()` on it and destroys it, without a ROLLBACK;
  `sqlite` is then "none" and does not speak of SQLite's own transaction.

Left out: opening, the synchronous API, versions (`changeVersion` is a writer whose
preflight may fail), the tracker's quota arithmetic, `tableNames`, other contexts
that use the same origin's lock, pausing on iOS, `closeImmediately` (no caller for
asynchronous databases in this tree).

## 3. Runs

| Run | Checks | Shows |
|---|---|---|
| `connection_sync` | `TypeOK`, `PendingMatchesCalls`, `NoLostWakeup`, `SendersNotStuck` | two processes call each other, twice each, calls nested in the handlers of calls, one of which may time out: the pending replies are the calls in progress, nobody sleeps through his reply, the senders are not stuck on each other |
| `connection_loss` | `OneReplyPerRequest` | calls of the main and a secondary thread, a kept reply encoder, a lost message: a request or its reply is in one place only; while both ends work, somebody owes the reply |
| `connection_live` | `NoLostWakeup`, `SyncReturns`, `SecondaryReturns`, `MessagesDispatched` | calls race with a timeout, an invalid message, `invalidate`, a crash and the notice of it, or with a secondary thread's call; every call returns, also when the other end closes; received messages are dispatched |
| `connection_shared` | `NoLostWakeup`, `NoStrandedMessage`, `UnmarkedNeverOvertakes` | marked messages on two connections of one process, or a plug-in that is started asynchronously and calls back: none is slept through, none is left without a task, an unmarked message overtakes nothing |
| `connection_deadlock` | `SendersNotStuck` (violated) | finding 1 |
| `connection_hang` | `SecondaryReturns` (violated) | finding 2 |
| `wait_for_message` | `TypeOK`, `OneWait`, `TasksCoverMessages`, `OthersInOrder` | waits race with arrivals and timeouts: one wait at a time, a task for every queued message, the other messages are dispatched in order |
| `worklist` | `OnePlanPerKey`, `NoIdleThread`, `NoPlanOfStoppedVM`, `NoReplacementWhileCompiling`, `WaitReturns` | two VMs and two compiler threads: plans are not lost or doubled, threads do not sleep on work, waiting for the plans ends |
| `heap_marking` | `QuietWhenDrained`, `NoLostWakeup`, `MarksLiveCells`, `CollectionEnds` | three threads mark a graph with a cycle, an opaque root, a weak handle and a weak map, twice, and the heap is destroyed: marking implements `Tracing`, ends only when nobody holds a cell, and gets there |
| `heap_copying` | `TypeOK`, `BlocksLentInPhase`, `StoresSurvive`, `EvacuatedBlocksGone`, `NoLostWakeup` | the same threads copy out of four blocks, one of which may be pinned: late threads have a block, live stores survive, evacuated blocks are gone |
| `websql` | `TypeOK`, `WritersAlone`, `OneStepPerTransaction`, `NoStepAfterCleanup`, `LocksReturned`, `ReportsAreTrue`, `NothingLeftAtEnd`, `CloseIsPerformed`, `TransactionsEnd` | two readers and a writer on two handles with every failure, deletion and stopping: see the comments of the properties |
| `websql_shutdown` | `ShutdownIsOrderly` (violated) | finding 3 |

**Bounds.** A budget says how often each operation may be used on each
connection (`Budgets` is the set a behaviour chooses from); the rest of the state is unbounded but finite because of it. Two
calls in each direction give every order of nesting of depth up to four, with a
reply for an inner and for an outer call; a timeout of one of them lets its reply
arrive during another. One use of each failure (timeout,
`invalidate`, crash, lost message) against a call in progress gives all pairs of
them; more uses only repeat a state the connection has been in. Two connections
are the least for which the shared queue, the shared semaphore and the set of
scheduled connections differ from fields of a connection; `connection_shared`
has two budgets, one with marked messages on both and one in which a handler raises
the count of marked messages and makes a call. `WaitForMessage`: four
messages, three of them awaited, and three waits, so that a stale entry, a stale
task and an overwritten entry can all occur. `Worklist`: two threads (a signal may
reach the wrong one), two VMs (a broadcast may be meant for the other), one with
two code blocks, `MaxPlans` = 4 plans so that a key is compiled again after it was
removed. Heap: two GC threads, the least for which one can be idle, late or last
while another works; two collections (`MaxCollections`), so that what the first
leaves behind is met by the second; `Fragment` below the number of blocks and
`Capacity` below the number of stores, so that fragments are short and a borrowed
block is exchanged; `EvacuateLimit` 1, so that a block is pinned after it has a
work list; at most one block pinned by the stack (`MaxPins`). The marking run has
no backing stores and the copying run a chain as its graph, since each would
multiply the other's states. WebDatabase: two handles, one with a reader
and a writer (the queue of a handle), one with another reader, so that two readers
have the lock at once and either waits for the writer or makes it wait; one
statement each (`MaxStatements`), both answers about the quota; one database may be
deleted. Two transactions in the coordinator and one behind them reach both
branches of `processPendingTransactions`; two writers on two handles, and several
readers let in at once, which needs three handles, are left to the proof. Deadlock is
not checked: with the budget used up, the heap destroyed or the context stopped the
system rests.

**Fairness.** `FairSpec` of Connection assumes weak fairness of each main thread,
each work queue and each secondary thread, that is, threads are scheduled and
client handlers return; and strong fairness of `SendDelayedReply`: a client that
keeps an encoder answers when its code gets to run again and again (the code that
keeps one, `GetPluginProcessConnection`, answers when the process has launched).
Nothing obliges client code to send, to invalidate, to crash or to time out.
Worklist assumes that compiler threads run and compilations end, and that a VM
thread inside a call goes on. Heap assumes that each thread runs; nothing obliges
the program to collect. WebDatabase assumes that the database thread runs, that
the event loop performs posted callbacks unless the worker has been told to stop,
that the main thread inside `markAsDeletedAndClose` goes on and that a worker told
to stop stops its databases.

`TransactionsEnd` says that again and again no transaction is under way; as none is
started twice, each of them ends. It excludes three things that the code really
does: the thread may spin (finding 3), it may wait for its own mutex
(`UnscheduleDatabaseTasks`), and a transaction may come back to a statement over its quota for ever (`QuotaTrouble`).
`CloseIsPerformed` is about documents: a worker can be stopped between
`terminationRequested` and `scheduleImmediateTask`, and the main thread then waits
for a task that nobody performs (the hazard at `Database.cpp:153`, which this
property does not cover). For a document both run on the main thread, and the
property says that closing a handle does not take the task away.

## 4. Findings

1. **Senders stuck** (`connection_deadlock`). `dispatchMessages` moves all
   messages into a local vector and dispatches one by one. If a handler makes a
   synchronous call on another connection, those still in the vector are out of
   reach of the nested wait; two processes can then wait for each other, the
   deadlock that the comment in `processIncomingMessage` says must not occur.
   Needs three processes; with two, `connection_sync` shows that it cannot happen.
2. **Secondary thread hangs** (`connection_hang`). `invalidate` does not signal
   the semaphore of a secondary thread that waits for a reply.
3. **Shutdown spins** (`websql_shutdown`). When a transaction waits for the
   origin's lock while the database thread is told to terminate, the loop over
   `pendingTransactions` in `shutdown` looks at the first one for ever. Cleaning
   a transaction up does not take it out, because `releaseLock` returns at once
   during shutdown.

Seen while modelling, without a run of their own: a posted `connectionDidClose` may
run after the one of the socket, so that its assertion on
`m_shouldWaitForSyncReplies` fails; an awaited message overwrites an earlier one in
the map of `waitForMessage`, although a comment in `DrawingAreaProxyImpl.cpp` relies
on the oldest being returned; messages sent before `open()` wait for the next
message in the Unix port; and the three things that `TransactionsEnd` and
`CloseIsPerformed` exclude.

## 5. Proofs

The theorems are of the form `Spec => []Inv`, for every value of the constants;
`SendersDoNotDeadlock` has a hypothesis on them, and `MarksExactlyLiveCells` is the
refinement `Spec => Abstract!Spec`. `PROJECT.json` lists them.

**ConnectionProofs.tla** proves `TypeOK` and `NoLostWakeup` of Connection for any
processes, connections, budgets and depth of nested synchronous calls, from
`ConnAssumption` alone (every connection has a process and a peer). By itself
`NoLostWakeup` is not inductive; the invariant `IInv` adds three things:

- `Homes`: frames, tasks and messages of a process belong to its own connections;
  a waitForSyncReply below the top of the stack is in its call of
  `dispatchMessages`; and a `dispatchMessages(c)`, the only one that puts messages
  back, is at the bottom. Hence the nested `dispatchMessages(0)` puts nothing back
  that the wait below would have to be woken for.
- `Counts`: `m_pendingSyncReplies` of c is as long as the number of calls on c on
  the stack, and the count of marked messages is the number of handlers on the
  stack of marked messages or that have incremented it.
  `connectionDidClose` signals only if there is a pending reply: this is why it
  does so for every sleeping call.
- `Signalled`: from the call of `dispatchMessages` on, all through the wait and
  whatever is nested in it, messages to dispatch come with a set semaphore or a
  queue thread about to set it. A nested wait may consume the signal, but it
  then takes all the messages.

A lemma per action shows that it keeps `IInv`; `MainStep` (a step of one main
thread) and `QueueStep` (a step of one work queue) carry the common part.

**DispatchProofs.tla** proves `NoStrandedMessage`, `UnmarkedNeverOvertakes` and
`PendingMatchesCalls`, again for any processes, connections, budgets and depth of
nesting, and on top of `IInv`. The invariant has two parts.

- `LInv` follows the messages of a connection from the sender's queue over the
  wire to the receiver's incoming messages (`Line`): their numbers rise, whatever
  `sendOutgoingMessages` loses on the way. So a marked message that is read comes
  after all the unmarked ones that were read before it.
- `DInv` has three conjuncts per process. `Attended`: each message that a
  `dispatchMessages` has set aside, or that is queued for one, is `Ready`, which
  means that its connection is scheduled, with the task on the run loop (`Tasked`),
  and that this task comes before the `dispatchOneMessage` of every unmarked
  message that was sent later (`InTurn`, `Behind`). `Tallied`: the run loop holds
  one `dispatchOneMessage` for each incoming message; this is what makes the
  j-th of them the one of the j-th message. `Matched`: the stack of pending
  replies is the stack of calls.

The crux is the step that makes a message not `Ready`: the run loop calls
`dispatchMessages(c)` only on an empty stack, so that no vector of an outer call
holds a message of c, and the call takes those that are queued. `PendingMatchesCalls`
gives the place of a call as its rank among the calls on the connection, not by
filtering the stack with `SelectSeq`, which the provers cannot unfold.

**ReplyProofs.tla** proves `OneReplyPerRequest`, under the same assumptions, and
`SendersNotStuck` under one more.
`Tokens(c, i)` adds up in how many places the request `i` of `c` is, or its reply:
the queues and sockets of both ends, the shared queue of the answering process, the
vectors and handlers on its stack, the encoders it keeps. `RInv` has three parts.

- `Account`: the number is 1 at most; 0 before the request is sent (`Unsent`: also
  between the two steps of a secondary thread) and once its reply has been read;
  and 1 while a call waits for it and both ends work.
- `Identified`: the identifiers of the calls have been given out, and the call of a
  secondary thread has one of its own. So a new request has no token, and a reply
  is for one caller.
- `Spent`: a failed `sendmsg` is paid for, so that losing a message ends `Works`.

What an end does splits in two: the requests it sends and the replies it reads
(`OwnKept`), and the requests of the other end between its socket and its own
replies (`HeldKept`). A lemma per action shows that it keeps both numbers, or loses
some at an end that does not work afterwards (`KeptAll`). Three kinds of steps are
apart: a request is sent (`IssueInv`), `sendOutgoingMessages` moves messages between
the two ends (`SendOutgoingFlow`), and a reply is read (`ReplyInv`). What the
vectors and handlers of nested waits hold is the sum of the weights of the frames
(`StackLoad`); the stack changes by pushing and popping frames, so that no induction
over the stack is needed.

Its second part proves `SendersNotStuck`, the deadlock that marking messages is
meant to avoid, for any number of processes and any depth of nesting, in the setting
`SendersApart(Budgets)`: no connection has OnlySend on both ends, an OnlySend
connection is alone in its process, no message is lost on a full socket and no reply
encoder is kept. MCConnection assumes it of the budget of `connection_sync`, so that
TLC evaluates it. Each part is needed, and TLC finds two stuck callers without it:
two OnlySend ends send requests that neither dispatches while it waits; an OnlySend
end that shares its process can have the other's request in the vector of an outer
`dispatchMessages` (finding 1); a lost request is waited for in vain; and the client
that keeps an encoder does not run while its main thread sleeps.

The argument: both calls wait and both ends work, so each request is somewhere
(`Account`), and with the sockets empty and nothing left to signal it is queued on
the run loop of the other process or held by its stack. `SInv` excludes the cases.

- `Untangled`: not both are held. A call that began while the other's request was
  held is younger than that request; two calls cannot both be. This is where a new
  request has no token (`RInv`) when the call begins.
- `Marks` and `Unmarked`: a queued request is not marked, nor is the call that sent
  it. `Shape`: such a call is one of an OnlySend end and began when no marked message
  was being dispatched, and a frame of `dispatchMessages` below another frame has the
  handler of a marked message on top of it. So an end whose request is queued holds
  only requests that are not marked, and then the other end would be OnlySend, too.
- `Shut`, `Resting` and `Frugal`: the ends of the two sleepers work. A socket is
  closed only when the client is invalid, the wait is called off or the process has
  ended, and nobody falls asleep in a call of an invalid connection.

**WaitForMessageProofs.tla** proves `TypeOK`, `OneWait` and `TasksCoverMessages`
for any number of messages, any `Wanted` and any number of waits. The inductive
invariant adds `TasksBounded`: tasks, plus one for the message in hand, never
exceed the messages that have arrived; without it `tasks \in 0..N` is not
preserved by `EnqueueIncomingMessage`. `FirstMatchExists` (a non-empty set of
positions has a least element) and `RemoveAtProperties` are its lemmas.

**WorklistProofs.tla** proves `OnePlanPerKey`, `NoIdleThread`,
`NoPlanOfStoppedVM` and `NoReplacementWhileCompiling` for any VMs, code blocks and
finite set of compiler threads. The inductive invariant adds `SleepersIdle` (a
sleeping thread has no plan) for the first pair, and `OwnPlans` for the rest: what
a VM learnt under the lock stays true until it takes the lock again, because only
the VM itself enqueues its plans and installs its code. That is the argument why
the check in `operationOptimize` and the later `enqueue` need not be one critical
section.

**HeapProofs.tla** proves `NoLostWakeup` of the collector for any finite set of
GC threads and any heap. The property is not inductive: a thread may sleep only
because the counts that the others look at are right. `IInv` says that
`activeThreads` and `activeMarkers` are the numbers of threads at the places where
the code has counted them (`NumberAt`, with one lemma, `MovedThread`, for a thread
that moves), what the place of the main thread says of the phase and of the places
of the others, and what sleepers there can be in each stage.

Its second part proves `QuietWhenDrained` and the refinement of `Tracing`.
`MInv` adds to `IInv` that what is marked is live, and that a marked cell waits on
a stack or has been visited, that is, its children are marked and its opaque roots
known to some thread. When `drainFromShared` of the main thread returns, no marker
is active, so that nothing is on a stack; after `visitWeak` has found nothing new
the marked cells are closed under all that keeps a cell alive, hence they contain
the live ones. Each step of Heap is then a step of `Tracing` or a stutter.

**CopyingProofs.tla** proves `TypeOK`, `BlocksLentInPhase`, `EvacuatedBlocksGone` and
`StoresSurvive`. `CInv` ties a lent block to the place of the thread that has it
(`Loans`), follows a marked cell from `reportLiveBytes` to the copy of its store
(`Reports`), says that a block still to be evacuated is on a list that some thread
will go through (`CopyWork`), and carries the stores over to the next collection,
whose marking starts from nothing (`Survivors`). `liveBytes` does not go below
zero because it is at least the size of the block's work list. One assumption is
about memory: `MemoryAssumption`, there is always another block to allocate
(enough for a store in each, and one for each thread). The code relies on it:
`Region.h:180` asserts that the allocation succeeded, and nothing handles a failure.

**WebDatabaseProofs.tla** proves all invariants of `websql` for any number of handles,
transactions and statements. The core of `DInv` is `Tokens`: a transaction under
way is in exactly one of five places. The place says which of its two
`m_requestedState` fields counts and what it may hold (`Turns`), whether it has
the origin's lock, so that the coordinator's sets and the flags of the transactions
agree (`Locks`), and whether it blocks its handle (`Handles`). `Outcomes` relates
what script was told to what SQLite did, `Closes` a main thread that waits to the
task it waits for. `UnscheduleTasks` (`removeIf`) is written as the tasks that stay,
by rank, because the provers do not know `SelectSeq`.

**Only model-checked.** The liveness properties `SyncReturns`, `SecondaryReturns`,
`MessagesDispatched`, `WaitReturns`, `CollectionEnds`, `TransactionsEnd` and
`OthersInOrder` (which says that all messages are dispatched in the end):
liveness under fairness is out of the prover's reach. Every safety invariant that a
passing run checks is proved, `SendersNotStuck` in the setting `SendersApart` only:
it does not hold in every system (finding 1 is its violation with three processes).

## 6. Plan

Done: Connection, WaitForMessage, Worklist, the collector with its abstract
specification, Web SQL. Next, in this order:

1. *An abstract specification of a synchronous call* (a request is answered once
   or fails) with Connection as its implementation.
2. *RunLoop and DispatchQueue*: `performWork` with re-entrance; refinement of the
   FIFO that Connection assumes.
3. *Network load scheduler*: `HostRecord` queues and limits; `hasRequests` does
   not count waiting synchronous loaders.
4. *Child process lifecycle*: messages sent while launching, composed with an
   abstract connection.

## 7. Not modelled

The parser, the bytecode and JIT compilers, DOM, CSS, layout and rendering are
sequential code over unbounded data: a model would restate the code, and TLC
could not cover a useful part of its inputs. The platform ports, the inspector and
the tools are glue to toolkits and I/O. Third-party code (ANGLE, WebRTC, and
others under `ThirdParty`) is not the program's own logic. The loaders of WebCore
are state machines on one thread, driven by callbacks; they come after the parts
with threads.
