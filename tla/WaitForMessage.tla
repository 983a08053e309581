---------------------------- MODULE WaitForMessage ----------------------------
(***************************************************************************)
(* Connection::waitForMessage and waitForAndDispatchImmediately: the main  *)
(* thread waits, with a timeout, for one message of a given name while the *)
(* connection queue receives messages.  A message is handed to the waiter  *)
(* through m_waitForMessageMap or goes to m_incomingMessages with a task   *)
(* on the run loop.  The two are guarded by different locks.               *)
(*                                                                         *)
(* The messages are numbered in the order in which they arrive.            *)
(***************************************************************************)
EXTENDS Naturals, Sequences, FiniteSets, SequencesExt

CONSTANTS N,        \* how many messages arrive
          Wanted,   \* those that match what the main thread waits for
          MaxWaits  \* how often the main thread waits

ASSUME WaitAssumption ==
    N \in Nat /\ Wanted \subseteq 1..N /\ MaxWaits \in Nat

VARIABLES
    arrived,   \* messages read from the socket so far
    inHand,    \* the message that processIncomingMessage is about to enqueue, or 0
    incoming,  \* m_incomingMessages
    tasks,     \* calls of dispatchOneMessage queued on the run loop
    pc,        \* the main thread: in the run loop or in waitForMessage
    waitMap,   \* the entry of m_waitForMessageMap: a message, 0 (empty) or NoEntry
    waits,     \* waits begun
    handled    \* messages given to the client, in order

vars == <<arrived, inHand, incoming, tasks, pc, waitMap, waits, handled>>

NoEntry == N + 1

Init ==
    /\ arrived = 0
    /\ inHand = 0
    /\ incoming = <<>>
    /\ tasks = 0
    /\ pc = "idle"
    /\ waitMap = NoEntry
    /\ waits = 0
    /\ handled = <<>>

-----------------------------------------------------------------------------
(* The connection queue: the part of processIncomingMessage that holds     *)
(* m_waitForMessageMutex.                                                  *)
Receive ==
    /\ arrived < N
    /\ inHand = 0
    /\ arrived' = arrived + 1
    /\ IF arrived' \in Wanted /\ waitMap # NoEntry
       THEN waitMap' = arrived' /\ UNCHANGED inHand
       ELSE inHand' = arrived' /\ UNCHANGED waitMap
    /\ UNCHANGED <<incoming, tasks, pc, waits, handled>>

(* enqueueIncomingMessage, after the mutex was released.                   *)
NewTasksFaulty == IF incoming = <<>> THEN 1 ELSE 0
NewTasksDouble == 2
NewTasks == 1

EnqueueIncomingMessage ==
    /\ inHand # 0
    /\ incoming' = Append(incoming, inHand)
    /\ tasks' = tasks + NewTasks
    /\ inHand' = 0
    /\ UNCHANGED <<arrived, pc, waitMap, waits, handled>>

-----------------------------------------------------------------------------
(* The main thread.                                                        *)
DispatchOneMessage ==
    /\ pc = "idle"
    /\ tasks > 0
    /\ tasks' = tasks - 1
    /\ IF incoming = <<>> THEN UNCHANGED <<incoming, handled>>
       ELSE /\ handled' = Append(handled, Head(incoming))
            /\ incoming' = Tail(incoming)
    /\ UNCHANGED <<arrived, inHand, pc, waitMap, waits>>

(* waitForMessage looks into the incoming queue first and takes the oldest *)
(* match.  Its task stays on the run loop.                                 *)
Matches == {i \in DOMAIN incoming : incoming[i] \in Wanted}

FirstMatch == CHOOSE i \in Matches : \A j \in Matches : i <= j

WithoutMatchFaulty == SubSeq(incoming, FirstMatch + 1, Len(incoming))
WithoutMatch == RemoveAt(incoming, FirstMatch)

LookInQueue ==
    /\ pc = "idle"
    /\ waits < MaxWaits
    /\ waits' = waits + 1
    /\ IF Matches = {} THEN pc' = "insert" /\ UNCHANGED <<incoming, handled>>
       ELSE /\ handled' = Append(handled, incoming[FirstMatch])
            /\ incoming' = WithoutMatch
            /\ UNCHANGED pc
    /\ UNCHANGED <<arrived, inHand, tasks, waitMap>>

(* It inserts the pending wait,                                            *)
InsertWait ==
    /\ pc = "insert"
    /\ waitMap' = 0
    /\ pc' = "look"
    /\ UNCHANGED <<arrived, inHand, incoming, tasks, waits, handled>>

(* looks whether the entry has been set,                                   *)
LookInMap ==
    /\ pc = "look"
    /\ IF waitMap = 0 THEN pc' = "blocked" /\ UNCHANGED <<waitMap, handled>>
       ELSE /\ handled' = Append(handled, waitMap)
            /\ waitMap' = NoEntry
            /\ pc' = "idle"
    /\ UNCHANGED <<arrived, inHand, incoming, tasks, waits>>

(* sleeps until it is notified,                                            *)
Notified ==
    /\ pc = "blocked"
    /\ waitMap # 0
    /\ pc' = "look"
    /\ UNCHANGED <<arrived, inHand, incoming, tasks, waitMap, waits, handled>>

(* or removes the entry, whatever it holds, when wait_for has timed out.   *)
EntryAfterTimeoutFaulty == waitMap
EntryAfterTimeout == NoEntry

Timeout ==
    /\ pc = "blocked"
    /\ waitMap' = EntryAfterTimeout
    /\ pc' = "idle"
    /\ UNCHANGED <<arrived, inHand, incoming, tasks, waits, handled>>

MainThread == DispatchOneMessage \/ InsertWait \/ LookInMap \/ Notified \/ Timeout

Next == Receive \/ EnqueueIncomingMessage \/ LookInQueue \/ MainThread

(* The connection queue and the main thread run; whether the client waits  *)
(* again is up to it.                                                      *)
Spec == /\ Init /\ [][Next]_vars
        /\ WF_vars(Receive \/ EnqueueIncomingMessage) /\ WF_vars(MainThread)

-----------------------------------------------------------------------------
TypeOK ==
    /\ arrived \in 0..N
    /\ inHand \in 0..N
    /\ incoming \in Seq(1..N)
    /\ tasks \in 0..N
    /\ pc \in {"idle", "insert", "look", "blocked"}
    /\ waitMap \in 0..NoEntry
    /\ waits \in 0..MaxWaits
    /\ handled \in Seq(1..N)

(* Nobody waits twice for the same message: the entry exists only while    *)
(* the main thread is in waitForMessage (its assertion on the map).        *)
OneWait == waitMap # NoEntry <=> pc \in {"look", "blocked"}

(* Every message in the incoming queue has a task that will dispatch it,   *)
(* although waitForMessage takes messages out and leaves the tasks.        *)
TasksCoverMessages == tasks >= Len(incoming)

(* Waiting for a message disturbs no other: messages that nobody waits for *)
(* are all dispatched, in order.                                           *)
Others(s) == SelectSeq(s, LAMBDA n : n \notin Wanted)
OthersInOrder == <>[](Others(handled) = Others([n \in 1..N |-> n]))
=============================================================================
