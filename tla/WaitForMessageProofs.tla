------------------------ MODULE WaitForMessageProofs ------------------------
(***************************************************************************)
(* For any number of messages and waits: the types, that there is one wait *)
(* at a time and that every message in the incoming queue has a task.      *)
(***************************************************************************)
EXTENDS WaitForMessage, SequenceTheorems, WellFoundedInduction, TLAPS

(* Every task, and the message in hand, stands for a message that arrived. *)
TasksBounded == tasks + (IF inHand = 0 THEN 0 ELSE 1) <= arrived

IInv == TypeOK /\ OneWait /\ TasksCoverMessages /\ TasksBounded

(* FirstMatch is a position of the incoming queue: a set of positions has  *)
(* a least element.                                                        *)
LEMMA FirstMatchExists ==
    ASSUME TypeOK, Matches # {}
    PROVE  FirstMatch \in 1..Len(incoming)
  <1>1. Matches \subseteq Nat /\ Matches \subseteq 1..Len(incoming)
    BY DEF Matches, TypeOK
  <1> DEFINE R == OpToRel(<, Nat)
  <1>r. \A a, b \in Nat : a < b => <<a, b>> \in R
    BY DEF OpToRel
  <1>w. IsWellFoundedOn(R, Nat)
    BY NatLessThanWellFounded
  <1> HIDE DEF R
  <1>2. PICK i \in Matches : \A j \in Matches : ~(<<j, i>> \in R)
    BY <1>1, <1>w, WFMin, Zenon
  <1>3. \A j \in Matches : i <= j
    <2> TAKE j \in Matches
    <2>1. i \in Nat /\ j \in Nat
      BY <1>1
    <2>2. ~(j < i)
      BY <1>2, <1>r, <2>1, Zenon
    <2> QED
      BY <2>1, <2>2
  <1>4. FirstMatch \in Matches
    BY <1>3 DEF FirstMatch
  <1> QED
    BY <1>1, <1>4

(* Removing one position from a sequence.                                  *)
LEMMA RemoveAtProperties ==
    ASSUME NEW S, NEW s \in Seq(S), NEW i \in 1..Len(s)
    PROVE  RemoveAt(s, i) \in Seq(S) /\ Len(RemoveAt(s, i)) = Len(s) - 1
  <1>1. Len(s) \in Nat /\ i \in Int /\ i - 1 \in Int /\ i + 1 \in Int
    OBVIOUS
  <1>2. \A k \in 1..Len(s) : s[k] \in S
    BY ElementOfSeq
  <1>3. SubSeq(s, 1, i - 1) \in Seq(S) /\ Len(SubSeq(s, 1, i - 1)) = i - 1
    BY <1>1, <1>2, SubSeqProperties
  <1>4. SubSeq(s, i + 1, Len(s)) \in Seq(S) /\ Len(SubSeq(s, i + 1, Len(s))) = Len(s) - i
    BY <1>1, <1>2, SubSeqProperties
  <1> DEFINE a == SubSeq(s, 1, i - 1)
             b == SubSeq(s, i + 1, Len(s))
  <1> HIDE DEF a, b
  <1>5. a \in Seq(S) /\ b \in Seq(S) /\ Len(a) = i - 1 /\ Len(b) = Len(s) - i
    BY <1>3, <1>4 DEF a, b
  <1>6. a \o b \in Seq(S) /\ Len(a \o b) = Len(a) + Len(b)
    BY <1>5, ConcatProperties
  <1>7. RemoveAt(s, i) = a \o b
    BY DEF RemoveAt, a, b
  <1>8. Len(a \o b) = Len(s) - 1
    BY <1>1, <1>5, <1>6
  <1> QED
    BY <1>6, <1>7, <1>8

(* A message that is handled is one of the messages.                       *)
LEMMA HandledType ==
    ASSUME NEW S, NEW s \in Seq(S), NEW m \in S
    PROVE  Append(s, m) \in Seq(S)
  BY AppendProperties

LEMMA InitImpliesIInv == Init => IInv
  BY WaitAssumption DEF Init, IInv, TypeOK, OneWait, TasksCoverMessages,
                        TasksBounded, NoEntry

(* The induction step, one case for each action.                           *)
LEMMA NextPreservesIInv == IInv /\ [Next]_vars => IInv'
  <1> SUFFICES ASSUME IInv, [Next]_vars PROVE IInv'
    OBVIOUS
  <1> USE WaitAssumption DEF IInv, OneWait, TasksCoverMessages, TasksBounded, NoEntry
  <1>1. CASE Receive
    BY <1>1 DEF Receive, TypeOK
  <1>2. CASE EnqueueIncomingMessage
    <2>1. incoming' \in Seq(1..N) /\ Len(incoming') = Len(incoming) + 1
      BY <1>2, AppendProperties DEF EnqueueIncomingMessage, TypeOK
    <2> QED
      BY <1>2, <2>1 DEF EnqueueIncomingMessage, NewTasks, TypeOK
  <1>3. CASE DispatchOneMessage
    <2>1. CASE incoming = <<>>
      BY <1>3, <2>1 DEF DispatchOneMessage, TypeOK
    <2>2. CASE incoming # <<>>
      <3>1. incoming' \in Seq(1..N) /\ Len(incoming') = Len(incoming) - 1
        BY <1>3, <2>2, HeadTailProperties DEF DispatchOneMessage, TypeOK
      <3>2. handled' \in Seq(1..N)
        <4>1. Head(incoming) \in 1..N /\ handled \in Seq(1..N)
          BY <2>2, HeadTailProperties DEF TypeOK
        <4>2. Append(handled, Head(incoming)) \in Seq(1..N)
          BY <4>1, HandledType, Zenon
        <4> QED
          BY <1>3, <2>2, <4>2 DEF DispatchOneMessage
      <3> QED
        BY <1>3, <3>1, <3>2 DEF DispatchOneMessage, TypeOK
    <2> QED
      BY <2>1, <2>2
  <1>4. CASE LookInQueue
    <2>1. CASE Matches = {}
      BY <1>4, <2>1 DEF LookInQueue, TypeOK
    <2>2. CASE Matches # {}
      <3>1. FirstMatch \in 1..Len(incoming)
        BY <2>2, FirstMatchExists
      <3>2. incoming' \in Seq(1..N) /\ Len(incoming') = Len(incoming) - 1
        BY <1>4, <2>2, <3>1, RemoveAtProperties DEF LookInQueue, WithoutMatch, TypeOK
      <3>3. handled' \in Seq(1..N)
        <4>1. incoming[FirstMatch] \in 1..N /\ handled \in Seq(1..N)
          BY <3>1, ElementOfSeq DEF TypeOK
        <4>2. Append(handled, incoming[FirstMatch]) \in Seq(1..N)
          BY <4>1, HandledType, Zenon
        <4> QED
          BY <1>4, <2>2, <4>2 DEF LookInQueue
      <3> QED
        BY <1>4, <2>2, <3>2, <3>3 DEF LookInQueue, TypeOK
    <2> QED
      BY <2>1, <2>2
  <1>5. CASE InsertWait
    BY <1>5 DEF InsertWait, TypeOK
  <1>6. CASE LookInMap
    <2>1. handled' \in Seq(1..N)
      <3>1. CASE waitMap = 0
        BY <1>6, <3>1 DEF LookInMap, TypeOK
      <3>2. CASE waitMap # 0
        <4>1. waitMap \in 1..N /\ handled \in Seq(1..N)
          BY <1>6, <3>2 DEF LookInMap, TypeOK
        <4>2. Append(handled, waitMap) \in Seq(1..N)
          BY <4>1, HandledType, Zenon
        <4> QED
          BY <1>6, <3>2, <4>2 DEF LookInMap
      <3> QED
        BY <3>1, <3>2
    <2> QED
      BY <1>6, <2>1 DEF LookInMap, TypeOK
  <1>7. CASE Notified
    BY <1>7 DEF Notified, TypeOK
  <1>8. CASE Timeout
    BY <1>8 DEF Timeout, EntryAfterTimeout, TypeOK
  <1>9. CASE UNCHANGED vars
    BY <1>9 DEF vars, TypeOK
  <1> QED
    BY <1>1, <1>2, <1>3, <1>4, <1>5, <1>6, <1>7, <1>8, <1>9 DEF Next, MainThread

LEMMA Invariant == Spec => []IInv
  BY InitImpliesIInv, NextPreservesIInv, PTL DEF Spec

(* In every execution the variables have their types; in particular there  *)
(* are never more tasks than messages, whatever arrives in between.        *)
THEOREM TypeCorrect == Spec => []TypeOK
  BY Invariant, PTL DEF IInv

(* There is an entry in m_waitForMessageMap exactly while the main thread  *)
(* waits, so the assertion of waitForMessage holds.                        *)
THEOREM AtMostOneWait == Spec => []OneWait
  BY Invariant, PTL DEF IInv

(* Every message in m_incomingMessages has a task on the run loop, however *)
(* many messages waitForMessage has taken out of the queue.                *)
THEOREM EveryMessageHasTask == Spec => []TasksCoverMessages
  BY Invariant, PTL DEF IInv
=============================================================================
