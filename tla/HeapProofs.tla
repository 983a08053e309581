----------------------------- MODULE HeapProofs -----------------------------
(***************************************************************************)
(* A parallel collection loses no wake-up, marking has stopped when the    *)
(* main thread leaves drainFromShared, and the collector implements        *)
(* Tracing.tla, for any number of GC threads, any heap and any number of   *)
(* collections.                                                            *)
(*                                                                         *)
(* NoLostWakeup is not inductive.  IInv adds that the counts of active     *)
(* threads and markers are the numbers of threads at the places where they *)
(* are counted, and what the place of the main thread says of the phase    *)
(* and of the places of the others.  IInv says who may hold cells; what    *)
(* these are is in MInv, in the second part.                               *)
(***************************************************************************)
EXTENDS HeapProperties, FiniteSetTheorems, TLAPS

(* How many threads of S are at a place of P, by the program counters f.   *)
NumberAt(f, S, P) == Cardinality({t \in S : f[t] \in P})

(* Of the threads in S only t may be at another place in g than in f.      *)
OnlyMoves(f, g, S, t) == \A u \in S : u # t => g[u] = f[u]

LEMMA MovedThread ==
    ASSUME NEW S, IsFiniteSet(S), NEW f, NEW g, NEW t \in S, NEW P,
           OnlyMoves(f, g, S, t)
    PROVE  /\ NumberAt(f, S, P) \in Nat /\ NumberAt(g, S, P) \in Nat
           /\ NumberAt(g, S, P) + (IF f[t] \in P THEN 1 ELSE 0)
                 = NumberAt(f, S, P) + (IF g[t] \in P THEN 1 ELSE 0)
  <1> DEFINE A == {u \in S : f[u] \in P}
             B == {u \in S : g[u] \in P}
  <1>0. NumberAt(f, S, P) = Cardinality(A) /\ NumberAt(g, S, P) = Cardinality(B)
    BY DEF NumberAt
  <1>1. IsFiniteSet(A) /\ IsFiniteSet(B)
    BY FS_Subset
  <1>2. Cardinality(A) \in Nat /\ Cardinality(B) \in Nat
    BY <1>1, FS_CardinalityType
  <1>3. CASE f[t] \in P <=> g[t] \in P
    <2>1. A = B
      BY <1>3 DEF OnlyMoves
    <2> QED
      BY <1>0, <1>2, <1>3, <2>1
  <1>4. CASE f[t] \notin P /\ g[t] \in P
    <2>1. B = A \cup {t} /\ t \notin A
      BY <1>4 DEF OnlyMoves
    <2>2. Cardinality(B) = Cardinality(A) + 1
      BY <1>1, <2>1, FS_AddElement
    <2> QED
      BY <1>0, <1>2, <1>4, <2>2
  <1>5. CASE f[t] \in P /\ g[t] \notin P
    <2>1. A = B \cup {t} /\ t \notin B
      BY <1>5 DEF OnlyMoves
    <2>2. Cardinality(A) = Cardinality(B) + 1
      BY <1>1, <2>1, FS_AddElement
    <2> QED
      BY <1>0, <1>2, <1>5, <2>2
  <1> QED
    BY <1>3, <1>4, <1>5

LEMMA ThreadFacts == IsFiniteSet(Thread) /\ Main \in Thread /\ Worker \subseteq Thread
  BY WorkerAssumption, FS_AddElement DEF Thread

-----------------------------------------------------------------------------
(* The inductive invariant.  PhaseTypes is what it needs to know of types. *)
PhaseTypes ==
    /\ pc \in [Thread -> Place] /\ asleep \subseteq Thread
    /\ phase \in Phase /\ shouldWait \in BOOLEAN /\ activeThreads \in Nat
    /\ shouldExit \in BOOLEAN /\ activeMarkers \in Nat /\ loaned \in Int
    /\ sharedStack \subseteq Cell /\ stack \in [Thread -> SUBSET Cell]
    /\ marked \subseteq Cell /\ DOMAIN localRoots = Thread

TracePlace == {"roots", "rootDrain", "rootDonate", "enter", "share", "drain", "donate",
               "markingWait"}
CopyPlace == {"copyNext", "copy", "copyDone"}
DrainPlace == {"drain", "donate"}
SharePlace == {"enter", "share", "markingWait"} \cup DrainPlace
WaitPlace == ActivityWait \cup {"loanWait", "phaseWait", "nextPhaseWait", "markingWait"}

(* Where the main thread is decides the phase and the two flags that GC    *)
(* threads look at.                                                        *)
Stage ==
    /\ pc[Main] \in {"startWait", "mutator", "markWait", "startCopy", "copyWait"} =>
          phase = "NoPhase" /\ ~shouldWait
    /\ pc[Main] \in TracePlace \cup {"weak", "finish", "endMark"} =>
          phase = "Mark" /\ shouldWait
    /\ pc[Main] \in CopyPlace \cup {"copyOwn", "loanWait", "endCopy"} =>
          phase = "Copy" /\ shouldWait
    /\ pc[Main] \in {"join", "destroyed"} => phase = "Exit" /\ ~shouldWait
    /\ pc[Main] \in TracePlace \cup {"weak", "finish"} => ~shouldExit
    /\ pc[Main] \in {"endMark", "markWait"} => shouldExit
    /\ pc[Main] \notin {"phaseWait", "nextPhaseWait", "exited"}

(* Where a GC thread can be, by the place of the main thread.              *)
Places ==
    \A t \in Worker :
        /\ pc[t] \in SharePlace \cup CopyPlace \cup {"phaseWait", "nextPhaseWait", "exited"}
        /\ pc[t] \in SharePlace =>
              pc[Main] \in TracePlace \cup {"weak", "finish", "endMark", "markWait"}
        /\ pc[t] \in CopyPlace =>
              pc[Main] \in CopyPlace \cup {"copyOwn", "loanWait", "endCopy", "copyWait"}
        /\ pc[t] = "phaseWait" =>
              pc[Main] \in CopyPlace \cup {"startWait", "endMark", "markWait", "copyOwn",
                                          "loanWait", "endCopy", "copyWait"}
        /\ pc[t] = "exited" => pc[Main] \in {"join", "destroyed"}

(* The two counters count threads.                                         *)
Counts ==
    /\ activeThreads = NumberAt(pc, Worker, Place \ {"nextPhaseWait"})
    /\ activeMarkers = NumberAt(pc, Thread, DrainPlace \cup {"share"})

(* A thread that sleeps is at a wait, and has missed nothing.              *)
Sleepers ==
    \A t \in asleep :
        /\ pc[t] \in WaitPlace
        /\ pc[t] \in ActivityWait => activeThreads > 0
        /\ pc[t] = "loanWait" => loaned > 0
        /\ pc[t] = "phaseWait" => shouldWait
        /\ pc[t] = "nextPhaseWait" => phase = "NoPhase"
        /\ pc[t] = "markingWait" => /\ sharedStack = {}
                                    /\ t = Main => activeMarkers > 0
                                    /\ t # Main => ~shouldExit

(* Only a thread that drains has cells or opaque roots of its own, and     *)
(* while the main thread is not tracing there are no cells to share.       *)
Work ==
    /\ \A t \in Thread : stack[t] # {} \/ localRoots[t] # {} =>
          pc[t] \in DrainPlace \cup {"rootDrain", "rootDonate"}
    /\ pc[Main] \notin TracePlace =>
          sharedStack = {} /\ \A t \in Worker : pc[t] \notin DrainPlace

(* The groups of roots, and how many have been appended.                   *)
RootTypes == roots \in Seq(SUBSET Cell) /\ group \in 0..Len(roots)

IInv == PhaseTypes /\ Stage /\ Places /\ Counts /\ Sleepers /\ Work

-----------------------------------------------------------------------------
(* A step that moves one thread changes the counters by at most one.       *)
LEMMA MoveCounts ==
    ASSUME PhaseTypes, Counts, NEW t \in Thread, NEW q \in Place,
           OnlyMoves(pc, pc', Thread, t), pc'[t] = q
    PROVE  LET busy == NumberAt(pc', Worker, Place \ {"nextPhaseWait"})
               markers == NumberAt(pc', Thread, DrainPlace \cup {"share"}) IN
           /\ busy \in Nat /\ markers \in Nat
           /\ busy + (IF t # Main /\ pc[t] # "nextPhaseWait" THEN 1 ELSE 0)
                = activeThreads + (IF t # Main /\ q # "nextPhaseWait" THEN 1 ELSE 0)
           /\ markers + (IF pc[t] \in DrainPlace \cup {"share"} THEN 1 ELSE 0)
                = activeMarkers + (IF q \in DrainPlace \cup {"share"} THEN 1 ELSE 0)
  <1> DEFINE Busy == Place \ {"nextPhaseWait"}
             Marker == DrainPlace \cup {"share"}
  <1>0. OnlyMoves(pc, pc', Worker, t)
    BY ThreadFacts DEF OnlyMoves
  <1>1. pc'[t] = q /\ (pc[t] \in Busy <=> pc[t] # "nextPhaseWait")
                  /\ (q \in Busy <=> q # "nextPhaseWait")
    BY DEF PhaseTypes
  <1> HIDE DEF Busy, Marker
  <1>2. activeThreads = NumberAt(pc, Worker, Busy) /\ activeMarkers = NumberAt(pc, Thread, Marker)
    BY DEF Counts, Busy, Marker
  <1>3. /\ NumberAt(pc', Thread, Marker) \in Nat /\ NumberAt(pc, Thread, Marker) \in Nat
        /\ NumberAt(pc', Thread, Marker) + (IF pc[t] \in Marker THEN 1 ELSE 0)
              = NumberAt(pc, Thread, Marker) + (IF pc'[t] \in Marker THEN 1 ELSE 0)
    BY ThreadFacts, MovedThread
  <1>4. CASE t = Main
    <2>1. {u \in Worker : pc[u] \in Busy} = {u \in Worker : pc'[u] \in Busy}
      BY <1>0, <1>4, WorkerAssumption DEF Thread, OnlyMoves
    <2>2. NumberAt(pc', Worker, Busy) = activeThreads /\ activeThreads \in Nat
      BY <1>2, <2>1 DEF PhaseTypes, NumberAt
    <2> QED
      BY <1>1, <1>2, <1>3, <1>4, <2>2 DEF Busy, Marker
  <1>5. CASE t # Main
    <2>1. t \in Worker /\ IsFiniteSet(Worker)
      BY <1>5, WorkerAssumption DEF Thread
    <2>2. /\ NumberAt(pc', Worker, Busy) \in Nat /\ NumberAt(pc, Worker, Busy) \in Nat
          /\ NumberAt(pc', Worker, Busy) + (IF pc[t] \in Busy THEN 1 ELSE 0)
                = NumberAt(pc, Worker, Busy) + (IF pc'[t] \in Busy THEN 1 ELSE 0)
      BY <1>0, <2>1, MovedThread
    <2> QED
      BY <1>1, <1>2, <1>3, <1>5, <2>2 DEF Busy, Marker
  <1> QED
    BY <1>4, <1>5

MarkerPlace == DrainPlace \cup {"share"}
One(b) == IF b THEN 1 ELSE 0

LEMMA CountsAfter ==
    ASSUME PhaseTypes, Counts, NEW t \in Thread, NEW q \in Place, pc' = [pc EXCEPT ![t] = q],
           activeThreads' = activeThreads + One(t # Main /\ q # "nextPhaseWait")
                               - One(t # Main /\ pc[t] # "nextPhaseWait"),
           activeMarkers' = activeMarkers + One(q \in MarkerPlace) - One(pc[t] \in MarkerPlace)
    PROVE  Counts' /\ activeThreads' \in Nat /\ activeMarkers' \in Nat
  <1>1. OnlyMoves(pc, pc', Thread, t) /\ pc'[t] = q
    BY DEF OnlyMoves, PhaseTypes
  <1> DEFINE busy == NumberAt(pc', Worker, Place \ {"nextPhaseWait"})
             markers == NumberAt(pc', Thread, DrainPlace \cup {"share"})
  <1>2. /\ busy \in Nat /\ markers \in Nat
        /\ busy + (IF t # Main /\ pc[t] # "nextPhaseWait" THEN 1 ELSE 0)
             = activeThreads + (IF t # Main /\ q # "nextPhaseWait" THEN 1 ELSE 0)
        /\ markers + (IF pc[t] \in DrainPlace \cup {"share"} THEN 1 ELSE 0)
             = activeMarkers + (IF q \in DrainPlace \cup {"share"} THEN 1 ELSE 0)
    BY <1>1, MoveCounts
  <1>3. Counts' = (activeThreads' = busy /\ activeMarkers' = markers)
    BY DEF Counts
  <1> HIDE DEF busy, markers
  <1>4. activeThreads' = busy
    BY <1>2 DEF PhaseTypes, One
  <1>5. activeMarkers' = markers
    BY <1>2 DEF PhaseTypes, One, MarkerPlace
  <1> QED
    BY <1>2, <1>3, <1>4, <1>5

(* No GC thread is active exactly if all of them wait for a phase.         *)
LEMMA NoneActive ==
    ASSUME PhaseTypes, Counts, activeThreads = 0
    PROVE  \A t \in Worker : pc[t] = "nextPhaseWait"
  <1> DEFINE A == {t \in Worker : pc[t] \in Place \ {"nextPhaseWait"}}
  <1>1. IsFiniteSet(A)
    BY WorkerAssumption, FS_Subset
  <1>2. Cardinality(A) = 0
    BY DEF Counts, NumberAt
  <1>3. A = {}
    BY <1>1, <1>2, FS_EmptySet
  <1> QED
    BY <1>3, ThreadFacts DEF PhaseTypes

(* A thread that sleeps in drainFromShared is not one of the active ones.  *)
LEMMA SleeperNotActive ==
    ASSUME PhaseTypes, Counts, NEW t \in Thread, pc[t] = "markingWait"
    PROVE  activeMarkers < Cardinality(Thread)
  <1> DEFINE A == {u \in Thread : pc[u] \in DrainPlace \cup {"share"}}
  <1>1. A \subseteq Thread /\ A # Thread
    BY DEF DrainPlace
  <1>2. /\ Cardinality(A) <= Cardinality(Thread)
        /\ Cardinality(A) = Cardinality(Thread) => A = Thread
        /\ Cardinality(A) \in Nat /\ Cardinality(Thread) \in Nat
    BY <1>1, ThreadFacts, FS_Subset, FS_CardinalityType
  <1> QED
    BY <1>1, <1>2 DEF Counts, NumberAt

USE DEF phaseVars, stackVars, opaqueVars, spaceVars, reportVars, loanVars, copiedSpaceVars

(* The outcomes of looking at the shared mark stack, by a thread that      *)
(* comes with an empty stack ("share") or has been woken up ("markingWait"), *)
(* n other threads being active.                                           *)
Looks(t, n) ==
    /\ pc[t] \in {"share", "markingWait"} /\ t \notin asleep
    /\ n = activeMarkers - (IF pc[t] = "share" THEN 1 ELSE 0)
    /\ UNCHANGED <<phaseVars, shouldExit, opaqueVars, marked, loaned>>

LEMMA StealKeeps ==
    ASSUME IInv, NEW t \in Thread, NEW n, Looks(t, n), NEW sleepers \in SUBSET asleep,
           sharedStack # {}, Steal(t, n, sleepers), t # Main => ~shouldExit
    PROVE  IInv'
  <1> USE ThreadFacts, WorkerAssumption DEF IInv
  <1>1. /\ pc' = [pc EXCEPT ![t] = "drain"] /\ activeMarkers' = n + 1 /\ asleep' = sleepers
        /\ UNCHANGED <<phase, shouldWait, activeThreads, shouldExit, opaqueRoots, localRoots,
                       marked, loaned>>
    BY DEF Steal, Looks, GoTo
  <1>2. PICK s \in SUBSET sharedStack : /\ sharedStack' = sharedStack \ s
                                        /\ stack' = [stack EXCEPT ![t] = @ \cup s]
    BY DEF Steal
  <1>3. /\ pc' \in [Thread -> Place] /\ pc'[t] = "drain" /\ "drain" \in Place
        /\ \A u \in Thread : u # t => pc'[u] = pc[u]
    BY <1>1 DEF PhaseTypes, Place
  <1>4. Counts' /\ activeThreads' \in Nat /\ activeMarkers' \in Nat
    <2>1. activeThreads' = activeThreads + One(t # Main /\ "drain" # "nextPhaseWait")
                               - One(t # Main /\ pc[t] # "nextPhaseWait")
      BY <1>1 DEF One, Looks, PhaseTypes
    <2>2. activeMarkers' = activeMarkers + One("drain" \in MarkerPlace) - One(pc[t] \in MarkerPlace)
      BY <1>1 DEF One, Looks, PhaseTypes, MarkerPlace, DrainPlace
    <2> QED
      BY <1>1, <1>3, <2>1, <2>2, CountsAfter
  <1>5. PhaseTypes'
    BY <1>1, <1>2, <1>3, <1>4 DEF PhaseTypes
  <1>6. Stage'
    BY <1>1, <1>3 DEF Stage, TracePlace, CopyPlace, DrainPlace, Looks
  <1>7. Places'
    BY <1>1, <1>3 DEF Places, TracePlace, CopyPlace, DrainPlace, SharePlace, Looks
  <1>8. Sleepers'
    BY <1>1, <1>2, <1>3 DEF PhaseTypes, Sleepers, WaitPlace, ActivityWait, Looks
  <1>9. Work'
    BY <1>1, <1>2, <1>3 DEF PhaseTypes, Work, TracePlace, DrainPlace, Looks
  <1> QED
    BY <1>4, <1>5, <1>6, <1>7, <1>8, <1>9

LEMMA SleepKeeps ==
    ASSUME IInv, NEW t \in Thread, NEW n, Looks(t, n),
           NEW sleepers \in {asleep, MarkingBroadcast}, SleepForMarking(t, n, sleepers),
           sharedStack = {}, t = Main => n # 0, t # Main => ~shouldExit,
           t # Main /\ pc[t] = "share" /\ n = 0 => sleepers = MarkingBroadcast
    PROVE  IInv'
  <1> USE ThreadFacts, WorkerAssumption DEF IInv
  <1>1. /\ pc' = [pc EXCEPT ![t] = "markingWait"] /\ activeMarkers' = n
        /\ asleep' = sleepers \cup {t}
        /\ UNCHANGED <<phase, shouldWait, activeThreads, shouldExit, opaqueRoots, localRoots,
                       marked, loaned, sharedStack, stack>>
    BY DEF SleepForMarking, Looks, GoTo
  <1>2. stack[t] = {} /\ localRoots[t] = {}
    BY DEF Work, Looks, DrainPlace
  <1>3. /\ pc' \in [Thread -> Place] /\ pc'[t] = "markingWait" /\ "markingWait" \in Place
        /\ \A u \in Thread : u # t => pc'[u] = pc[u]
    BY <1>1 DEF PhaseTypes, Place
  <1>4. Counts' /\ activeThreads' \in Nat /\ activeMarkers' \in Nat
    <2>1. activeThreads' = activeThreads + One(t # Main /\ "markingWait" # "nextPhaseWait")
                               - One(t # Main /\ pc[t] # "nextPhaseWait")
      BY <1>1 DEF One, Looks, PhaseTypes
    <2>2. activeMarkers' = activeMarkers + One("markingWait" \in MarkerPlace)
                               - One(pc[t] \in MarkerPlace)
      BY <1>1 DEF One, Looks, PhaseTypes, MarkerPlace, DrainPlace
    <2> QED
      BY <1>1, <1>3, <2>1, <2>2, CountsAfter
  <1>5. PhaseTypes'
    BY <1>1, <1>3, <1>4 DEF PhaseTypes, MarkingBroadcast
  <1>6. Stage'
    BY <1>1, <1>3 DEF Stage, TracePlace, CopyPlace, DrainPlace, Looks
  <1>7. Places'
    BY <1>1, <1>3 DEF Places, TracePlace, CopyPlace, DrainPlace, SharePlace, Looks
  <1>8. Sleepers'
    <2> SUFFICES ASSUME NEW u \in asleep'
                 PROVE  /\ pc'[u] \in WaitPlace
                        /\ pc'[u] \in ActivityWait => activeThreads' > 0
                        /\ pc'[u] = "loanWait" => loaned' > 0
                        /\ pc'[u] = "phaseWait" => shouldWait'
                        /\ pc'[u] = "nextPhaseWait" => phase' = "NoPhase"
                        /\ pc'[u] = "markingWait" => /\ sharedStack' = {}
                                                     /\ u = Main => activeMarkers' > 0
                                                     /\ u # Main => ~shouldExit'
      BY DEF Sleepers
    <2>1. CASE u = t
      BY <1>1, <1>3, <1>4, <2>1 DEF WaitPlace, ActivityWait
    <2>2. CASE u # t
      <3>1. u \in asleep /\ u \in Thread /\ pc'[u] = pc[u]
        BY <1>1, <1>3, <2>2 DEF MarkingBroadcast, PhaseTypes
      <3>2. CASE u = Main /\ pc[u] = "markingWait"
        <4>1. n # 0
          BY <1>1, <2>2, <3>1, <3>2 DEF MarkingBroadcast, At, Looks, Sleepers
        <4> QED
          BY <1>1, <1>4, <2>2, <3>1, <3>2, <4>1 DEF Sleepers, WaitPlace, ActivityWait, PhaseTypes
      <3>3. CASE ~(u = Main /\ pc[u] = "markingWait")
        BY <1>1, <3>1, <3>3 DEF Sleepers
      <3> QED
        BY <3>2, <3>3
    <2> QED
      BY <2>1, <2>2
  <1>9. Work'
    BY <1>1, <1>2, <1>3 DEF PhaseTypes, Work, TracePlace, DrainPlace, Looks
  <1> QED
    BY <1>4, <1>5, <1>6, <1>7, <1>8, <1>9

LEMMA LeaveKeeps ==
    ASSUME IInv, NEW t \in Thread, NEW n, Looks(t, n),
           NEW sleepers \in {asleep, MarkingBroadcast}, NEW to, LeaveDrain(t, n, sleepers, to),
           \/ t = Main /\ to = "weak" /\ n = 0 /\ sharedStack = {} /\ sleepers = MarkingBroadcast
           \/ /\ t # Main /\ to = "phaseWait" /\ shouldExit
              /\ pc[t] = "share" /\ n = 0 /\ sharedStack = {} => sleepers = MarkingBroadcast
    PROVE  IInv'
  <1> USE ThreadFacts, WorkerAssumption DEF IInv
  <1>1. /\ pc' = [pc EXCEPT ![t] = to] /\ activeMarkers' = n /\ asleep' = sleepers
        /\ UNCHANGED <<phase, shouldWait, activeThreads, shouldExit, opaqueRoots, localRoots,
                       marked, loaned, sharedStack, stack>>
    BY DEF LeaveDrain, Looks, GoTo
  <1>2. stack[t] = {} /\ localRoots[t] = {}
    BY DEF Work, Looks, DrainPlace
  <1>3. /\ pc' \in [Thread -> Place] /\ pc'[t] = to /\ to \in Place
        /\ \A u \in Thread : u # t => pc'[u] = pc[u]
    BY <1>1 DEF PhaseTypes, Place, ActivityWait
  <1>4. Counts' /\ activeThreads' \in Nat /\ activeMarkers' \in Nat
    <2>1. activeThreads' = activeThreads + One(t # Main /\ to # "nextPhaseWait")
                               - One(t # Main /\ pc[t] # "nextPhaseWait")
      BY <1>1 DEF One, Looks, PhaseTypes
    <2>2. activeMarkers' = activeMarkers + One(to \in MarkerPlace)
                               - One(pc[t] \in MarkerPlace)
      BY <1>1 DEF One, Looks, PhaseTypes, MarkerPlace, DrainPlace
    <2> QED
      BY <1>1, <1>3, <2>1, <2>2, CountsAfter
  <1>5. PhaseTypes'
    BY <1>1, <1>3, <1>4 DEF PhaseTypes, MarkingBroadcast
  <1>6. t # Main => pc[Main] \in {"endMark", "markWait"}
    BY DEF Stage, Places, Looks, SharePlace, DrainPlace, Thread
  <1>7. Stage'
    BY <1>1, <1>3, <1>6 DEF Stage, TracePlace, CopyPlace, DrainPlace, Looks
  <1>8. Places'
    BY <1>1, <1>3, <1>6 DEF Places, TracePlace, CopyPlace, DrainPlace, SharePlace, Looks
  <1>9. Sleepers'
    <2>1. \A u \in asleep' : /\ u \in asleep /\ u \in Thread /\ u # t /\ pc'[u] = pc[u]
                             /\ ~(u = Main /\ pc[u] = "markingWait")
      BY <1>1, <1>3, <1>6 DEF MarkingBroadcast, PhaseTypes, Looks
    <2> QED
      BY <1>1, <2>1 DEF Sleepers
  <1>10. Work'
    <2>1. CASE t = Main
      <3>1. \A u \in Worker : pc[u] \notin DrainPlace
        <4>1. {u \in Thread : pc'[u] \in DrainPlace \cup {"share"}} = {}
          <5>1. Cardinality({u \in Thread : pc'[u] \in DrainPlace \cup {"share"}}) = 0
            BY <1>1, <1>4, <2>1 DEF Counts, NumberAt
          <5> QED
            BY <5>1, FS_Subset, FS_EmptySet
        <4> QED
          BY <1>3, <2>1, <4>1
      <3> QED
        BY <1>1, <1>2, <1>3, <2>1, <3>1 DEF PhaseTypes, Work, TracePlace, DrainPlace, Looks
    <2>2. CASE t # Main
      BY <1>1, <1>2, <1>3, <2>2 DEF PhaseTypes, Work, TracePlace, DrainPlace, Looks
    <2> QED
      BY <2>1, <2>2
  <1> QED
    BY <1>4, <1>5, <1>7, <1>8, <1>9, <1>10

(* drainFromShared, with the lock held.                                    *)
LEMMA MasterKeeps ==
    ASSUME IInv, NEW n, Looks(Main, n), MasterWait(n)
    PROVE  IInv'
  <1>1. asleep \in SUBSET asleep /\ MarkingBroadcast \in {asleep, MarkingBroadcast}
        /\ asleep \in {asleep, MarkingBroadcast} /\ Main \in Thread
    BY ThreadFacts
  <1>2. CASE sharedStack # {}
    BY <1>1, <1>2, StealKeeps DEF MasterWait
  <1>3. CASE sharedStack = {} /\ n = 0
    BY <1>1, <1>3, LeaveKeeps DEF MasterWait
  <1>4. CASE sharedStack = {} /\ n # 0
    BY <1>1, <1>4, SleepKeeps DEF MasterWait
  <1> QED
    BY <1>2, <1>3, <1>4

LEMMA SlaveKeeps ==
    ASSUME IInv, NEW t \in Worker, NEW n, Looks(t, n),
           NEW sleepers \in {asleep, MarkingBroadcast}, SlaveWait(t, n, sleepers),
           pc[t] = "share" /\ n = 0 /\ sharedStack = {} => sleepers = MarkingBroadcast
    PROVE  IInv'
  <1>1. sleepers \in SUBSET asleep /\ t \in Thread /\ t # Main
    BY ThreadFacts, WorkerAssumption DEF MarkingBroadcast
  <1>2. CASE shouldExit
    BY <1>1, <1>2, LeaveKeeps DEF SlaveWait
  <1>3. CASE ~shouldExit /\ sharedStack = {}
    BY <1>1, <1>3, SleepKeeps DEF SlaveWait
  <1>4. CASE ~shouldExit /\ sharedStack # {}
    BY <1>1, <1>4, StealKeeps DEF SlaveWait
  <1> QED
    BY <1>2, <1>3, <1>4

LEMMA ShareStep ==
    ASSUME IInv, NEW t \in Thread, Share(t)
    PROVE  IInv'
  <1> DEFINE n == activeMarkers - 1
  <1>1. t \notin asleep
    BY DEF IInv, Sleepers, WaitPlace, ActivityWait, Share
  <1>2. Looks(t, n)
    BY <1>1 DEF Looks, Share
  <1> HIDE DEF n
  <1>3. CASE t = Main
    BY <1>2, <1>3, MasterKeeps DEF Share, n
  <1>4. CASE t # Main
    <2> DEFINE s == SlaveNotice(n)
    <2>1. /\ s \in {asleep, MarkingBroadcast} /\ t \in Worker
          /\ n = 0 /\ sharedStack = {} => s = MarkingBroadcast
      BY <1>4 DEF SlaveNotice, Thread
    <2>2. SlaveWait(t, n, s)
      BY <1>4 DEF Share, n
    <2> HIDE DEF s
    <2> QED
      BY <1>2, <2>1, <2>2, SlaveKeeps
  <1> QED
    BY <1>3, <1>4

LEMMA WakeMarkerStep ==
    ASSUME IInv, NEW t \in Thread, WakeMarker(t)
    PROVE  IInv'
  <1>1. Looks(t, activeMarkers)
    BY DEF Looks, WakeMarker, IInv, PhaseTypes
  <1>2. CASE t = Main
    BY <1>1, <1>2, MasterKeeps DEF WakeMarker
  <1>3. CASE t # Main
    <2>1. t \in Worker /\ asleep \in {asleep, MarkingBroadcast} /\ pc[t] # "share"
      BY <1>3 DEF Thread, WakeMarker
    <2> QED
      BY <1>1, <1>3, <2>1, SlaveKeeps DEF WakeMarker
  <1> QED
    BY <1>2, <1>3

(* Steps of one thread within a part of a phase: they leave the flags, the *)
(* counters, the sleeping threads and the shared mark stack alone.         *)
Within(t, q) ==
    \/ pc[t] \in DrainPlace /\ q \in MarkerPlace
    \/ pc[t] \in CopyPlace /\ q \in CopyPlace
    \/ /\ t = Main /\ pc[t] \in {"roots", "rootDrain", "rootDonate", "weak"}
       /\ q \in {"roots", "rootDrain", "rootDonate", "enter"}
    \/ t = Main /\ pc[t] = "weak" /\ q = "finish"
    \/ t = Main /\ pc[t] = "startCopy" /\ q = "mutator"
    \/ t = Main /\ pc[t] = "copyOwn" /\ q = "copyNext"
    \/ t = Main /\ pc[t] = "join" /\ q = "destroyed"

LEMMA WithinKeeps ==
    ASSUME IInv, NEW t \in Thread, NEW q \in Place, Within(t, q), pc' = [pc EXCEPT ![t] = q],
           UNCHANGED <<asleep, phaseVars, shouldExit, activeMarkers, sharedStack>>,
           loaned' \in Int, loaned' >= loaned, marked' \subseteq Cell,
           stack' \in [Thread -> SUBSET Cell], DOMAIN localRoots' = Thread,
           \A u \in Thread : u # t => stack'[u] = stack[u] /\ localRoots'[u] = localRoots[u],
           stack'[t] # {} \/ localRoots'[t] # {} => q \in DrainPlace \cup {"rootDrain", "rootDonate"}
    PROVE  IInv'
  <1> USE ThreadFacts, WorkerAssumption DEF IInv
  <1>1. UNCHANGED <<asleep, phase, shouldWait, activeThreads, shouldExit, activeMarkers, sharedStack>>
    OBVIOUS
  <1>2. pc[t] \notin WaitPlace /\ t \notin asleep
    BY DEF Within, MarkerPlace, DrainPlace, CopyPlace, WaitPlace, ActivityWait, Sleepers
  <1>3. /\ pc' \in [Thread -> Place] /\ pc'[t] = q
        /\ \A u \in Thread : u # t => pc'[u] = pc[u]
    BY DEF PhaseTypes
  <1>4. Counts' /\ activeThreads' \in Nat /\ activeMarkers' \in Nat
    <2>1. activeThreads' = activeThreads + One(t # Main /\ q # "nextPhaseWait")
                               - One(t # Main /\ pc[t] # "nextPhaseWait")
      BY <1>1 DEF One, Within, PhaseTypes, MarkerPlace, DrainPlace, CopyPlace
    <2>2. activeMarkers' = activeMarkers + One(q \in MarkerPlace) - One(pc[t] \in MarkerPlace)
      BY <1>1 DEF One, Within, PhaseTypes, MarkerPlace, DrainPlace, CopyPlace
    <2> QED
      BY <2>1, <2>2, CountsAfter
  <1>5. PhaseTypes'
    BY <1>1, <1>3, <1>4 DEF PhaseTypes
  <1>6. Stage'
    BY <1>1, <1>3 DEF Within, Stage, TracePlace, CopyPlace, MarkerPlace, DrainPlace
  <1>7. Places'
    BY <1>1, <1>3 DEF Within, Places, TracePlace, CopyPlace, MarkerPlace, DrainPlace, SharePlace
  <1>8. Sleepers'
    <2>1. \A u \in asleep' : u \in asleep /\ u \in Thread /\ pc'[u] = pc[u]
      BY <1>1, <1>2, <1>3 DEF PhaseTypes
    <2> QED
      BY <1>1, <2>1 DEF Sleepers, PhaseTypes
  <1>9. Work'
    BY <1>1, <1>3 DEF PhaseTypes, Work, Within, TracePlace, CopyPlace, MarkerPlace, DrainPlace
  <1> QED
    BY <1>4, <1>5, <1>6, <1>7, <1>8, <1>9

LEMMA AfterVisitsIs ==
    ASSUME NEW t, NEW drain, NEW donate, AfterVisits(t, drain, donate)
    PROVE  \E q \in {drain, donate} : pc' = [pc EXCEPT ![t] = q]
  BY DEF AfterVisits, GoTo

LEMMA VisitCellStep ==
    ASSUME IInv, NEW t \in Thread, NEW c \in Cell, VisitCell(t, c)
    PROVE  IInv'
  <1>1. PICK q \in {"drain", "donate", "rootDrain", "rootDonate"} :
            /\ pc' = [pc EXCEPT ![t] = q]
            /\ pc[t] = "drain" => q \in {"drain", "donate"}
            /\ pc[t] = "rootDrain" => q \in {"rootDrain", "rootDonate"}
    BY AfterVisitsIs DEF VisitCell
  <1>2. q \in Place /\ Within(t, q)
    BY <1>1, WorkerAssumption
    DEF Within, Place, MarkerPlace, DrainPlace, VisitCell, IInv, Places, Thread, SharePlace, CopyPlace
  <1>3. Children[c] \subseteq Cell
    BY CellAssumption
  <1>4. /\ marked' \subseteq Cell /\ stack' \in [Thread -> SUBSET Cell]
        /\ \A u \in Thread : u # t => stack'[u] = stack[u]
    BY <1>3 DEF VisitCell, InternalAppend, IInv, PhaseTypes
  <1>5. DOMAIN localRoots' = Thread /\ \A u \in Thread : u # t => localRoots'[u] = localRoots[u]
    BY DEF VisitCell, AddOpaqueRoot, IInv, PhaseTypes
  <1>6. /\ UNCHANGED <<asleep, phaseVars, shouldExit, activeMarkers, sharedStack>>
        /\ loaned' = loaned /\ loaned' \in Int /\ loaned' >= loaned
    BY DEF VisitCell, IInv, PhaseTypes
  <1> QED
    BY <1>1, <1>2, <1>4, <1>5, <1>6, WithinKeeps DEF DrainPlace

LEMMA DrainedStep ==
    ASSUME IInv, NEW t \in Thread, NEW from, NEW to, Drained(t, from, to),
           \/ from = "drain" /\ to = "share"
           \/ t = Main /\ from = "rootDrain" /\ to \in {"roots", "enter"}
    PROVE  IInv'
  <1>1. to \in Place /\ Within(t, to) /\ pc' = [pc EXCEPT ![t] = to]
    BY DEF Within, Place, MarkerPlace, DrainPlace, Drained, GoTo
  <1>2. /\ UNCHANGED <<asleep, phaseVars, shouldExit, activeMarkers, sharedStack, stack, marked>>
        /\ loaned' = loaned /\ loaned' \in Int /\ loaned' >= loaned
    BY DEF Drained, IInv, PhaseTypes
  <1>3. /\ DOMAIN localRoots' = Thread /\ stack[t] = {} /\ localRoots'[t] = {}
        /\ \A u \in Thread : u # t => localRoots'[u] = localRoots[u]
    BY DEF Drained, MergeOpaqueRoots, IInv, PhaseTypes
  <1>4. stack' \in [Thread -> SUBSET Cell] /\ marked' \subseteq Cell
    BY <1>2 DEF IInv, PhaseTypes
  <1> QED
    BY <1>1, <1>2, <1>3, <1>4, WithinKeeps

(* Steps of the copying phase that only move a thread.                     *)
LEMMA CopyingKeeps ==
    ASSUME IInv, NEW t \in Thread, NEW q \in Place, Within(t, q), pc' = [pc EXCEPT ![t] = q],
           UNCHANGED <<asleep, phaseVars, markVars>>, loaned' \in Int, loaned' >= loaned,
           pc[t] \notin DrainPlace \cup {"rootDrain", "rootDonate"}
    PROVE  IInv'
  <1>1. /\ UNCHANGED <<shouldExit, activeMarkers, sharedStack, stack, localRoots, marked>>
        /\ stack[t] = {} /\ localRoots[t] = {}
    BY DEF markVars, IInv, Work
  <1>2. /\ stack' \in [Thread -> SUBSET Cell] /\ marked' \subseteq Cell /\ DOMAIN localRoots' = Thread
        /\ stack'[t] = {} /\ localRoots'[t] = {}
    BY <1>1 DEF IInv, PhaseTypes
  <1> QED
    BY <1>1, <1>2, WithinKeeps

LEMMA CopyPhaseStep ==
    ASSUME IInv, NEW t \in Thread, UNCHANGED markVars,
           \/ GetNextBlocksToCopy(t) \/ SkipBlock(t) \/ \E c \in Cell : CopyItem(t, c)
    PROVE  IInv'
  <1>0. pc[t] \in CopyPlace /\ pc = [pc EXCEPT ![t] = pc[t]]
    BY DEF GetNextBlocksToCopy, SkipBlock, CopyItem, CopyPlace, IInv, PhaseTypes
  <1>1. PICK q \in CopyPlace : pc' = [pc EXCEPT ![t] = q]
    <2>1. CASE GetNextBlocksToCopy(t)
      BY <2>1 DEF GetNextBlocksToCopy, GoTo, CopyPlace
    <2>2. CASE SkipBlock(t)
      BY <1>0, <2>2 DEF SkipBlock, GoTo, CopyPlace
    <2>3. CASE \E c \in Cell : CopyItem(t, c)
      BY <1>0, <2>3 DEF CopyItem
    <2> QED
      BY <2>1, <2>2, <2>3
  <1>2. /\ q \in Place /\ Within(t, q) /\ pc[t] \in CopyPlace
        /\ pc[t] \notin DrainPlace \cup {"rootDrain", "rootDonate"}
    BY DEF GetNextBlocksToCopy, SkipBlock, CopyItem, CopyPlace, Within, Place, DrainPlace
  <1>3. UNCHANGED <<asleep, phaseVars, loaned>>
    <2>1. CASE GetNextBlocksToCopy(t)
      BY <2>1 DEF GetNextBlocksToCopy
    <2>2. CASE SkipBlock(t)
      BY <2>2 DEF SkipBlock
    <2>3. CASE \E c \in Cell : CopyItem(t, c)
      BY <2>3 DEF CopyItem
    <2> QED
      BY <2>1, <2>2, <2>3
  <1>4. loaned' \in Int /\ loaned' >= loaned
    BY <1>3 DEF IInv, PhaseTypes
  <1> QED
    BY <1>1, <1>2, <1>3, <1>4, CopyingKeeps

LEMMA DonateStep ==
    ASSUME IInv, NEW t \in Thread, Donate(t)
    PROVE  IInv'
  <1> USE ThreadFacts, WorkerAssumption DEF IInv
  <1> DEFINE q == IF pc[t] = "donate" THEN "drain" ELSE "rootDrain"
  <1>1. /\ pc' = [pc EXCEPT ![t] = q] /\ pc[t] \in {"donate", "rootDonate"}
        /\ asleep' = IF activeMarkers < Cardinality(Thread) THEN MarkingBroadcast ELSE asleep
        /\ UNCHANGED <<phase, shouldWait, activeThreads, shouldExit, activeMarkers, opaqueRoots,
                       localRoots, marked, loaned>>
    BY DEF Donate, GoTo
  <1>2. PICK d \in SUBSET stack[t] : /\ sharedStack' = sharedStack \cup d
                                     /\ stack' = [stack EXCEPT ![t] = @ \ d]
    BY DEF Donate
  <1>3. pc[t] = "rootDonate" => t = Main
    BY <1>1 DEF Places, Thread, SharePlace, DrainPlace, CopyPlace
  <1>4. /\ pc' \in [Thread -> Place] /\ pc'[t] = q /\ q \in Place
        /\ \A u \in Thread : u # t => pc'[u] = pc[u]
    BY <1>1 DEF PhaseTypes, Place
  <1>5. Counts' /\ activeThreads' \in Nat /\ activeMarkers' \in Nat
    <2>1. activeThreads' = activeThreads + One(t # Main /\ q # "nextPhaseWait")
                               - One(t # Main /\ pc[t] # "nextPhaseWait")
      BY <1>1 DEF One, PhaseTypes
    <2>2. activeMarkers' = activeMarkers + One(q \in MarkerPlace) - One(pc[t] \in MarkerPlace)
      BY <1>1 DEF One, PhaseTypes, MarkerPlace, DrainPlace
    <2> QED
      BY <1>1, <1>4, <2>1, <2>2, CountsAfter
  <1>6. PhaseTypes'
    BY <1>1, <1>2, <1>4, <1>5 DEF PhaseTypes, MarkingBroadcast
  <1>7. Stage'
    BY <1>1, <1>3, <1>4 DEF Stage, TracePlace, CopyPlace, DrainPlace
  <1>8. Places'
    BY <1>1, <1>3, <1>4 DEF Places, TracePlace, CopyPlace, DrainPlace, SharePlace
  <1>9. Sleepers'
    <2>1. \A u \in asleep' : u \in asleep /\ u \in Thread /\ u # t /\ pc'[u] = pc[u]
      BY <1>1, <1>4 DEF MarkingBroadcast, PhaseTypes, Sleepers, WaitPlace, ActivityWait
    <2>2. \A u \in asleep' : pc[u] # "markingWait"
      <3> SUFFICES ASSUME NEW u \in asleep', pc[u] = "markingWait" PROVE FALSE
        OBVIOUS
      <3>1. activeMarkers < Cardinality(Thread)
        BY <2>1, SleeperNotActive
      <3> QED
        BY <1>1, <2>1, <3>1 DEF MarkingBroadcast, At
    <2> QED
      BY <1>1, <2>1, <2>2 DEF Sleepers
  <1>10. Work'
    BY <1>1, <1>2, <1>3, <1>4, WorkerAssumption
    DEF PhaseTypes, Work, TracePlace, DrainPlace, Thread
  <1> QED
    BY <1>5, <1>6, <1>7, <1>8, <1>9, <1>10

LEMMA EnterDrainStep ==
    ASSUME IInv, NEW t \in Thread, EnterDrain(t)
    PROVE  IInv'
  <1> USE ThreadFacts, WorkerAssumption DEF IInv
  <1>1. /\ pc' = [pc EXCEPT ![t] = "share"] /\ pc[t] = "enter"
        /\ activeMarkers' = activeMarkers + 1
        /\ UNCHANGED <<asleep, phase, shouldWait, activeThreads, shouldExit, opaqueRoots,
                       localRoots, marked, loaned, sharedStack, stack>>
    BY DEF EnterDrain, GoTo
  <1>2. stack[t] = {} /\ localRoots[t] = {}
    BY <1>1 DEF Work, DrainPlace
  <1>3. /\ pc' \in [Thread -> Place] /\ pc'[t] = "share" /\ "share" \in Place
        /\ \A u \in Thread : u # t => pc'[u] = pc[u]
    BY <1>1 DEF PhaseTypes, Place
  <1>4. Counts' /\ activeThreads' \in Nat /\ activeMarkers' \in Nat
    <2>1. activeThreads' = activeThreads + One(t # Main /\ "share" # "nextPhaseWait")
                               - One(t # Main /\ pc[t] # "nextPhaseWait")
      BY <1>1 DEF One, PhaseTypes
    <2>2. activeMarkers' = activeMarkers + One("share" \in MarkerPlace) - One(pc[t] \in MarkerPlace)
      BY <1>1 DEF One, PhaseTypes, MarkerPlace, DrainPlace
    <2> QED
      BY <1>1, <1>3, <2>1, <2>2, CountsAfter
  <1>5. PhaseTypes'
    BY <1>1, <1>3, <1>4 DEF PhaseTypes
  <1>6. Stage'
    BY <1>1, <1>3 DEF Stage, TracePlace, CopyPlace, DrainPlace
  <1>7. Places'
    BY <1>1, <1>3 DEF Places, TracePlace, CopyPlace, DrainPlace, SharePlace
  <1>8. Sleepers'
    <2>1. \A u \in asleep' : u \in asleep /\ u \in Thread /\ u # t /\ pc'[u] = pc[u]
      BY <1>1, <1>3 DEF PhaseTypes, Sleepers, WaitPlace, ActivityWait
    <2> QED
      BY <1>1, <2>1 DEF Sleepers, PhaseTypes
  <1>9. Work'
    BY <1>1, <1>2, <1>3 DEF PhaseTypes, Work, TracePlace, DrainPlace
  <1> QED
    BY <1>4, <1>5, <1>6, <1>7, <1>8, <1>9

LEMMA DoneCopyingStep ==
    ASSUME IInv, NEW t \in Thread, UNCHANGED markVars,
           DoneCopying(t, IF t = Main THEN "loanWait" ELSE "phaseWait")
    PROVE  IInv'
  <1> USE ThreadFacts, WorkerAssumption DEF IInv
  <1> DEFINE q == IF t = Main THEN "loanWait" ELSE "phaseWait"
  <1>1. /\ pc' = [pc EXCEPT ![t] = q] /\ pc[t] = "copyDone"
        /\ loaned' \in {loaned, loaned - 1}
        /\ asleep' = IF loaned' = 0 THEN asleep \ At({"loanWait"}) ELSE asleep
        /\ UNCHANGED <<phase, shouldWait, activeThreads, shouldExit, activeMarkers, localRoots,
                       marked, sharedStack, stack>>
    BY DEF DoneCopying, GoTo, markVars
  <1>2. stack[t] = {} /\ localRoots[t] = {}
    BY <1>1 DEF Work, DrainPlace
  <1>3. /\ pc' \in [Thread -> Place] /\ pc'[t] = q /\ q \in Place
        /\ \A u \in Thread : u # t => pc'[u] = pc[u]
    BY <1>1 DEF PhaseTypes, Place
  <1>4. Counts' /\ activeThreads' \in Nat /\ activeMarkers' \in Nat
    <2>1. activeThreads' = activeThreads + One(t # Main /\ q # "nextPhaseWait")
                               - One(t # Main /\ pc[t] # "nextPhaseWait")
      BY <1>1 DEF One, PhaseTypes
    <2>2. activeMarkers' = activeMarkers + One(q \in MarkerPlace) - One(pc[t] \in MarkerPlace)
      BY <1>1 DEF One, PhaseTypes, MarkerPlace, DrainPlace
    <2> QED
      BY <1>1, <1>3, <2>1, <2>2, CountsAfter
  <1>5. PhaseTypes'
    BY <1>1, <1>3, <1>4 DEF PhaseTypes
  <1>6. Stage'
    BY <1>1, <1>3 DEF Stage, TracePlace, CopyPlace, DrainPlace
  <1>7. Places'
    BY <1>1, <1>3 DEF Places, TracePlace, CopyPlace, DrainPlace, SharePlace
  <1>8. Sleepers'
    <2>1. \A u \in asleep' : /\ u \in asleep /\ u \in Thread /\ u # t /\ pc'[u] = pc[u]
                             /\ pc[u] = "loanWait" => loaned' # 0
      BY <1>1, <1>3 DEF PhaseTypes, Sleepers, WaitPlace, ActivityWait, At
    <2> QED
      BY <1>1, <2>1 DEF Sleepers, PhaseTypes
  <1>9. Work'
    BY <1>1, <1>2, <1>3 DEF PhaseTypes, Work, TracePlace, DrainPlace
  <1> QED
    BY <1>4, <1>5, <1>6, <1>7, <1>8, <1>9

-----------------------------------------------------------------------------
(* A GC thread that waits for a phase.                                     *)
LEMMA WaitForNextPhaseStep ==
    ASSUME IInv, NEW t \in Worker, WaitForNextPhase(t), UNCHANGED <<markVars, loaned>>
    PROVE  IInv'
  <1> USE ThreadFacts, WorkerAssumption DEF IInv
  <1>0. /\ t \in Thread /\ t # Main /\ pc[t] = "phaseWait" /\ t \notin asleep
        /\ UNCHANGED <<phase, shouldWait, shouldExit, activeMarkers, localRoots, marked,
                       sharedStack, stack, loaned>>
    BY DEF WaitForNextPhase, markVars
  <1>1. CASE shouldWait
    <2>1. asleep' = asleep \cup {t} /\ UNCHANGED <<pc, activeThreads>>
      BY <1>1 DEF WaitForNextPhase
    <2>2. PhaseTypes' /\ Stage' /\ Places' /\ Counts' /\ Work'
      BY <1>0, <2>1 DEF PhaseTypes, Stage, Places, Counts, Work
    <2>3. Sleepers'
      BY <1>0, <1>1, <2>1 DEF Sleepers, WaitPlace, ActivityWait
    <2> QED
      BY <2>2, <2>3
  <1>2. CASE ~shouldWait
    <2>1. phase = "NoPhase" /\ pc[Main] \in {"startWait", "markWait", "copyWait"}
      BY <1>0, <1>2 DEF Stage, Places, CopyPlace, TracePlace
    <2>2. /\ pc' = [pc EXCEPT ![t] = "nextPhaseWait"] /\ activeThreads' = activeThreads - 1
          /\ asleep' = (IF activeThreads = 1 THEN asleep \ At(ActivityWait) ELSE asleep) \cup {t}
      BY <1>2, <2>1 DEF WaitForNextPhase, AwaitPhase, GoTo
    <2>3. /\ pc' \in [Thread -> Place] /\ pc'[t] = "nextPhaseWait" /\ "nextPhaseWait" \in Place
          /\ \A u \in Thread : u # t => pc'[u] = pc[u]
      BY <1>0, <2>2 DEF PhaseTypes, Place
    <2>4. Counts' /\ activeThreads' \in Nat /\ activeMarkers' \in Nat
      <3>1. activeThreads' = activeThreads + One(t # Main /\ "nextPhaseWait" # "nextPhaseWait")
                                 - One(t # Main /\ pc[t] # "nextPhaseWait")
        BY <1>0, <2>2 DEF One, PhaseTypes
      <3>2. activeMarkers' = activeMarkers + One("nextPhaseWait" \in MarkerPlace)
                                 - One(pc[t] \in MarkerPlace)
        BY <1>0 DEF One, PhaseTypes, MarkerPlace, DrainPlace
      <3> QED
        BY <1>0, <2>2, <2>3, <3>1, <3>2, CountsAfter
    <2>5. PhaseTypes'
      BY <1>0, <2>2, <2>3, <2>4 DEF PhaseTypes
    <2>6. Stage'
      BY <1>0, <2>3 DEF Stage
    <2>7. Places'
      BY <1>0, <2>3 DEF Places, SharePlace, CopyPlace, DrainPlace
    <2>8. Sleepers'
      <3> SUFFICES ASSUME NEW u \in asleep', u # t
                   PROVE  /\ pc'[u] = pc[u] /\ u \in asleep
                          /\ pc[u] \in ActivityWait => activeThreads' > 0
        BY <1>0, <2>1, <2>3 DEF Sleepers, WaitPlace, ActivityWait
      <3>1. u \in asleep /\ u \in Thread /\ pc'[u] = pc[u]
        BY <2>2, <2>3 DEF PhaseTypes
      <3>2. pc[u] \in ActivityWait => activeThreads # 1 /\ activeThreads > 0
        BY <2>2, <3>1 DEF At, Sleepers
      <3> QED
        BY <2>2, <3>1, <3>2 DEF PhaseTypes
    <2>9. Work'
      BY <1>0, <2>3 DEF Work, DrainPlace
    <2> QED
      BY <2>4, <2>5, <2>6, <2>7, <2>8, <2>9
  <1> QED
    BY <1>1, <1>2

LEMMA NextPhaseStep ==
    ASSUME IInv, NEW t \in Worker, NextPhase(t), UNCHANGED <<markVars, loaned>>
    PROVE  IInv'
  <1> USE ThreadFacts, WorkerAssumption DEF IInv
  <1>0. /\ t \in Thread /\ t # Main /\ pc[t] = "nextPhaseWait" /\ t \notin asleep
        /\ UNCHANGED <<phase, shouldWait, shouldExit, activeMarkers, localRoots, marked,
                       sharedStack, stack, loaned>>
    BY DEF NextPhase, markVars
  <1>1. CASE phase = "NoPhase"
    <2>1. asleep' = asleep \cup {t} /\ pc' = [pc EXCEPT ![t] = "nextPhaseWait"]
          /\ UNCHANGED activeThreads
      BY <1>1 DEF NextPhase, AwaitPhase, GoTo
    <2>2. pc' = pc
      BY <1>0, <2>1 DEF PhaseTypes
    <2>3. PhaseTypes' /\ Stage' /\ Places' /\ Counts' /\ Work'
      BY <1>0, <2>1, <2>2 DEF PhaseTypes, Stage, Places, Counts, Work
    <2>4. Sleepers'
      BY <1>0, <1>1, <2>1, <2>2 DEF Sleepers, WaitPlace, ActivityWait
    <2> QED
      BY <2>3, <2>4
  <1>2. CASE phase # "NoPhase"
    <2> DEFINE q == PhaseEntry(phase)
    <2>1. /\ pc' = [pc EXCEPT ![t] = q] /\ activeThreads' = activeThreads + 1
          /\ asleep' = asleep
      BY <1>2 DEF NextPhase, AwaitPhase, GoTo
    <2>2. \/ phase = "Mark" /\ q = "enter"
          \/ phase = "Copy" /\ q = "copyNext"
          \/ phase = "Exit" /\ q = "exited"
      BY <1>2 DEF PhaseTypes, Phase, PhaseEntry
    <2> HIDE DEF q
    <2>3. /\ pc' \in [Thread -> Place] /\ pc'[t] = q /\ q \in Place /\ q # "nextPhaseWait"
          /\ \A u \in Thread : u # t => pc'[u] = pc[u]
      BY <1>0, <2>1, <2>2 DEF PhaseTypes, Place
    <2>4. Counts' /\ activeThreads' \in Nat /\ activeMarkers' \in Nat
      <3>1. activeThreads' = activeThreads + One(t # Main /\ q # "nextPhaseWait")
                                 - One(t # Main /\ pc[t] # "nextPhaseWait")
        BY <1>0, <2>1, <2>3 DEF One, PhaseTypes
      <3>2. activeMarkers' = activeMarkers + One(q \in MarkerPlace) - One(pc[t] \in MarkerPlace)
        BY <1>0, <2>2 DEF One, PhaseTypes, MarkerPlace, DrainPlace
      <3> QED
        BY <1>0, <2>1, <2>3, <3>1, <3>2, CountsAfter
    <2>5. PhaseTypes'
      BY <1>0, <2>1, <2>3, <2>4 DEF PhaseTypes
    <2>6. Stage'
      BY <1>0, <2>3 DEF Stage
    <2>7. Places'
      <3>1. \/ q = "enter" /\ pc[Main] \in TracePlace \cup {"weak", "finish", "endMark"}
            \/ q = "copyNext" /\ pc[Main] \in CopyPlace \cup {"copyOwn", "loanWait", "endCopy"}
            \/ q = "exited" /\ pc[Main] \in {"join", "destroyed"}
        BY <2>2 DEF Stage, PhaseTypes, Place, ActivityWait, TracePlace, CopyPlace
      <3> QED
        BY <1>0, <2>3, <3>1 DEF Places, SharePlace, CopyPlace, DrainPlace, TracePlace
    <2>8. Sleepers'
      <3>1. \A u \in asleep' : u \in asleep /\ u \in Thread /\ pc'[u] = pc[u]
        BY <1>0, <2>1, <2>3 DEF PhaseTypes
      <3> QED
        BY <1>0, <2>1, <3>1 DEF Sleepers, PhaseTypes
    <2>9. Work'
      BY <1>0, <2>2, <2>3 DEF Work, DrainPlace
    <2> QED
      BY <2>4, <2>5, <2>6, <2>7, <2>8, <2>9
  <1> QED
    BY <1>1, <1>2

-----------------------------------------------------------------------------
(* Steps of the main thread that start or end a phase.                     *)
LEMMA PhaseKeeps ==
    ASSUME IInv, NEW q, pc' = [pc EXCEPT ![Main] = q], PhaseBroadcast,
           UNCHANGED <<activeThreads, activeMarkers, sharedStack, localRoots>>,
           \/ /\ pc[Main] = "mutator" /\ q = "roots"
              /\ phase' = "Mark" /\ shouldWait' = TRUE /\ shouldExit' = FALSE
           \/ /\ pc[Main] = "endMark" /\ q = "markWait"
              /\ phase' = "NoPhase" /\ shouldWait' = FALSE /\ UNCHANGED shouldExit
           \/ /\ pc[Main] = "startCopy" /\ q = "copyOwn"
              /\ phase' = "Copy" /\ shouldWait' = TRUE /\ UNCHANGED shouldExit
           \/ /\ pc[Main] = "endCopy" /\ q = "copyWait"
              /\ phase' = "NoPhase" /\ shouldWait' = FALSE /\ UNCHANGED shouldExit
           \/ /\ pc[Main] = "mutator" /\ q = "join"
              /\ phase' = "Exit" /\ shouldWait' = FALSE /\ shouldExit' = TRUE,
           loaned' \in Int, marked' \subseteq Cell,
           stack' = stack \/ stack' = [stack EXCEPT ![Main] = {}]
    PROVE  IInv'
  <1> USE ThreadFacts, WorkerAssumption DEF IInv
  <1>1. /\ pc' \in [Thread -> Place] /\ pc'[Main] = q /\ q \in Place
        /\ \A u \in Thread : u # Main => pc'[u] = pc[u]
    BY DEF PhaseTypes, Place, ActivityWait
  <1>2. stack[Main] = {} /\ localRoots[Main] = {}
    BY DEF Work, DrainPlace
  <1>3. stack' \in [Thread -> SUBSET Cell] /\ \A u \in Thread : stack'[u] = stack[u]
    BY <1>2 DEF PhaseTypes
  <1>4. Counts' /\ activeThreads' \in Nat /\ activeMarkers' \in Nat
    <2>1. activeThreads' = activeThreads + One(Main # Main /\ q # "nextPhaseWait")
                               - One(Main # Main /\ pc[Main] # "nextPhaseWait")
      BY DEF One, PhaseTypes
    <2>2. activeMarkers' = activeMarkers + One(q \in MarkerPlace) - One(pc[Main] \in MarkerPlace)
      BY DEF One, PhaseTypes, MarkerPlace, DrainPlace
    <2> QED
      BY <1>1, <2>1, <2>2, CountsAfter
  <1>5. PhaseTypes'
    BY <1>1, <1>3, <1>4 DEF PhaseTypes, PhaseBroadcast, Phase
  <1>6. Stage'
    BY <1>1 DEF Stage, TracePlace, CopyPlace
  <1>7. Places'
    BY <1>1 DEF Places, TracePlace, CopyPlace, DrainPlace, SharePlace
  <1>8. Sleepers'
    <2> SUFFICES ASSUME NEW u \in asleep'
                 PROVE  /\ u \in asleep /\ u # Main /\ u \in Worker /\ pc'[u] = pc[u]
                        /\ pc[u] = "markingWait" /\ shouldExit' = shouldExit
      BY DEF Sleepers, WaitPlace, ActivityWait
    <2>1. u \in asleep /\ u \in Thread /\ pc[u] \in WaitPlace
      BY DEF PhaseTypes, PhaseBroadcast, Sleepers
    <2>2. u # Main
      BY <2>1 DEF WaitPlace, ActivityWait
    <2>3. u \in Worker /\ pc'[u] = pc[u]
      BY <1>1, <2>1, <2>2 DEF Thread
    <2>4. pc[u] = "markingWait"
      BY <2>1, <2>3 DEF PhaseBroadcast, At, WaitPlace, ActivityWait, Places, SharePlace,
                        CopyPlace, DrainPlace
    <2>5. pc[Main] # "mutator"
      BY <2>3, <2>4 DEF Places, SharePlace, TracePlace
    <2> QED
      BY <2>1, <2>2, <2>3, <2>4, <2>5
  <1>9. Work'
    BY <1>1, <1>2, <1>3 DEF Work, TracePlace, DrainPlace
  <1> QED
    BY <1>4, <1>5, <1>6, <1>7, <1>8, <1>9

(* Steps of the main thread that leave the phase alone.                    *)
LEMMA FinishMarkingStep ==
    ASSUME IInv, FinishMarking
    PROVE  IInv'
  <1> USE ThreadFacts, WorkerAssumption DEF IInv
  <1>0. /\ pc' = [pc EXCEPT ![Main] = "endMark"] /\ pc[Main] = "finish"
        /\ asleep' = asleep \ At({"markingWait"}) /\ shouldExit' = TRUE
        /\ UNCHANGED <<phase, shouldWait, activeThreads, activeMarkers, localRoots, marked,
                       sharedStack, stack, loaned>>
    BY DEF FinishMarking, GoTo, MarkingBroadcast
  <1>1. /\ pc' \in [Thread -> Place] /\ pc'[Main] = "endMark" /\ "endMark" \in Place
        /\ \A u \in Thread : u # Main => pc'[u] = pc[u]
    BY <1>0 DEF PhaseTypes, Place
  <1>4. Counts' /\ activeThreads' \in Nat /\ activeMarkers' \in Nat
    <2>1. activeThreads' = activeThreads + One(Main # Main /\ "endMark" # "nextPhaseWait")
                               - One(Main # Main /\ pc[Main] # "nextPhaseWait")
      BY <1>0 DEF One, PhaseTypes
    <2>2. activeMarkers' = activeMarkers + One("endMark" \in MarkerPlace)
                               - One(pc[Main] \in MarkerPlace)
      BY <1>0 DEF One, PhaseTypes, MarkerPlace, DrainPlace
    <2> QED
      BY <1>0, <1>1, <2>1, <2>2, CountsAfter
  <1>5. PhaseTypes'
    BY <1>0, <1>1, <1>4 DEF PhaseTypes
  <1>6. Stage'
    BY <1>0, <1>1 DEF Stage, TracePlace, CopyPlace
  <1>7. Places'
    BY <1>0, <1>1 DEF Places, TracePlace, CopyPlace, DrainPlace, SharePlace
  <1>8. Sleepers'
    <2>1. \A u \in asleep' : /\ u \in asleep /\ u \in Thread /\ u # Main /\ pc'[u] = pc[u]
                             /\ pc[u] # "markingWait"
      BY <1>0, <1>1 DEF PhaseTypes, Sleepers, WaitPlace, ActivityWait, At
    <2> QED
      BY <1>0, <2>1 DEF Sleepers
  <1>9. Work'
    BY <1>0, <1>1 DEF Work, TracePlace, DrainPlace
  <1> QED
    BY <1>4, <1>5, <1>6, <1>7, <1>8, <1>9

(* The main thread goes to sleep.                                          *)
LEMMA MainSleeps ==
    ASSUME IInv, UNCHANGED <<pc, phaseVars, markVars, loaned>>,
           asleep' = asleep \cup {Main},
           \/ pc[Main] \in ActivityWait /\ activeThreads > 0
           \/ pc[Main] = "loanWait" /\ loaned > 0
    PROVE  IInv'
  <1> USE ThreadFacts, WorkerAssumption DEF IInv
  <1>1. UNCHANGED <<pc, phase, shouldWait, activeThreads, shouldExit, activeMarkers, localRoots,
                    marked, sharedStack, stack, loaned>>
    BY DEF markVars
  <1>2. PhaseTypes' /\ Stage' /\ Places' /\ Counts' /\ Work'
    BY <1>1 DEF PhaseTypes, Stage, Places, Counts, Work
  <1>3. Sleepers'
    BY <1>1 DEF Sleepers, WaitPlace, ActivityWait
  <1> QED
    BY <1>2, <1>3

(* The main thread stops waiting.                                          *)
LEMMA MainGoesOn ==
    ASSUME IInv, NEW q, pc' = [pc EXCEPT ![Main] = q], Main \notin asleep,
           UNCHANGED <<asleep, phaseVars, shouldExit, activeMarkers, sharedStack, stack,
                       localRoots, marked, loaned>>,
           \/ pc[Main] = "startWait" /\ q = "mutator" /\ activeThreads = 0
           \/ pc[Main] = "markWait" /\ q = "startCopy" /\ activeThreads = 0
           \/ pc[Main] = "copyWait" /\ q = "mutator" /\ activeThreads = 0
           \/ pc[Main] = "loanWait" /\ q = "endCopy"
    PROVE  IInv'
  <1> USE ThreadFacts, WorkerAssumption DEF IInv
  <1>0. UNCHANGED <<asleep, phase, shouldWait, activeThreads, shouldExit, activeMarkers,
                    sharedStack, stack, localRoots, marked, loaned>>
    OBVIOUS
  <1>1. /\ pc' \in [Thread -> Place] /\ pc'[Main] = q /\ q \in Place
        /\ \A u \in Thread : u # Main => pc'[u] = pc[u]
    BY DEF PhaseTypes, Place
  <1>2. q # "endCopy" => \A t \in Worker : pc[t] = "nextPhaseWait"
    BY NoneActive
  <1>4. Counts' /\ activeThreads' \in Nat /\ activeMarkers' \in Nat
    <2>1. activeThreads' = activeThreads + One(Main # Main /\ q # "nextPhaseWait")
                               - One(Main # Main /\ pc[Main] # "nextPhaseWait")
      BY <1>0 DEF One, PhaseTypes
    <2>2. activeMarkers' = activeMarkers + One(q \in MarkerPlace) - One(pc[Main] \in MarkerPlace)
      BY <1>0 DEF One, PhaseTypes, MarkerPlace, DrainPlace
    <2> QED
      BY <1>1, <2>1, <2>2, CountsAfter
  <1>5. PhaseTypes'
    BY <1>0, <1>1, <1>4 DEF PhaseTypes
  <1>6. Stage'
    BY <1>0, <1>1 DEF Stage, TracePlace, CopyPlace
  <1>7. Places'
    <2>1. CASE q = "endCopy"
      BY <1>1, <2>1 DEF Places, TracePlace, CopyPlace, DrainPlace, SharePlace
    <2>2. CASE q # "endCopy"
      BY <1>1, <1>2, <2>2 DEF Places, TracePlace, CopyPlace, DrainPlace, SharePlace
    <2> QED
      BY <2>1, <2>2
  <1>8. Sleepers'
    <2>1. \A u \in asleep' : u \in asleep /\ u \in Thread /\ u # Main /\ pc'[u] = pc[u]
      BY <1>0, <1>1 DEF PhaseTypes
    <2> QED
      BY <1>0, <2>1 DEF Sleepers
  <1>9. Work'
    BY <1>0, <1>1 DEF Work, TracePlace, DrainPlace
  <1> QED
    BY <1>4, <1>5, <1>6, <1>7, <1>8, <1>9

LEMMA ThreadStepKeeps ==
    ASSUME IInv, NEW t \in Thread, ThreadStep(t)
    PROVE  IInv'
  <1>1. CASE \E c \in Cell : VisitCell(t, c)
    BY <1>1, VisitCellStep
  <1>2. CASE Drained(t, "drain", "share")
    BY <1>2, DrainedStep
  <1>3. CASE Donate(t)
    BY <1>3, DonateStep
  <1>4. CASE EnterDrain(t)
    BY <1>4, EnterDrainStep
  <1>5. CASE Share(t)
    BY <1>5, ShareStep
  <1>6. CASE WakeMarker(t)
    BY <1>6, WakeMarkerStep
  <1>7. CASE /\ UNCHANGED markVars
             /\ GetNextBlocksToCopy(t) \/ SkipBlock(t) \/ \E c \in Cell : CopyItem(t, c)
    BY <1>7, CopyPhaseStep
  <1>8. CASE UNCHANGED markVars /\ DoneCopying(t, IF t = Main THEN "loanWait" ELSE "phaseWait")
    BY <1>8, DoneCopyingStep
  <1> QED
    BY <1>1, <1>2, <1>3, <1>4, <1>5, <1>6, <1>7, <1>8 DEF ThreadStep

LEMMA LentIsNat == ASSUME NEW ts, ts = Worker \/ ts = {Main}
                   PROVE  Cardinality(ts) \in Nat
  BY WorkerAssumption, FS_Singleton, FS_CardinalityType

LEMMA RootTypesKept ==
    ASSUME RootTypes, [Next]_vars
    PROVE  RootTypes'
  <1>1. CASE \E g \in DOMAIN roots : \E c \in roots[g] : DropRoot(g, c)
    <2>1. PICK g \in DOMAIN roots : \E c \in roots[g] : DropRoot(g, c)
      BY <1>1
    <2>2. PICK c \in roots[g] : DropRoot(g, c)
      BY <2>1
    <2>3. roots' = [roots EXCEPT ![g] = roots[g] \ {c}] /\ group' = group
      BY <2>2 DEF DropRoot
    <2>4. roots' \in Seq(SUBSET Cell) /\ Len(roots') = Len(roots)
      BY <2>3 DEF RootTypes
    <2> QED
      BY <2>3, <2>4 DEF RootTypes
  <1>2. CASE \E pins \in SUBSET toSpace : Collect(pins)
    BY <1>2 DEF Collect, RootTypes
  <1>3. CASE AppendRoots
    BY <1>3 DEF AppendRoots, RootTypes
  <1>4. CASE UNCHANGED <<roots, group>>
    BY <1>4 DEF RootTypes
  <1>5. CASE UNCHANGED heapVars
    BY <1>4, <1>5 DEF heapVars
  <1>6. CASE MainStep /\ ~AppendRoots
    <2>1. UNCHANGED heapVars
      BY <1>6 DEF MainStep, ThreadStep, RootsDrained, VisitWeak, FinishMarking, EndMark, Marked,
                  SkipCopying, StartCopyPhase, StartCopyingMain, AwaitLoans, SpaceDoneCopying,
                  EndCopy, Join
    <2> QED
      BY <1>5, <2>1
  <1>7. CASE Destroy
    BY <1>5, <1>7 DEF Destroy
  <1>8. CASE \E t \in Worker : WorkerStep(t)
    BY <1>5, <1>8 DEF WorkerStep, ThreadStep
  <1>9. CASE UNCHANGED vars
    BY <1>5, <1>9 DEF vars
  <1> QED
    BY <1>1, <1>2, <1>3, <1>6, <1>7, <1>8, <1>9 DEF Next, Mutator

LEMMA AppendKeeps ==
    ASSUME IInv, NEW cells \in SUBSET Cell, InternalAppend(Main, stack[Main], cells),
           UNCHANGED <<asleep, phaseVars, shouldExit, activeMarkers, sharedStack, localRoots, loaned>>,
           \/ /\ pc[Main] \in {"roots", "weak"}
              /\ \E q \in {"rootDrain", "rootDonate"} : pc' = [pc EXCEPT ![Main] = q]
           \/ pc[Main] = "weak" /\ stack'[Main] = {} /\ pc' = [pc EXCEPT ![Main] = "finish"]
    PROVE  IInv'
  <1>1. PICK q \in {"rootDrain", "rootDonate", "finish"} : pc' = [pc EXCEPT ![Main] = q]
    OBVIOUS
  <1>2. q = pc'[Main]
    BY <1>1, ThreadFacts DEF IInv, PhaseTypes
  <1>3. Within(Main, q) /\ q \in Place /\ (q = "finish" => stack'[Main] = {})
    BY <1>1, <1>2, ThreadFacts DEF Within, Place, IInv, PhaseTypes
  <1>4. /\ marked' \subseteq Cell /\ stack' \in [Thread -> SUBSET Cell]
        /\ \A u \in Thread : u # Main => stack'[u] = stack[u]
    BY DEF InternalAppend, IInv, PhaseTypes
  <1>5. localRoots[Main] = {}
    BY ThreadFacts DEF IInv, Work, DrainPlace
  <1>6. /\ UNCHANGED <<asleep, phaseVars, shouldExit, activeMarkers, sharedStack>>
        /\ loaned' \in Int /\ loaned' >= loaned /\ Main \in Thread /\ DOMAIN localRoots' = Thread
        /\ \A u \in Thread : localRoots'[u] = localRoots[u]
    BY ThreadFacts DEF IInv, PhaseTypes
  <1>7. stack'[Main] # {} \/ localRoots'[Main] # {} => q \in DrainPlace \cup {"rootDrain", "rootDonate"}
    BY <1>3, <1>5, <1>6
  <1>8. \A u \in Thread : u # Main => stack'[u] = stack[u] /\ localRoots'[u] = localRoots[u]
    BY <1>4, <1>6
  <1> QED
    BY <1>1, <1>3, <1>4, <1>6, <1>7, <1>8, WithinKeeps

LEMMA MainStepKeeps ==
    ASSUME IInv, RootTypes, MainStep
    PROVE  IInv'
  <1>0. Main \in Thread /\ loaned \in Int /\ loaned >= loaned
    BY ThreadFacts DEF IInv, PhaseTypes
  <1>1. CASE ThreadStep(Main)
    BY <1>0, <1>1, ThreadStepKeeps
  <1>2. CASE AppendRoots \/ VisitWeak
    <2>1. CASE AppendRoots
      <3>1. roots[group + 1] \in SUBSET Cell
        BY <2>1 DEF AppendRoots, RootTypes
      <3>2. \E q \in {"rootDrain", "rootDonate"} : pc' = [pc EXCEPT ![Main] = q]
        BY <2>1, AfterVisitsIs DEF AppendRoots
      <3> QED
        BY <2>1, <3>1, <3>2, AppendKeeps DEF AppendRoots
    <2>2. CASE VisitWeak
      <3> DEFINE cells == WeaklyHeld(marked, opaqueRoots)
      <3>1. cells \in SUBSET Cell
        BY HeapAssumption DEF WeaklyHeld
      <3>2. InternalAppend(Main, stack[Main], cells)
        BY <2>2 DEF VisitWeak
      <3> HIDE DEF cells
      <3>3. \/ \E q \in {"rootDrain", "rootDonate"} : pc' = [pc EXCEPT ![Main] = q]
            \/ stack'[Main] = {} /\ pc' = [pc EXCEPT ![Main] = "finish"]
        BY <2>2, AfterVisitsIs DEF VisitWeak, GoTo
      <3> QED
        BY <2>2, <3>1, <3>2, <3>3, AppendKeeps DEF VisitWeak
    <2> QED
      BY <1>2, <2>1, <2>2
  <1>3. CASE RootsDrained
    BY <1>0, <1>3, DrainedStep DEF RootsDrained
  <1>4. CASE FinishMarking
    BY <1>4, FinishMarkingStep
  <1>5. CASE EndMark \/ EndCopy
    BY <1>0, <1>5, PhaseKeeps DEF EndMark, EndCopy, EndCurrentPhase, GoTo, markVars, IInv, PhaseTypes
  <1>6. CASE Marked
    BY <1>6, MainGoesOn DEF Marked, IdleThreads, GoTo
  <1>7. CASE SkipCopying \/ StartCopyingMain \/ Join
    <2>1. CASE SkipCopying
      BY <1>0, <2>1, CopyingKeeps DEF SkipCopying, GoTo, Within, Place, DrainPlace
    <2>2. CASE StartCopyingMain
      <3>1. loaned' = loaned + Cardinality({Main})
        BY <2>2 DEF StartCopyingMain, StartCopying
      <3>2. loaned' \in Int /\ loaned' >= loaned
        BY <1>0, <3>1, LentIsNat
      <3> QED
        BY <1>0, <2>2, <3>2, CopyingKeeps DEF StartCopyingMain, GoTo, Within, Place, DrainPlace
    <2>3. CASE Join
      BY <1>0, <2>3, CopyingKeeps DEF Join, GoTo, Within, Place, DrainPlace
    <2> QED
      BY <1>7, <2>1, <2>2, <2>3
  <1>8. CASE StartCopyPhase
    <2>1. loaned' = loaned + Cardinality(Worker)
      BY <1>8 DEF StartCopyPhase, StartCopying
    <2>2. loaned' \in Int
      BY <1>0, <2>1, LentIsNat
    <2> QED
      BY <1>8, <2>2, PhaseKeeps DEF StartCopyPhase, StartNextPhase, GoTo, markVars, IInv, PhaseTypes
  <1>9. CASE AwaitLoans
    BY <1>9, MainSleeps DEF AwaitLoans
  <1>10. CASE SpaceDoneCopying
    BY <1>10, MainGoesOn DEF SpaceDoneCopying, GoTo, markVars
  <1>11. CASE UNCHANGED <<markVars, copiedSpaceVars>> /\ \E p \in ActivityWait : AwaitIdleThreads(p)
    BY <1>11, MainSleeps DEF AwaitIdleThreads
  <1>12. CASE /\ UNCHANGED <<markVars, copiedSpaceVars>>
              /\ IdleThreads("startWait", "mutator") \/ IdleThreads("copyWait", "mutator")
    BY <1>12, MainGoesOn DEF IdleThreads, GoTo, markVars
  <1> QED
    BY <1>1, <1>2, <1>3, <1>4, <1>5, <1>6, <1>7, <1>8, <1>9, <1>10, <1>11, <1>12 DEF MainStep

LEMMA MutatorKeeps ==
    ASSUME IInv, Mutator
    PROVE  IInv'
  <1>1. CASE \E g \in DOMAIN roots : \E c \in roots[g] : DropRoot(g, c)
    <2>1. UNCHANGED <<sharedDataVars, markVars, loaned>>
      BY <1>1 DEF DropRoot
    <2> QED
      BY <2>1 DEF sharedDataVars, markVars, IInv, PhaseTypes, Stage, Places, Counts, Sleepers, Work
  <1>2. CASE \E pins \in SUBSET toSpace : Collect(pins)
    <2>1. PICK pins \in SUBSET toSpace : Collect(pins)
      BY <1>2
    <2> QED
      BY <2>1, PhaseKeeps DEF Collect, StartNextPhase, GoTo, IInv, PhaseTypes
  <1>3. CASE Destroy
    BY <1>3, PhaseKeeps DEF Destroy, GoTo, IInv, PhaseTypes
  <1> QED
    BY <1>1, <1>2, <1>3 DEF Mutator

LEMMA InitIInv == Init => IInv /\ RootTypes
  <1> SUFFICES ASSUME Init PROVE IInv /\ RootTypes
    OBVIOUS
  <1> USE ThreadFacts, WorkerAssumption
      DEF Init, SharedDataInit, SlotVisitorInit, CopiedSpaceInit, CopyVisitorInit
  <1>1. {t \in Worker : pc[t] \in Place \ {"nextPhaseWait"}} = Worker
    BY DEF Place, Thread
  <1>2. {t \in Thread : pc[t] \in DrainPlace \cup {"share"}} = {}
    BY DEF DrainPlace, Thread
  <1>3. Counts /\ activeThreads \in Nat
    BY <1>1, <1>2, FS_EmptySet, FS_CardinalityType DEF Counts, NumberAt
  <1>4. PhaseTypes
    <2>1. "startWait" \in Place /\ "phaseWait" \in Place
      BY DEF Place, ActivityWait
    <2>2. pc \in [Thread -> Place]
      BY <2>1
    <2>3. stack \in [Thread -> SUBSET Cell] /\ DOMAIN localRoots = Thread
      OBVIOUS
    <2>4. asleep = {} /\ phase = "NoPhase" /\ sharedStack = {} /\ marked = {}
      OBVIOUS
    <2>5. activeMarkers \in Nat /\ loaned \in Int
      OBVIOUS
    <2>6. shouldWait \in BOOLEAN /\ shouldExit \in BOOLEAN
      BY Zenon
    <2> QED
      BY <1>3, <2>2, <2>3, <2>4, <2>5, <2>6, Zenon DEF PhaseTypes, Phase
  <1>5. Stage /\ Places /\ Sleepers /\ Work
    BY DEF Stage, Places, Sleepers, Work, TracePlace, CopyPlace, SharePlace, DrainPlace
  <1>6. RootTypes
    BY HeapAssumption DEF RootTypes
  <1> QED
    BY <1>3, <1>4, <1>5, <1>6 DEF IInv

LEMMA NextIInv == IInv /\ RootTypes /\ [Next]_vars => IInv' /\ RootTypes'
  <1> SUFFICES ASSUME IInv, RootTypes, [Next]_vars PROVE IInv'
    BY RootTypesKept
  <1>1. CASE MainStep
    BY <1>1, MainStepKeeps
  <1>2. CASE Mutator
    BY <1>2, MutatorKeeps
  <1>3. CASE \E t \in Worker : WorkerStep(t)
    <2>1. PICK t \in Worker : WorkerStep(t)
      BY <1>3
    <2>2. CASE ThreadStep(t)
      BY <2>2, ThreadStepKeeps, ThreadFacts
    <2>3. CASE UNCHANGED <<markVars, copiedSpaceVars>> /\ WaitForNextPhase(t)
      BY <2>3, WaitForNextPhaseStep
    <2>4. CASE UNCHANGED <<markVars, copiedSpaceVars>> /\ NextPhase(t)
      BY <2>4, NextPhaseStep
    <2> QED
      BY <2>1, <2>2, <2>3, <2>4 DEF WorkerStep
  <1>4. CASE UNCHANGED vars
    BY <1>4 DEF vars, sharedDataVars, markVars, IInv, PhaseTypes, Stage, Places, Counts, Sleepers, Work
  <1> QED
    BY <1>1, <1>2, <1>3, <1>4 DEF Next

LEMMA InvariantHolds == Spec => [](IInv /\ RootTypes)
  BY InitIInv, NextIInv, PTL DEF Spec

(* No thread of the collector sleeps through what it waits for: the main   *)
(* thread in endCurrentPhase, doneCopying and drainFromShared, the GC      *)
(* threads in waitForNextPhase and drainFromShared.                        *)
THEOREM NoWakeupIsLost == Spec => []NoLostWakeup
  <1>1. IInv => NoLostWakeup
    <2> SUFFICES ASSUME IInv, NEW t \in asleep
                 PROVE  CASE pc[t] \in ActivityWait -> activeThreads > 0
                          [] pc[t] = "loanWait" -> loaned > 0
                          [] pc[t] = "phaseWait" -> shouldWait
                          [] pc[t] = "nextPhaseWait" -> phase = "NoPhase"
                          [] pc[t] = "markingWait" -> /\ sharedStack = {}
                                                      /\ t = Main => activeMarkers > 0
                                                      /\ t # Main => ~shouldExit
      BY DEF NoLostWakeup
    <2> QED
      BY DEF IInv, Sleepers, WaitPlace, ActivityWait
  <1> QED
    BY <1>1, InvariantHolds, PTL

-----------------------------------------------------------------------------
(* What is marked.  MInv says that only live cells are marked, and that a  *)
(* marked cell waits on a stack or has been visited.                       *)
Tracing == Marking \/ pc[Main] = "endMark"

Stacked(c) == c \in sharedStack \/ \E t \in Thread : c \in stack[t]

Known(r) == r \in opaqueRoots \/ \E t \in Thread : r \in localRoots[t]

(* Visited cells: their children are marked, their opaque roots known.     *)
Visited(c) == Children[c] \subseteq marked /\ \A r \in OpaqueRoot[c] : Known(r)

(* Where an opaque root can come from.                                     *)
AddedRoot == UNION {OpaqueRoot[c] : c \in marked}

MInv ==
    /\ \A c \in Cell : Stacked(c) => c \in marked
    /\ ~Tracing /\ pc[Main] # "markWait" => opaqueRoots = {}
    /\ Tracing =>
          /\ marked \subseteq LiveFrom(roots)
          /\ opaqueRoots \subseteq AddedRoot /\ \A t \in Thread : localRoots[t] \subseteq AddedRoot
          /\ \A c \in marked : Stacked(c) \/ Visited(c)
          /\ \A g \in 1..group : roots[g] \subseteq marked
    /\ pc[Main] \in SharePlace \cup {"weak", "finish", "endMark"} => group = Len(roots)
    /\ pc[Main] \in {"finish", "endMark"} => WeaklyHeld(marked, opaqueRoots) \subseteq marked

-----------------------------------------------------------------------------
(* The live cells.                                                         *)
LEMMA LiveIsClosed ==
    ASSUME NEW groups
    PROVE  /\ LiveFrom(groups) \subseteq Cell
           /\ \A c \in LiveFrom(groups) : Children[c] \subseteq LiveFrom(groups)
           /\ \A m \in SUBSET LiveFrom(groups) :
                 WeaklyHeld(m, UNION {OpaqueRoot[c] : c \in m}) \subseteq LiveFrom(groups)
           /\ \A g \in DOMAIN groups : groups[g] \subseteq Cell => groups[g] \subseteq LiveFrom(groups)
  <1> DEFINE rs == UNION {groups[g] : g \in DOMAIN groups}
             closed == {s \in SUBSET Cell : rs \subseteq s /\ Closed(s)}
  <1>1. LiveFrom(groups) = {c \in Cell : \A s \in closed : c \in s}
    BY DEF LiveFrom
  <1> HIDE DEF closed
  <1>2. \A s \in closed : LiveFrom(groups) \subseteq s
    BY <1>1
  <1>3. ASSUME NEW c \in LiveFrom(groups) PROVE Children[c] \subseteq LiveFrom(groups)
    <2>1. Children[c] \subseteq Cell
      BY <1>1, CellAssumption
    <2>2. \A s \in closed : Children[c] \subseteq s
      BY <1>2 DEF closed, Closed
    <2> QED
      BY <1>1, <2>1, <2>2
  <1>4. ASSUME NEW m \in SUBSET LiveFrom(groups)
        PROVE  WeaklyHeld(m, UNION {OpaqueRoot[c] : c \in m}) \subseteq LiveFrom(groups)
    <2>1. WeaklyHeld(m, UNION {OpaqueRoot[c] : c \in m}) \subseteq Cell
      BY HeapAssumption DEF WeaklyHeld
    <2>2. ASSUME NEW s \in closed
          PROVE  WeaklyHeld(m, UNION {OpaqueRoot[c] : c \in m}) \subseteq s
      <3>1. m \subseteq s
        BY <1>2
      <3>2. UNION {OpaqueRoot[c] : c \in m} \subseteq UNION {OpaqueRoot[c] : c \in s}
        BY <3>1
      <3>3. WeaklyHeld(m, UNION {OpaqueRoot[c] : c \in m})
               \subseteq WeaklyHeld(s, UNION {OpaqueRoot[c] : c \in s})
        BY <3>1, <3>2 DEF WeaklyHeld
      <3> QED
        BY <3>3 DEF closed, Closed
    <2> QED
      BY <1>1, <2>1, <2>2
  <1>5. ASSUME NEW g \in DOMAIN groups, groups[g] \subseteq Cell
        PROVE  groups[g] \subseteq LiveFrom(groups)
    <2>1. \A s \in closed : groups[g] \subseteq s
      BY DEF closed
    <2> QED
      BY <1>1, <1>5, <2>1
  <1> QED
    BY <1>1, <1>3, <1>4, <1>5

(* A set that holds the roots and is closed holds the live cells.          *)
LEMMA LiveIsLeast ==
    ASSUME NEW groups, NEW s \in SUBSET Cell, Closed(s), \A g \in DOMAIN groups : groups[g] \subseteq s
    PROVE  LiveFrom(groups) \subseteq s
  <1>1. UNION {groups[g] : g \in DOMAIN groups} \subseteq s
    OBVIOUS
  <1> QED
    BY <1>1 DEF LiveFrom

(* With fewer roots fewer cells are live.                                  *)
LEMMA LiveShrinks ==
    ASSUME NEW less, NEW more, DOMAIN less = DOMAIN more,
           \A g \in DOMAIN more : less[g] \subseteq more[g]
    PROVE  LiveFrom(less) \subseteq LiveFrom(more)
  <1>1. UNION {less[g] : g \in DOMAIN less} \subseteq UNION {more[g] : g \in DOMAIN more}
    OBVIOUS
  <1> QED
    BY <1>1 DEF LiveFrom

-----------------------------------------------------------------------------
(* The steps that leave stacks, mark bits and roots alone.                 *)
Quiet ==
    /\ UNCHANGED <<marked, sharedStack, stack, localRoots, opaqueRoots, roots, group>>
    /\ \/ pc'[Main] = pc[Main]
       \/ pc[Main] \in SharePlace /\ pc'[Main] \in SharePlace \cup {"weak"}
       \/ pc[Main] = "finish" /\ pc'[Main] = "endMark"
       \/ pc[Main] = "endMark" /\ pc'[Main] = "markWait"
       \/ \A p \in {pc[Main], pc'[Main]} :
             p \notin TracePlace \cup {"weak", "finish", "endMark", "markWait"}

LEMMA QuietKeeps ==
    ASSUME IInv, MInv, Quiet
    PROVE  MInv'
  <1>1. /\ UNCHANGED <<marked, sharedStack, stack, localRoots, opaqueRoots, roots, group>>
        /\ Tracing' => Tracing
        /\ ~Tracing' /\ pc'[Main] # "markWait" => ~Tracing /\ pc[Main] # "markWait"
        /\ pc'[Main] \in SharePlace \cup {"weak", "finish", "endMark"} =>
              pc[Main] \in SharePlace \cup {"weak", "finish", "endMark"}
        /\ pc'[Main] \in {"finish", "endMark"} => pc[Main] \in {"finish", "endMark"}
    BY DEF Quiet, Tracing, Marking, SharePlace, DrainPlace, TracePlace
  <1>2. \A c : Stacked(c)' = Stacked(c)
    BY <1>1 DEF Stacked
  <1>3. \A c : Visited(c)' = Visited(c)
    BY <1>1 DEF Visited, Known
  <1>4. AddedRoot' = AddedRoot
    BY <1>1 DEF AddedRoot
  <1>5. LiveFrom(roots)' = LiveFrom(roots) /\ WeaklyHeld(marked, opaqueRoots)' = WeaklyHeld(marked, opaqueRoots)
    BY <1>1
  <1> QED
    BY <1>1, <1>2, <1>3, <1>4, <1>5 DEF MInv

(* One thread moves cells between its own stack and the shared one.        *)
LEMMA TransferKeeps ==
    ASSUME IInv, MInv, NEW t \in Thread, NEW d \in SUBSET Cell,
           UNCHANGED <<marked, localRoots, opaqueRoots, roots, group>>,
           \/ /\ d \subseteq stack[t] /\ sharedStack' = sharedStack \cup d
              /\ stack' = [stack EXCEPT ![t] = @ \ d]
           \/ /\ d \subseteq sharedStack /\ sharedStack' = sharedStack \ d
              /\ stack' = [stack EXCEPT ![t] = @ \cup d],
           \/ pc'[Main] = pc[Main]
           \/ pc[Main] \in SharePlace /\ pc'[Main] \in SharePlace
           \/ pc[Main] = "rootDonate" /\ pc'[Main] = "rootDrain"
    PROVE  MInv'
  <1>1. \A c \in Cell : Stacked(c)' <=> Stacked(c)
    BY DEF Stacked, IInv, PhaseTypes
  <1>2. \A c : Visited(c)' = Visited(c)
    BY DEF Visited, Known
  <1>3. AddedRoot' = AddedRoot
    BY DEF AddedRoot
  <1>4. LiveFrom(roots)' = LiveFrom(roots) /\ WeaklyHeld(marked, opaqueRoots)' = WeaklyHeld(marked, opaqueRoots)
    OBVIOUS
  <1>5. /\ UNCHANGED <<marked, localRoots, opaqueRoots, roots, group>>
        /\ Tracing' <=> Tracing
        /\ pc'[Main] = "markWait" <=> pc[Main] = "markWait"
        /\ pc'[Main] \in SharePlace \cup {"weak", "finish", "endMark"} =>
              pc[Main] \in SharePlace \cup {"weak", "finish", "endMark"}
        /\ pc'[Main] \in {"finish", "endMark"} => pc[Main] \in {"finish", "endMark"}
    BY DEF Tracing, Marking, SharePlace, DrainPlace
  <1>6. marked \subseteq Cell
    BY DEF IInv, PhaseTypes
  <1> QED
    BY <1>1, <1>2, <1>3, <1>4, <1>5, <1>6 DEF MInv

(* The end of drain: a thread's opaque roots become shared.                *)
LEMMA MergeKeeps ==
    ASSUME IInv, MInv, NEW t \in Thread, MergeOpaqueRoots(t),
           UNCHANGED <<marked, sharedStack, stack, roots, group>>,
           \/ pc'[Main] = pc[Main] /\ pc[Main] \notin {"finish", "endMark"}
           \/ pc[Main] \in SharePlace /\ pc'[Main] \in SharePlace
           \/ pc[Main] = "rootDrain" /\ pc'[Main] = "roots"
           \/ pc[Main] = "rootDrain" /\ pc'[Main] = "enter" /\ group = Len(roots),
           Tracing
    PROVE  MInv'
  <1>1. \A c \in Cell : Stacked(c)' <=> Stacked(c)
    BY DEF Stacked
  <1>2. \A r : Known(r)' <=> Known(r)
    BY DEF Known, MergeOpaqueRoots, IInv, PhaseTypes
  <1>3. \A c : Visited(c)' <=> Visited(c)
    BY <1>2 DEF Visited
  <1>4. AddedRoot' = AddedRoot
    BY DEF AddedRoot
  <1>5. opaqueRoots' \subseteq AddedRoot /\ \A u \in Thread : localRoots'[u] \subseteq AddedRoot
    BY DEF MInv, MergeOpaqueRoots, IInv, PhaseTypes
  <1>6. /\ UNCHANGED <<marked, roots, group>>
        /\ Tracing' /\ Tracing
        /\ pc'[Main] \in SharePlace \cup {"weak", "finish", "endMark"} =>
              pc[Main] \in SharePlace \cup {"weak", "finish", "endMark"} \/ group = Len(roots)
        /\ pc'[Main] \notin {"finish", "endMark"}
    BY DEF Tracing, Marking, SharePlace, DrainPlace
  <1>7. LiveFrom(roots)' = LiveFrom(roots) /\ marked \subseteq Cell
    BY <1>6 DEF IInv, PhaseTypes
  <1> QED
    BY <1>1, <1>3, <1>4, <1>5, <1>6, <1>7 DEF MInv

(* A thread that drains does so while the main thread traces.              *)
LEMMA DrainsInTrace ==
    ASSUME IInv, NEW t \in Thread, pc[t] \in DrainPlace \cup {"rootDrain", "rootDonate"}
    PROVE  /\ pc[Main] \in TracePlace /\ Tracing
           /\ t = Main \/ pc[t] \in DrainPlace
  <1>1. CASE t = Main
    BY <1>1 DEF TracePlace, DrainPlace, Tracing, Marking
  <1>2. CASE t # Main
    <2>1. t \in Worker
      BY <1>2 DEF Thread
    <2>2. pc[t] \in DrainPlace
      BY <2>1 DEF IInv, Places, SharePlace, CopyPlace, DrainPlace
    <2>3. pc[Main] \in TracePlace
      BY <2>1, <2>2 DEF IInv, Work
    <2> QED
      BY <2>2, <2>3 DEF TracePlace, Tracing, Marking
  <1> QED
    BY <1>1, <1>2

LEMMA AddKnowsRoot ==
    ASSUME IInv, NEW t \in Thread, NEW new, AddOpaqueRoot(t, new)
    PROVE  /\ \A r : Known(r)' <=> Known(r) \/ r \in new
           /\ opaqueRoots' \subseteq opaqueRoots \cup localRoots[t]
           /\ \A u \in Thread : localRoots'[u] \subseteq localRoots[u] \cup new
  <1>0. DOMAIN localRoots = Thread
    BY DEF IInv, PhaseTypes
  <1>1. CASE new # {} /\ Cardinality(localRoots[t]) >= MergeThreshold
    <2>1. opaqueRoots' = opaqueRoots \cup localRoots[t] /\ localRoots' = [localRoots EXCEPT ![t] = new]
      BY <1>1 DEF AddOpaqueRoot
    <2> QED
      BY <1>0, <2>1 DEF Known
  <1>2. CASE ~(new # {} /\ Cardinality(localRoots[t]) >= MergeThreshold)
    <2>1. opaqueRoots' = opaqueRoots /\ localRoots' = [localRoots EXCEPT ![t] = localRoots[t] \cup new]
      BY <1>2 DEF AddOpaqueRoot
    <2> QED
      BY <1>0, <2>1 DEF Known
  <1> QED
    BY <1>1, <1>2

LEMMA VisitKeeps ==
    ASSUME IInv, MInv, NEW t \in Thread, NEW c \in Cell, VisitCell(t, c), UNCHANGED heapVars
    PROVE  MInv' /\ Tracing /\ Tracing' /\ pc[Main] # "endMark" /\ pc'[Main] # "endMark"
  <1>1. /\ pc[Main] \in TracePlace /\ Tracing /\ c \in stack[t] /\ c \in marked
        /\ pc[t] \in {"drain", "rootDrain"}
    BY DrainsInTrace DEF VisitCell, DrainPlace, MInv, Stacked
  <1>2. \/ pc'[Main] = pc[Main]
        \/ pc[Main] = "drain" /\ pc'[Main] \in {"drain", "donate"}
        \/ pc[Main] = "rootDrain" /\ pc'[Main] \in {"rootDrain", "rootDonate"}
    <2>1. PICK q \in {"drain", "donate", "rootDrain", "rootDonate"} :
              /\ pc' = [pc EXCEPT ![t] = q]
              /\ pc[t] = "drain" => q \in {"drain", "donate"}
              /\ pc[t] = "rootDrain" => q \in {"rootDrain", "rootDonate"}
      BY AfterVisitsIs DEF VisitCell
    <2> QED
      BY <1>1, <2>1, ThreadFacts DEF IInv, PhaseTypes
  <1>3. /\ marked' = marked \cup Children[c] /\ sharedStack' = sharedStack
        /\ stack' = [stack EXCEPT ![t] = (stack[t] \ {c}) \cup (Children[c] \ marked)]
        /\ UNCHANGED <<roots, group>> /\ AddOpaqueRoot(t, OpaqueRoot[c])
    BY DEF VisitCell, InternalAppend, heapVars
  <1>4. /\ stack \in [Thread -> SUBSET Cell] /\ marked \subseteq Cell /\ Children[c] \subseteq Cell
        /\ \A x \in Cell : Stacked(x)' <=>
              \/ x \in Children[c] \ marked
              \/ x \in sharedStack \/ x \in stack[t] \ {c}
              \/ \E u \in Thread : u # t /\ x \in stack[u]
    BY <1>3, CellAssumption DEF Stacked, IInv, PhaseTypes
  <1>5. \A r : Known(r)' <=> Known(r) \/ r \in OpaqueRoot[c]
    BY <1>3, AddKnowsRoot
  <1>6. AddedRoot \subseteq AddedRoot' /\ OpaqueRoot[c] \subseteq AddedRoot'
    BY <1>1, <1>3 DEF AddedRoot
  <1>7. \A x \in Cell : Stacked(x)' => x \in marked'
    BY <1>3, <1>4 DEF MInv, Stacked
  <1>8. marked' \subseteq LiveFrom(roots')
    BY <1>1, <1>3, LiveIsClosed DEF MInv
  <1>9. opaqueRoots' \subseteq AddedRoot' /\ \A u \in Thread : localRoots'[u] \subseteq AddedRoot'
    BY <1>1, <1>3, <1>6, AddKnowsRoot DEF MInv
  <1>10. \A x \in marked' : Stacked(x)' \/ Visited(x)'
    <2> SUFFICES ASSUME NEW x \in marked', ~Stacked(x)'
                 PROVE  Visited(x)'
      OBVIOUS
    <2>1. x \in Cell /\ x \in marked
      BY <1>3, <1>4
    <2>2. CASE x = c
      BY <1>3, <1>5, <2>2 DEF Visited
    <2>3. CASE x # c
      <3>1. ~Stacked(x)
        BY <1>4, <2>1, <2>3 DEF Stacked
      <3>2. Visited(x)
        BY <1>1, <2>1, <3>1 DEF MInv
      <3> QED
        BY <1>3, <1>5, <3>2 DEF Visited
    <2> QED
      BY <2>2, <2>3
  <1>11. \A g \in 1..group' : roots'[g] \subseteq marked'
    BY <1>1, <1>3 DEF MInv
  <1>12. /\ Tracing' /\ pc[Main] # "endMark" /\ pc'[Main] \notin {"finish", "endMark"}
         /\ pc'[Main] \in SharePlace \cup {"weak"} => pc[Main] \in SharePlace
    BY <1>1, <1>2 DEF Tracing, Marking, TracePlace, SharePlace, DrainPlace
  <1>13. pc'[Main] \in SharePlace \cup {"weak", "finish", "endMark"} => group' = Len(roots')
    BY <1>3, <1>12 DEF MInv
  <1> QED
    BY <1>1, <1>7, <1>8, <1>9, <1>10, <1>11, <1>12, <1>13 DEF MInv

(* The main thread appends live cells: roots, or weakly held cells.        *)
LEMMA AppendMarks ==
    ASSUME IInv, MInv, Tracing, pc[Main] \in {"roots", "weak"},
           NEW cells \in SUBSET LiveFrom(roots), InternalAppend(Main, stack[Main], cells),
           UNCHANGED <<sharedStack, localRoots, opaqueRoots, roots>>,
           pc'[Main] \in {"rootDrain", "rootDonate", "finish"}, group' \in Nat,
           \A g \in 1..group' : g \in 1..group \/ roots[g] \subseteq cells,
           pc'[Main] = "finish" => /\ group' = Len(roots)
                                   /\ WeaklyHeld(marked', opaqueRoots) \subseteq marked'
    PROVE  MInv' /\ Tracing'
  <1>1. /\ marked' = marked \cup cells
        /\ stack' = [stack EXCEPT ![Main] = stack[Main] \cup (cells \ marked)]
        /\ stack \in [Thread -> SUBSET Cell] /\ marked \subseteq Cell /\ cells \subseteq Cell
        /\ UNCHANGED <<sharedStack, localRoots, opaqueRoots, roots>> /\ Main \in Thread
    BY ThreadFacts, LiveIsClosed DEF InternalAppend, IInv, PhaseTypes
  <1>2. \A x \in Cell : Stacked(x)' <=> Stacked(x) \/ x \in cells \ marked
    BY <1>1 DEF Stacked
  <1>3. \A r : Known(r)' = Known(r)
    BY DEF Known
  <1>4. \A x : Visited(x) => Visited(x)'
    BY <1>1, <1>3 DEF Visited
  <1>5. AddedRoot \subseteq AddedRoot'
    BY <1>1 DEF AddedRoot
  <1>6. Tracing' /\ pc'[Main] \notin SharePlace \cup {"weak", "endMark"}
    BY DEF Tracing, Marking, SharePlace, DrainPlace
  <1>7. \A x \in Cell : Stacked(x)' => x \in marked'
    BY <1>1, <1>2 DEF MInv
  <1>8. marked' \subseteq LiveFrom(roots')
    BY <1>1 DEF MInv
  <1>9. opaqueRoots' \subseteq AddedRoot' /\ \A u \in Thread : localRoots'[u] \subseteq AddedRoot'
    BY <1>1, <1>5 DEF MInv
  <1>10. \A x \in marked' : Stacked(x)' \/ Visited(x)'
    BY <1>1, <1>2, <1>4 DEF MInv
  <1>11. \A g \in 1..group' : roots'[g] \subseteq marked'
    BY <1>1 DEF MInv
  <1> QED
    BY <1>1, <1>6, <1>7, <1>8, <1>9, <1>10, <1>11 DEF MInv

-----------------------------------------------------------------------------
(* What a step means for Tracing.tla.                                      *)
Stutters == (Marking' <=> Marking) /\ UNCHANGED <<marked, roots>>
Grows == Marking /\ Marking' /\ marked \subseteq marked' /\ UNCHANGED roots
Begins == ~Marking /\ Marking' /\ marked' = {} /\ UNCHANGED roots
Mutates == ~Marking /\ ~Marking' /\ marked' = marked /\ LiveFrom(roots)' \subseteq LiveFrom(roots)
Finishes == pc[Main] = "finish" /\ ~Marking' /\ UNCHANGED <<marked, roots>>

AbstractStep == Stutters \/ Grows \/ Begins \/ Mutates \/ Finishes

LEMMA QuietIs ==
    ASSUME IInv, MInv, Quiet
    PROVE  MInv' /\ AbstractStep
  <1>1. MInv'
    BY QuietKeeps
  <1>2. Stutters \/ Finishes
    BY DEF Quiet, Stutters, Finishes, Marking, SharePlace, DrainPlace, TracePlace
  <1> QED
    BY <1>1, <1>2 DEF AbstractStep

(* The step of thread t moves the main thread only if t is it.             *)
LEMMA OtherThread ==
    ASSUME IInv, NEW t \in Thread, NEW q, pc' = [pc EXCEPT ![t] = q]
    PROVE  pc'[Main] = IF t = Main THEN q ELSE pc[Main]
  BY ThreadFacts DEF IInv, PhaseTypes

(* What comes of looking at the shared mark stack.                         *)
Looked(t) ==
    \/ /\ pc' = [pc EXCEPT ![t] = "drain"]
       /\ \E d \in SUBSET sharedStack : /\ sharedStack' = sharedStack \ d
                                        /\ stack' = [stack EXCEPT ![t] = @ \cup d]
    \/ /\ \/ pc' = [pc EXCEPT ![t] = "markingWait"]
          \/ t # Main /\ pc' = [pc EXCEPT ![t] = "phaseWait"]
          \/ t = Main /\ pc' = [pc EXCEPT ![t] = "weak"]
       /\ UNCHANGED <<sharedStack, stack>>

LEMMA MasterLooked == ASSUME NEW n, MasterWait(n) PROVE Looked(Main)
  BY DEF MasterWait, Steal, LeaveDrain, SleepForMarking, GoTo, Looked, stackVars

LEMMA SlaveLooked ==
    ASSUME NEW t \in Thread, t # Main, NEW n, NEW sleepers, SlaveWait(t, n, sleepers)
    PROVE  Looked(t)
  BY DEF SlaveWait, Steal, LeaveDrain, SleepForMarking, GoTo, Looked, stackVars

LEMMA LookIs ==
    ASSUME IInv, MInv, NEW t \in Thread, Share(t) \/ WakeMarker(t), UNCHANGED heapVars
    PROVE  MInv' /\ AbstractStep
  <1>1. /\ pc[t] \in {"share", "markingWait"}
        /\ UNCHANGED <<opaqueRoots, localRoots, marked, roots, group>>
    BY DEF Share, WakeMarker, heapVars, opaqueVars
  <1>2. Looked(t)
    <2>1. CASE t = Main
      BY <2>1, MasterLooked DEF Share, WakeMarker
    <2>2. CASE t # Main
      BY <2>2, SlaveLooked DEF Share, WakeMarker
    <2> QED
      BY <2>1, <2>2
  <1>3. CASE pc' = [pc EXCEPT ![t] = "drain"]
             /\ \E d \in SUBSET sharedStack : /\ sharedStack' = sharedStack \ d
                                              /\ stack' = [stack EXCEPT ![t] = @ \cup d]
    <2>1. PICK d \in SUBSET sharedStack : /\ sharedStack' = sharedStack \ d
                                          /\ stack' = [stack EXCEPT ![t] = @ \cup d]
      BY <1>3
    <2>2. pc'[Main] = IF t = Main THEN "drain" ELSE pc[Main]
      BY <1>3, OtherThread
    <2>3. d \in SUBSET Cell
      BY DEF IInv, PhaseTypes
    <2>4. MInv'
      BY <1>1, <2>1, <2>2, <2>3, TransferKeeps DEF SharePlace, DrainPlace
    <2>5. Stutters
      BY <1>1, <2>2 DEF Stutters, Marking
    <2> QED
      BY <2>4, <2>5 DEF AbstractStep
  <1>4. ASSUME NEW q \in {"markingWait", "phaseWait", "weak"}, pc' = [pc EXCEPT ![t] = q],
               q = "phaseWait" => t # Main, UNCHANGED <<sharedStack, stack>>
        PROVE  MInv' /\ AbstractStep
    <2>1. pc'[Main] = IF t = Main THEN q ELSE pc[Main]
      BY <1>4, OtherThread
    <2> QED
      BY <1>1, <1>4, <2>1, QuietIs DEF Quiet, SharePlace
  <1> QED
    BY <1>2, <1>3, <1>4 DEF Looked

LEMMA DonateIs ==
    ASSUME IInv, MInv, NEW t \in Thread, Donate(t), UNCHANGED heapVars
    PROVE  MInv' /\ AbstractStep
  <1>1. PICK d \in SUBSET stack[t] : /\ sharedStack' = sharedStack \cup d
                                     /\ stack' = [stack EXCEPT ![t] = @ \ d]
    BY DEF Donate
  <1>2. /\ pc[t] \in {"donate", "rootDonate"}
        /\ UNCHANGED <<marked, localRoots, opaqueRoots, roots, group>>
    BY DEF Donate, heapVars, opaqueVars
  <1>3. ASSUME NEW q, pc' = [pc EXCEPT ![t] = q]
        PROVE  pc'[Main] = IF t = Main THEN q ELSE pc[Main]
    BY <1>3, OtherThread
  <1>4. \/ pc' = [pc EXCEPT ![t] = "drain"] /\ pc[t] = "donate"
        \/ pc' = [pc EXCEPT ![t] = "rootDrain"] /\ pc[t] = "rootDonate"
    BY <1>2 DEF Donate, GoTo
  <1>5. \/ pc'[Main] = pc[Main]
        \/ pc[Main] = "donate" /\ pc'[Main] = "drain"
        \/ pc[Main] = "rootDonate" /\ pc'[Main] = "rootDrain"
    BY <1>3, <1>4
  <1>6. d \in SUBSET Cell
    BY DEF IInv, PhaseTypes
  <1>7. MInv'
    BY <1>1, <1>2, <1>5, <1>6, TransferKeeps DEF SharePlace, DrainPlace
  <1>8. Stutters
    BY <1>2, <1>5 DEF Stutters, Marking
  <1> QED
    BY <1>7, <1>8 DEF AbstractStep

LEMMA DrainedIs ==
    ASSUME IInv, MInv, NEW t \in Thread, NEW from, NEW to, Drained(t, from, to), UNCHANGED heapVars,
           \/ from = "drain" /\ to = "share"
           \/ t = Main /\ from = "rootDrain" /\ to = "roots"
           \/ t = Main /\ from = "rootDrain" /\ to = "enter" /\ group = Len(roots)
    PROVE  MInv' /\ AbstractStep
  <1>1. pc[t] = from /\ pc[Main] \in TracePlace /\ Tracing
    BY DrainsInTrace DEF Drained, DrainPlace
  <1>2. pc' = [pc EXCEPT ![t] = to]
    BY DEF Drained, GoTo
  <1>3. pc'[Main] = IF t = Main THEN to ELSE pc[Main]
    BY <1>2, OtherThread
  <1>4. MergeOpaqueRoots(t) /\ UNCHANGED <<marked, sharedStack, stack, roots, group>>
    BY DEF Drained, heapVars, stackVars
  <1>5. MInv'
    BY <1>1, <1>3, <1>4, MergeKeeps DEF SharePlace, DrainPlace, TracePlace
  <1>6. Stutters
    BY <1>1, <1>3, <1>4 DEF Stutters, Marking, TracePlace
  <1> QED
    BY <1>5, <1>6 DEF AbstractStep

LEMMA VisitIs ==
    ASSUME IInv, MInv, NEW t \in Thread, NEW c \in Cell, VisitCell(t, c), UNCHANGED heapVars
    PROVE  MInv' /\ AbstractStep
  <1>1. MInv' /\ Tracing /\ Tracing' /\ pc[Main] # "endMark" /\ pc'[Main] # "endMark"
    BY VisitKeeps
  <1>2. marked \subseteq marked' /\ UNCHANGED roots
    BY DEF VisitCell, InternalAppend, heapVars
  <1>3. Grows
    BY <1>1, <1>2 DEF Grows, Tracing
  <1> QED
    BY <1>1, <1>3 DEF AbstractStep

(* Steps that move one thread and touch nothing that concerns marking.     *)
LEMMA MoveIs ==
    ASSUME IInv, MInv, NEW t \in Thread, NEW q, pc' = [pc EXCEPT ![t] = q],
           UNCHANGED <<stackVars, opaqueVars, marked, heapVars>>,
           \/ t # Main
           \/ q = pc[Main]
           \/ pc[Main] \in SharePlace /\ q \in SharePlace \cup {"weak"}
           \/ pc[Main] = "finish" /\ q = "endMark"
           \/ pc[Main] = "endMark" /\ q = "markWait"
           \/ \A p \in {pc[Main], q} :
                 p \notin TracePlace \cup {"weak", "finish", "endMark", "markWait"}
    PROVE  MInv' /\ AbstractStep
  <1>1. pc'[Main] = IF t = Main THEN q ELSE pc[Main]
    BY OtherThread
  <1>2. UNCHANGED <<marked, sharedStack, stack, localRoots, opaqueRoots, roots, group>>
    BY DEF stackVars, opaqueVars, heapVars
  <1> QED
    BY <1>1, <1>2, QuietIs DEF Quiet

LEMMA StayIs ==
    ASSUME IInv, MInv, pc' = pc, UNCHANGED <<stackVars, opaqueVars, marked, heapVars>>
    PROVE  MInv' /\ AbstractStep
  <1>1. UNCHANGED <<marked, sharedStack, stack, localRoots, opaqueRoots, roots, group>>
    BY DEF stackVars, opaqueVars, heapVars
  <1> QED
    BY <1>1, QuietIs DEF Quiet

LEMMA CopyStepIs ==
    ASSUME IInv, MInv, NEW t \in Thread, UNCHANGED <<markVars, heapVars>>,
           \/ GetNextBlocksToCopy(t) \/ SkipBlock(t) \/ \E c \in Cell : CopyItem(t, c)
           \/ DoneCopying(t, IF t = Main THEN "loanWait" ELSE "phaseWait")
    PROVE  MInv' /\ AbstractStep
  <1>1. UNCHANGED <<stackVars, opaqueVars, marked, heapVars>>
    BY DEF markVars
  <1>2. ASSUME NEW q \in CopyPlace \cup {"loanWait", "phaseWait"}, pc' = [pc EXCEPT ![t] = q],
               pc[t] \in CopyPlace
        PROVE  MInv' /\ AbstractStep
    BY <1>1, <1>2, MoveIs DEF CopyPlace, TracePlace
  <1>3. CASE GetNextBlocksToCopy(t)
    BY <1>2, <1>3 DEF GetNextBlocksToCopy, GoTo, CopyPlace
  <1>4. CASE SkipBlock(t)
    <2>1. pc' = pc \/ (pc' = [pc EXCEPT ![t] = "copyNext"] /\ pc[t] = "copy")
      BY <1>4 DEF SkipBlock, GoTo
    <2> QED
      BY <1>1, <1>2, <2>1, StayIs DEF CopyPlace
  <1>5. CASE \E c \in Cell : CopyItem(t, c)
    BY <1>1, <1>5, StayIs DEF CopyItem
  <1>6. CASE DoneCopying(t, IF t = Main THEN "loanWait" ELSE "phaseWait")
    BY <1>2, <1>6 DEF DoneCopying, GoTo, CopyPlace
  <1> QED
    BY <1>3, <1>4, <1>5, <1>6

LEMMA ThreadStepIs ==
    ASSUME IInv, MInv, NEW t \in Thread, ThreadStep(t)
    PROVE  MInv' /\ AbstractStep
  <1>1. CASE UNCHANGED heapVars /\ \E c \in Cell : VisitCell(t, c)
    BY <1>1, VisitIs
  <1>2. CASE UNCHANGED heapVars /\ Drained(t, "drain", "share")
    BY <1>2, DrainedIs
  <1>3. CASE UNCHANGED heapVars /\ Donate(t)
    BY <1>3, DonateIs
  <1>4. CASE UNCHANGED heapVars /\ EnterDrain(t)
    BY <1>4, MoveIs DEF EnterDrain, GoTo, SharePlace
  <1>5. CASE UNCHANGED heapVars /\ (Share(t) \/ WakeMarker(t))
    BY <1>5, LookIs
  <1>6. CASE /\ UNCHANGED <<markVars, heapVars>>
             /\ \/ GetNextBlocksToCopy(t) \/ SkipBlock(t) \/ \E c \in Cell : CopyItem(t, c)
                \/ DoneCopying(t, IF t = Main THEN "loanWait" ELSE "phaseWait")
    BY <1>6, CopyStepIs
  <1> QED
    BY <1>1, <1>2, <1>3, <1>4, <1>5, <1>6 DEF ThreadStep

LEMMA WaitIs ==
    ASSUME IInv, MInv, NEW t \in Worker, WaitForNextPhase(t) \/ NextPhase(t),
           UNCHANGED <<markVars, heapVars>>
    PROVE  MInv' /\ AbstractStep
  <1>1. UNCHANGED <<stackVars, opaqueVars, marked, heapVars>> /\ t \in Thread /\ t # Main
    BY WorkerAssumption DEF markVars, Thread
  <1>2. pc' = pc \/ \E q : pc' = [pc EXCEPT ![t] = q]
    BY DEF WaitForNextPhase, NextPhase, AwaitPhase, GoTo
  <1> QED
    BY <1>1, <1>2, StayIs, MoveIs

LEMMA AppendRootsIs ==
    ASSUME IInv, RootTypes, MInv, AppendRoots
    PROVE  MInv' /\ AbstractStep
  <1>1. /\ pc[Main] = "roots" /\ Tracing /\ Marking /\ group + 1 \in 1..Len(roots)
        /\ group' = group + 1 /\ group \in Nat
    BY DEF AppendRoots, RootTypes, Tracing, Marking
  <1> DEFINE cells == roots[group + 1]
  <1>2. roots[group + 1] \in SUBSET LiveFrom(roots)
    BY <1>1, LiveIsClosed DEF RootTypes
  <1>3. PICK q \in {"rootDrain", "rootDonate"} : pc' = [pc EXCEPT ![Main] = q]
    BY AfterVisitsIs DEF AppendRoots
  <1>4. pc'[Main] = q
    BY <1>3, OtherThread, ThreadFacts
  <1>5. /\ InternalAppend(Main, stack[Main], cells)
        /\ UNCHANGED <<sharedStack, localRoots, opaqueRoots, roots>>
    BY DEF AppendRoots, opaqueVars
  <1>6. \A g \in 1..group' : g \in 1..group \/ roots[g] \subseteq cells
    BY <1>1
  <1> HIDE DEF cells
  <1>7. cells \in SUBSET LiveFrom(roots) /\ group' \in Nat
    BY <1>1, <1>2 DEF cells
  <1>8. MInv'
    BY <1>1, <1>4, <1>5, <1>6, <1>7, AppendMarks
  <1>9. Grows
    BY <1>1, <1>4, <1>5 DEF Grows, Marking, InternalAppend
  <1> QED
    BY <1>8, <1>9 DEF AbstractStep

LEMMA VisitWeakIs ==
    ASSUME IInv, RootTypes, MInv, VisitWeak
    PROVE  MInv' /\ AbstractStep
  <1> DEFINE cells == WeaklyHeld(marked, opaqueRoots)
  <1>1. /\ pc[Main] = "weak" /\ Tracing /\ Marking /\ group = Len(roots) /\ group' = group
        /\ group \in Nat /\ marked \in SUBSET LiveFrom(roots) /\ opaqueRoots \subseteq AddedRoot
    BY DEF VisitWeak, RootTypes, Tracing, Marking, MInv, heapVars
  <1>2. cells \subseteq LiveFrom(roots)
    <2>1. cells \subseteq WeaklyHeld(marked, AddedRoot)
      BY <1>1 DEF WeaklyHeld
    <2>2. WeaklyHeld(marked, UNION {OpaqueRoot[c] : c \in marked}) \subseteq LiveFrom(roots)
      BY <1>1, LiveIsClosed
    <2> QED
      BY <2>1, <2>2 DEF AddedRoot
  <1>3. /\ InternalAppend(Main, stack[Main], cells)
        /\ UNCHANGED <<sharedStack, localRoots, opaqueRoots, roots>>
    BY DEF VisitWeak, opaqueVars, heapVars
  <1>4. PICK q \in {"rootDrain", "rootDonate", "finish"} :
            pc' = [pc EXCEPT ![Main] = q] /\ (q = "finish" => stack'[Main] = {})
    <2>1. CASE stack'[Main] = {}
      BY <2>1 DEF VisitWeak, GoTo
    <2>2. CASE stack'[Main] # {}
      BY <2>2, AfterVisitsIs DEF VisitWeak
    <2> QED
      BY <2>1, <2>2
  <1>5. pc'[Main] = q
    BY <1>4, OtherThread, ThreadFacts
  <1>6. q = "finish" => cells \subseteq marked
    BY <1>3, <1>4, ThreadFacts DEF InternalAppend, IInv, PhaseTypes
  <1>7. q = "finish" => WeaklyHeld(marked', opaqueRoots) \subseteq marked'
    <2> SUFFICES ASSUME cells \subseteq marked PROVE WeaklyHeld(marked', opaqueRoots) \subseteq marked'
      BY <1>6
    <2>1. marked' = marked
      BY <1>3 DEF InternalAppend
    <2> QED
      BY <2>1
  <1> HIDE DEF cells
  <1>8. MInv'
    BY <1>1, <1>2, <1>3, <1>5, <1>7, AppendMarks
  <1>9. Grows
    BY <1>1, <1>3, <1>5 DEF Grows, Marking, InternalAppend
  <1> QED
    BY <1>8, <1>9 DEF AbstractStep

LEMMA MainStepIs ==
    ASSUME IInv, RootTypes, MInv, MainStep
    PROVE  MInv' /\ AbstractStep
  <1>0. Main \in Thread
    BY ThreadFacts
  <1> USE DEF GoTo, TracePlace
  <1>1. CASE ThreadStep(Main)
    BY <1>0, <1>1, ThreadStepIs
  <1>2. CASE AppendRoots
    BY <1>2, AppendRootsIs
  <1>3. CASE RootsDrained
    <2>1. UNCHANGED heapVars /\ group \in Nat /\ Len(roots) \in Nat /\ group <= Len(roots)
      BY <1>3 DEF RootsDrained, RootTypes
    <2>2. CASE group < Len(roots)
      <3>1. Drained(Main, "rootDrain", "roots")
        BY <1>3, <2>2 DEF RootsDrained
      <3> QED
        BY <1>0, <2>1, <3>1, DrainedIs
    <2>3. CASE group = Len(roots)
      <3>1. Drained(Main, "rootDrain", "enter")
        BY <1>3, <2>1, <2>3 DEF RootsDrained
      <3> QED
        BY <1>0, <2>1, <2>3, <3>1, DrainedIs
    <2> QED
      BY <2>1, <2>2, <2>3
  <1>4. CASE VisitWeak
    BY <1>4, VisitWeakIs
  <1>5. CASE FinishMarking
    BY <1>0, <1>5, MoveIs DEF FinishMarking
  <1>6. CASE EndMark
    BY <1>0, <1>6, MoveIs DEF EndMark, EndCurrentPhase, markVars
  <1>7. CASE Marked
    <2>1. /\ pc[Main] = "markWait" /\ pc'[Main] = "startCopy" /\ opaqueRoots' = {}
          /\ UNCHANGED <<marked, sharedStack, stack, roots, group>>
      BY <1>0, <1>7, OtherThread DEF Marked, IdleThreads, stackVars, heapVars
    <2>2. ~Tracing' /\ pc'[Main] \notin SharePlace \cup {"weak", "finish", "endMark"}
      BY <2>1 DEF Tracing, Marking, SharePlace, DrainPlace
    <2>3. \A c \in Cell : Stacked(c)' => c \in marked'
      BY <2>1 DEF Stacked, MInv
    <2>4. Stutters
      BY <2>1 DEF Stutters, Marking
    <2> QED
      BY <2>1, <2>2, <2>3, <2>4 DEF MInv, AbstractStep
  <1>8. CASE SkipCopying \/ StartCopyPhase \/ StartCopyingMain
    <2>1. CASE SkipCopying
      BY <1>0, <2>1, MoveIs DEF SkipCopying, markVars
    <2>2. CASE StartCopyPhase
      BY <1>0, <2>2, MoveIs DEF StartCopyPhase, markVars
    <2>3. CASE StartCopyingMain
      BY <1>0, <2>3, MoveIs DEF StartCopyingMain, markVars
    <2> QED
      BY <1>8, <2>1, <2>2, <2>3
  <1>9. CASE AwaitLoans
    BY <1>9, StayIs DEF AwaitLoans, markVars
  <1>10. CASE SpaceDoneCopying \/ EndCopy \/ Join
    <2>1. CASE SpaceDoneCopying
      BY <1>0, <2>1, MoveIs DEF SpaceDoneCopying, markVars
    <2>2. CASE EndCopy
      BY <1>0, <2>2, MoveIs DEF EndCopy, EndCurrentPhase, markVars
    <2>3. CASE Join
      BY <1>0, <2>3, MoveIs DEF Join, markVars
    <2> QED
      BY <1>10, <2>1, <2>2, <2>3
  <1>11. CASE UNCHANGED <<markVars, heapVars>> /\ \E p \in ActivityWait : AwaitIdleThreads(p)
    BY <1>11, StayIs DEF AwaitIdleThreads, markVars
  <1>12. CASE /\ UNCHANGED <<markVars, heapVars>>
              /\ IdleThreads("startWait", "mutator") \/ IdleThreads("copyWait", "mutator")
    BY <1>0, <1>12, MoveIs DEF IdleThreads, markVars
  <1> QED
    BY <1>1, <1>2, <1>3, <1>4, <1>5, <1>6, <1>7, <1>8, <1>9, <1>10, <1>11, <1>12 DEF MainStep

LEMMA MutatorIs ==
    ASSUME IInv, RootTypes, MInv, Mutator
    PROVE  MInv' /\ AbstractStep
  <1>0. Main \in Thread
    BY ThreadFacts
  <1> USE DEF GoTo, TracePlace
  <1>1. CASE \E g \in DOMAIN roots : \E c \in roots[g] : DropRoot(g, c)
    <2>1. PICK g \in DOMAIN roots : \E c \in roots[g] : DropRoot(g, c)
      BY <1>1
    <2>2. PICK c \in roots[g] : DropRoot(g, c)
      BY <2>1
    <2>3. /\ roots' = [roots EXCEPT ![g] = roots[g] \ {c}] /\ pc' = pc /\ pc[Main] = "mutator"
          /\ UNCHANGED <<marked, sharedStack, stack, opaqueRoots>>
      BY <2>2 DEF DropRoot, sharedDataVars, markVars, stackVars, opaqueVars
    <2>4. DOMAIN roots' = DOMAIN roots /\ \A h \in DOMAIN roots : roots'[h] \subseteq roots[h]
      BY <2>3
    <2>5. LiveFrom(roots') \subseteq LiveFrom(roots)
      BY <2>4, LiveShrinks
    <2>6. ~Tracing /\ ~Tracing' /\ pc'[Main] \notin SharePlace \cup {"weak", "finish", "endMark"}
      BY <2>3 DEF Tracing, Marking, SharePlace, DrainPlace
    <2>7. \A x \in Cell : Stacked(x)' => x \in marked'
      BY <2>3 DEF Stacked, MInv
    <2>8. Mutates
      BY <2>3, <2>5, <2>6 DEF Mutates, Tracing
    <2> QED
      BY <2>3, <2>6, <2>7, <2>8 DEF MInv, AbstractStep
  <1>2. CASE \E pins \in SUBSET toSpace : Collect(pins)
    <2>1. PICK pins \in SUBSET toSpace : Collect(pins)
      BY <1>2
    <2>2. /\ pc[Main] = "mutator" /\ marked' = {} /\ group' = 0
          /\ stack' = [stack EXCEPT ![Main] = {}]
          /\ UNCHANGED <<sharedStack, localRoots, opaqueRoots, roots>>
      BY <2>1 DEF Collect, opaqueVars
    <2>3. pc'[Main] = "roots"
      BY <1>0, <2>1, OtherThread DEF Collect
    <2>4. ~Tracing /\ ~Marking /\ Marking' /\ Tracing' /\ pc'[Main] \notin SharePlace
      BY <2>2, <2>3 DEF Tracing, Marking, SharePlace, DrainPlace
    <2>5. sharedStack = {} /\ \A t \in Thread : stack[t] = {} /\ localRoots[t] = {}
      <3>1. \A t \in Thread : pc[t] \notin DrainPlace \cup {"rootDrain", "rootDonate"}
        BY <2>2 DEF IInv, Work, Places, Thread, DrainPlace, SharePlace, CopyPlace
      <3> QED
        BY <2>2, <3>1 DEF IInv, Work
    <2>6. \A x : ~Stacked(x)'
      BY <2>2, <2>5 DEF Stacked, IInv, PhaseTypes
    <2>7. opaqueRoots' = {} /\ \A t \in Thread : localRoots'[t] = {}
      BY <2>2, <2>4, <2>5 DEF MInv
    <2>8. Begins
      BY <2>2, <2>4 DEF Begins
    <2> QED
      BY <2>2, <2>3, <2>4, <2>6, <2>7, <2>8 DEF MInv, AbstractStep
  <1>3. CASE Destroy
    BY <1>0, <1>3, MoveIs DEF Destroy
  <1> QED
    BY <1>1, <1>2, <1>3 DEF Mutator

LEMMA NextIs == IInv /\ RootTypes /\ MInv /\ [Next]_vars => MInv' /\ AbstractStep
  <1> SUFFICES ASSUME IInv, RootTypes, MInv, [Next]_vars PROVE MInv' /\ AbstractStep
    OBVIOUS
  <1>1. CASE MainStep
    BY <1>1, MainStepIs
  <1>2. CASE Mutator
    BY <1>2, MutatorIs
  <1>3. CASE \E t \in Worker : WorkerStep(t)
    <2>1. PICK t \in Worker : WorkerStep(t)
      BY <1>3
    <2>2. CASE ThreadStep(t)
      BY <2>2, ThreadStepIs, ThreadFacts
    <2>3. CASE UNCHANGED <<markVars, heapVars>> /\ (WaitForNextPhase(t) \/ NextPhase(t))
      BY <2>3, WaitIs
    <2> QED
      BY <2>1, <2>2, <2>3 DEF WorkerStep
  <1>4. CASE UNCHANGED vars
    BY <1>4, StayIs DEF vars, sharedDataVars, markVars
  <1> QED
    BY <1>1, <1>2, <1>3, <1>4 DEF Next

LEMMA InitMInv == Init => MInv
  BY ThreadFacts DEF Init, SharedDataInit, SlotVisitorInit, MInv, Tracing, Marking, Stacked,
     SharePlace, DrainPlace

LEMMA MarkingInvariantHolds == Spec => [](IInv /\ RootTypes /\ MInv)
  BY InvariantHolds, InitMInv, NextIs, PTL DEF Spec

(* When the main thread leaves drainFromShared marking has stopped: no     *)
(* thread holds a cell or drains, and containsOpaqueRoot sees every opaque *)
(* root (SlotVisitor.cpp:198).                                             *)
THEOREM DrainedIsQuiet == Spec => []QuietWhenDrained
  <1>1. IInv /\ MInv => QuietWhenDrained
    <2> SUFFICES ASSUME IInv, MInv, pc[Main] \in {"weak", "finish", "endMark"}
                 PROVE  /\ sharedStack = {}
                        /\ \A t \in Thread : stack[t] = {} /\ pc[t] \notin {"drain", "donate"}
                        /\ UNION {OpaqueRoot[c] : c \in marked} \subseteq opaqueRoots
      BY DEF QuietWhenDrained
    <2>1. sharedStack = {} /\ \A t \in Thread : pc[t] \notin DrainPlace \cup {"rootDrain", "rootDonate"}
      BY DEF IInv, Work, Places, Thread, TracePlace, DrainPlace, SharePlace, CopyPlace
    <2>2. \A t \in Thread : stack[t] = {} /\ localRoots[t] = {}
      BY <2>1 DEF IInv, Work
    <2>3. \A c \in marked : Visited(c)
      BY <2>1, <2>2 DEF MInv, Stacked, Tracing, Marking
    <2>4. UNION {OpaqueRoot[c] : c \in marked} \subseteq opaqueRoots
      BY <2>2, <2>3 DEF Visited, Known
    <2> QED
      BY <2>1, <2>2, <2>4 DEF DrainPlace
  <1> QED
    BY <1>1, MarkingInvariantHolds, PTL

(* At "finish" exactly the live cells are marked.                          *)
LEMMA FinishedIsLive ==
    ASSUME IInv, RootTypes, MInv, QuietWhenDrained, pc[Main] = "finish"
    PROVE  marked = LiveFrom(roots)
  <1>1. /\ marked \subseteq LiveFrom(roots) /\ group = Len(roots)
        /\ \A g \in 1..Len(roots) : roots[g] \subseteq marked
        /\ WeaklyHeld(marked, opaqueRoots) \subseteq marked
    BY DEF MInv, Tracing, Marking
  <1>2. \A c \in marked : Children[c] \subseteq marked
    BY DEF MInv, Stacked, Visited, Tracing, Marking, QuietWhenDrained
  <1>3. WeaklyHeld(marked, UNION {OpaqueRoot[c] : c \in marked}) \subseteq marked
    BY <1>1 DEF WeaklyHeld, QuietWhenDrained
  <1>4. Closed(marked)
    BY <1>2, <1>3 DEF Closed
  <1>5. marked \in SUBSET Cell /\ \A g \in DOMAIN roots : roots[g] \subseteq marked
    BY <1>1 DEF IInv, PhaseTypes, RootTypes
  <1>6. LiveFrom(roots) \subseteq marked
    BY <1>4, <1>5, LiveIsLeast
  <1> QED
    BY <1>1, <1>6

(* Every step of the collector is a step of Tracing.tla or leaves what it  *)
(* talks about alone.                                                      *)
LEMMA StepIsAbstract ==
    ASSUME IInv, RootTypes, MInv, QuietWhenDrained, MInv', AbstractStep
    PROVE  [Abstract!Next]_(Abstract!vars)
  <1> USE DEF Abstract!Next, Abstract!vars, Abstract!Live
  <1>1. CASE Stutters
    BY <1>1 DEF Stutters
  <1>2. CASE Grows
    <2>1. marked' \subseteq LiveFrom(roots)
      BY <1>2 DEF Grows, MInv, Tracing
    <2> QED
      BY <1>2, <2>1 DEF Grows, Abstract!Trace
  <1>3. CASE Begins
    BY <1>3 DEF Begins, Abstract!Begin
  <1>4. CASE Mutates
    <2>1. CASE roots' = roots
      <3>1. (Marking' <=> Marking) /\ UNCHANGED <<marked, roots>>
        BY <1>4, <2>1 DEF Mutates
      <3> QED
        BY <3>1
    <2>2. CASE roots' # roots
      <3>1. Abstract!Mutate
        BY <1>4, <2>2 DEF Mutates, Abstract!Mutate
      <3> QED
        BY <3>1
    <2> QED
      BY <2>1, <2>2
  <1>5. CASE Finishes
    <2>1. Marking /\ marked = LiveFrom(roots)
      BY <1>5, FinishedIsLive DEF Finishes, Marking
    <2> QED
      BY <1>5, <2>1 DEF Finishes, Abstract!End
  <1> QED
    BY <1>1, <1>2, <1>3, <1>4, <1>5 DEF AbstractStep

(* The parallel collector implements Tracing.tla: it marks live cells      *)
(* only, and when didFinishMarking is called all of them, for any heap,    *)
(* any roots and any number of GC threads.                                 *)
THEOREM MarksExactlyLiveCells == Spec => MarksLiveCells
  <1>1. Init => Abstract!Init
    BY ThreadFacts DEF Init, SharedDataInit, SlotVisitorInit, Abstract!Init, Marking
  <1>2. IInv /\ RootTypes /\ MInv /\ QuietWhenDrained /\ [Next]_vars => [Abstract!Next]_(Abstract!vars)
    BY NextIs, StepIsAbstract
  <1> QED
    BY <1>1, <1>2, MarkingInvariantHolds, DrainedIsQuiet, PTL DEF Spec, MarksLiveCells, Abstract!Spec
=============================================================================
