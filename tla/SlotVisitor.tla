----------------------------- MODULE SlotVisitor -----------------------------
(***************************************************************************)
(* Parallel marking (SlotVisitor.cpp, MarkStack.cpp): every thread drains  *)
(* a mark stack of its own, gives part of it to a shared one and takes     *)
(* from there when its own is empty; the main thread finds out that all    *)
(* work is done.                                                           *)
(*                                                                         *)
(* A mark stack is the set of cells in it: a cell is pushed once, by the   *)
(* thread whose test-and-set marks it.  How many cells are donated or      *)
(* stolen depends on the segments of the stacks; here it is any part.      *)
(***************************************************************************)
EXTENDS CopiedSpace

CONSTANTS
    Children,       \* the cells a cell refers to
    OpaqueRoot,     \* the opaque root a cell adds when it is visited, if any
    MergeThreshold  \* Options::opaqueRootMergeThreshold()

ASSUME CellAssumption ==
    /\ Children \in [Cell -> SUBSET Cell]
    /\ DOMAIN OpaqueRoot = Cell
    /\ \A c \in Cell : IsFiniteSet(OpaqueRoot[c]) /\ Cardinality(OpaqueRoot[c]) <= 1
    /\ MergeThreshold \in Nat

VARIABLES
    shouldExit,     \* m_parallelMarkersShouldExit
    activeMarkers,  \* m_numberOfActiveParallelMarkers
    sharedStack,    \* m_sharedMarkStack
    stack,          \* m_stack of each thread's visitor
    localRoots,     \* m_opaqueRoots of each thread's visitor
    opaqueRoots,    \* m_shared.m_opaqueRoots
    marked          \* the cells whose mark bit is set

stackVars == <<sharedStack, stack>>
opaqueVars == <<localRoots, opaqueRoots>>
markVars == <<shouldExit, activeMarkers, stackVars, opaqueVars, marked>>

SlotVisitorInit ==
    /\ shouldExit = FALSE
    /\ activeMarkers = 0
    /\ sharedStack = {}
    /\ stack = [t \in Thread |-> {}]
    /\ localRoots = [t \in Thread |-> {}]
    /\ opaqueRoots = {}
    /\ marked = {}

-----------------------------------------------------------------------------
(* internalAppend of each of the cells to t's stack s: the ones whose mark *)
(* bit was not set.                                                        *)
InternalAppend(t, s, cells) ==
    /\ marked' = marked \cup cells
    /\ stack' = [stack EXCEPT ![t] = s \cup (cells \ marked)]

(* After a number of visits, drain tries to donate: not a stack of fewer   *)
(* than two cells, not if the lock is taken.  The size of the shared stack *)
(* is read without the lock and may be anything.                           *)
AfterVisits(t, drain, donate) ==
    \/ GoTo(t, drain)
    \/ Cardinality(stack'[t]) >= 2 /\ GoTo(t, donate)

(* mergeOpaqueRoots.                                                       *)
MergeOpaqueRoots(t) ==
    /\ opaqueRoots' = opaqueRoots \cup localRoots[t]
    /\ localRoots' = [localRoots EXCEPT ![t] = {}]

(* addOpaqueRoot, with mergeOpaqueRootsIfProfitable before the root is     *)
(* added.                                                                  *)
AddOpaqueRoot(t, r) ==
    IF r # {} /\ Cardinality(localRoots[t]) >= MergeThreshold
    THEN /\ opaqueRoots' = opaqueRoots \cup localRoots[t]
         /\ localRoots' = [localRoots EXCEPT ![t] = r]
    ELSE /\ localRoots' = [localRoots EXCEPT ![t] = @ \cup r]
         /\ UNCHANGED opaqueRoots

(* One iteration of drain's inner loop: take a cell, visit its children    *)
(* and report its backing store.  A GC thread, and the main thread in      *)
(* drainFromShared, is at "drain"; the main thread that drains what it has *)
(* just appended is at "rootDrain".                                        *)
VisitCell(t, c) ==
    /\ pc[t] \in {"drain", "rootDrain"} /\ c \in stack[t]
    /\ InternalAppend(t, stack[t] \ {c}, Children[c])
    /\ AddOpaqueRoot(t, OpaqueRoot[c])
    /\ ReportLiveBytes(c)
    /\ IF pc[t] = "drain" THEN AfterVisits(t, "drain", "donate")
                          ELSE AfterVisits(t, "rootDrain", "rootDonate")
    /\ UNCHANGED <<asleep, phaseVars, shouldExit, activeMarkers, sharedStack,
                   store, spaceVars, loanVars>>

DrainedFaulty(t, from, to) ==
    /\ pc[t] = from /\ stack[t] = {}
    /\ GoTo(t, to)
    /\ UNCHANGED <<asleep, phaseVars, shouldExit, activeMarkers, stackVars, opaqueVars,
                   marked, copiedSpaceVars>>

(* The end of drain: mergeOpaqueRootsIfNecessary.                          *)
Drained(t, from, to) ==
    /\ pc[t] = from /\ stack[t] = {}
    /\ MergeOpaqueRoots(t)
    /\ GoTo(t, to)
    /\ UNCHANGED <<asleep, phaseVars, shouldExit, activeMarkers, stackVars, marked,
                   copiedSpaceVars>>

(* m_markingCondition.broadcast().                                         *)
MarkingBroadcast == asleep \ At({"markingWait"})

(* donateKnownParallel with the lock: some cells move to the shared stack, *)
(* and waiting threads hear of it if not all are draining.                 *)
Donate(t) ==
    /\ pc[t] \in {"donate", "rootDonate"}
    /\ \E d \in SUBSET stack[t] \ {{}} :
          /\ sharedStack' = sharedStack \cup d
          /\ stack' = [stack EXCEPT ![t] = @ \ d]
    /\ asleep' = IF activeMarkers < Cardinality(Thread) THEN MarkingBroadcast ELSE asleep
    /\ GoTo(t, IF pc[t] = "donate" THEN "drain" ELSE "rootDrain")
    /\ UNCHANGED <<phaseVars, shouldExit, activeMarkers, opaqueVars, marked, copiedSpaceVars>>

-----------------------------------------------------------------------------
EnterDrainFaulty(t) ==
    /\ pc[t] = "enter"
    /\ GoTo(t, "share")
    /\ UNCHANGED <<asleep, phaseVars, shouldExit, activeMarkers, stackVars, opaqueVars,
                   marked, copiedSpaceVars>>

(* The first lock of drainFromShared.                                      *)
EnterDrain(t) ==
    /\ pc[t] = "enter"
    /\ activeMarkers' = activeMarkers + 1
    /\ GoTo(t, "share")
    /\ UNCHANGED <<asleep, phaseVars, shouldExit, stackVars, opaqueVars, marked, copiedSpaceVars>>

(* Take cells from the shared stack and drain them; n is the number of     *)
(* active markers without t.                                               *)
Steal(t, n, sleepers) ==
    /\ \E s \in SUBSET sharedStack \ {{}} :
          /\ sharedStack' = sharedStack \ s
          /\ stack' = [stack EXCEPT ![t] = @ \cup s]
    /\ activeMarkers' = n + 1
    /\ GoTo(t, "drain")
    /\ asleep' = sleepers

(* The wait of drainFromShared.                                            *)
SleepForMarking(t, n, sleepers) ==
    /\ activeMarkers' = n
    /\ asleep' = sleepers \cup {t}
    /\ GoTo(t, "markingWait")
    /\ UNCHANGED stackVars

LeaveDrain(t, n, sleepers, to) ==
    /\ activeMarkers' = n
    /\ asleep' = sleepers
    /\ GoTo(t, to)
    /\ UNCHANGED stackVars

MasterWaitFaulty(n) ==
    IF sharedStack # {} THEN Steal(Main, n, asleep)
    ELSE LeaveDrain(Main, n, MarkingBroadcast, "weak")

(* MasterDrain: done when no marker is active and nothing is shared.       *)
MasterWait(n) ==
    IF sharedStack # {} THEN Steal(Main, n, asleep)
    ELSE IF n = 0 THEN LeaveDrain(Main, n, MarkingBroadcast, "weak")
    ELSE SleepForMarking(Main, n, asleep)

(* SlaveDrain: done when the main thread says so.                          *)
SlaveWait(t, n, sleepers) ==
    IF shouldExit THEN LeaveDrain(t, n, sleepers, "phaseWait")
    ELSE IF sharedStack = {} THEN SleepForMarking(t, n, sleepers)
    ELSE Steal(t, n, sleepers)

SlaveNoticeFaulty(n) == asleep

(* A GC thread that may be the last one active lets the main thread know.  *)
SlaveNotice(n) ==
    IF n = 0 /\ sharedStack = {} THEN MarkingBroadcast ELSE asleep

(* The loop of drainFromShared takes the lock with an empty stack.         *)
Share(t) ==
    /\ pc[t] = "share"
    /\ IF t = Main THEN MasterWait(activeMarkers - 1)
                   ELSE SlaveWait(t, activeMarkers - 1, SlaveNotice(activeMarkers - 1))
    /\ UNCHANGED <<phaseVars, shouldExit, opaqueVars, marked, copiedSpaceVars>>

(* A thread wakes up in drainFromShared.                                   *)
WakeMarker(t) ==
    /\ pc[t] = "markingWait" /\ t \notin asleep
    /\ IF t = Main THEN MasterWait(activeMarkers) ELSE SlaveWait(t, activeMarkers, asleep)
    /\ UNCHANGED <<phaseVars, shouldExit, opaqueVars, marked, copiedSpaceVars>>
=============================================================================
