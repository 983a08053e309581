-------------------------------- MODULE Heap --------------------------------
(***************************************************************************)
(* A full collection (Heap.cpp): the main thread marks from the roots and  *)
(* then from weak references until nothing is added, and has the backing   *)
(* stores copied, each with the help of the GC threads.                    *)
(***************************************************************************)
EXTENDS SlotVisitor, CopyVisitor, SequencesExt

CONSTANTS
    InitRoots,      \* the groups of roots markRoots goes through
    WeakRoot,       \* cells with a weak handle, and the opaque root it asks for
    Ephemeron,      \* <<map, key, value>>: entries of weak maps
    MaxCollections, \* bound: collections in a behaviour
    MaxPins         \* bound: blocks that conservative roots point into

ASSUME HeapAssumption ==
    /\ InitRoots \in Seq(SUBSET Cell)
    /\ DOMAIN WeakRoot \subseteq Cell
    /\ Ephemeron \subseteq Cell \X Cell \X Cell
    /\ MaxCollections \in Nat /\ MaxPins \in Nat

VARIABLES
    roots,          \* the groups of roots at the moment
    group,          \* how many of them have been appended
    collections     \* how many collections have started

heapVars == <<roots, group, collections>>
vars == <<sharedDataVars, markVars, copiedSpaceVars, copyVars, heapVars>>

Init ==
    /\ SharedDataInit
    /\ SlotVisitorInit
    /\ CopiedSpaceInit
    /\ CopyVisitorInit
    /\ roots = InitRoots
    /\ group = 0
    /\ collections = 0

-----------------------------------------------------------------------------
(* The mutator lets go of a root.                                          *)
DropRoot(g, c) ==
    /\ pc[Main] = "mutator" /\ c \in roots[g]
    /\ roots' = [roots EXCEPT ![g] = @ \ {c}]
    /\ UNCHANGED <<sharedDataVars, markVars, copiedSpaceVars, copyVars, group, collections>>

(* collect: didStartFullCollection, conservative roots pin some blocks,    *)
(* the mark bits are cleared and didStartMarking starts the phase.         *)
Collect(pins) ==
    /\ pc[Main] = "mutator" /\ collections < MaxCollections
    /\ collections' = collections + 1
    /\ ForgetReports(pins)
    /\ marked' = {}
    /\ stack' = [stack EXCEPT ![Main] = {}]
    /\ shouldExit' = FALSE
    /\ StartNextPhase("Mark")
    /\ group' = 0
    /\ GoTo(Main, "roots")
    /\ UNCHANGED <<activeMarkers, sharedStack, opaqueVars, store, spaceVars, loanVars,
                   copyVars, roots>>

(* The next group of roots is appended; donateAndDrain.                    *)
AppendRoots ==
    /\ pc[Main] = "roots" /\ group < Len(roots)
    /\ group' = group + 1
    /\ InternalAppend(Main, stack[Main], roots[group + 1])
    /\ AfterVisits(Main, "rootDrain", "rootDonate")
    /\ UNCHANGED <<asleep, phaseVars, shouldExit, activeMarkers, sharedStack, opaqueVars,
                   copiedSpaceVars, copyVars, roots, collections>>

(* donateAndDrain is done: on to the next group, or to drainFromShared.    *)
RootsDrained ==
    /\ Drained(Main, "rootDrain", IF group < Len(roots) THEN "roots" ELSE "enter")
    /\ UNCHANGED <<copyVars, heapVars>>

(* The cells that visitWeakSets and harvestWeakReferences append when the  *)
(* cells of m are marked and the opaque roots of o are known.  (What one   *)
(* entry makes possible for a later one comes with the next iteration.)    *)
WeaklyHeld(m, o) ==
    {w \in DOMAIN WeakRoot : WeakRoot[w] \in o}
        \cup {e[3] : e \in {f \in Ephemeron : {f[1], f[2]} \subseteq m}}

(* One iteration over the weak references: with nothing to append marking  *)
(* is finished, otherwise donateAndDrain and drainFromShared again.        *)
VisitWeak ==
    /\ pc[Main] = "weak"
    /\ InternalAppend(Main, stack[Main], WeaklyHeld(marked, opaqueRoots))
    /\ IF stack'[Main] = {} THEN GoTo(Main, "finish")
                            ELSE AfterVisits(Main, "rootDrain", "rootDonate")
    /\ UNCHANGED <<asleep, phaseVars, shouldExit, activeMarkers, sharedStack, opaqueVars,
                   copiedSpaceVars, copyVars, heapVars>>

(* didFinishMarking, the part under the marking lock.                      *)
FinishMarking ==
    /\ pc[Main] = "finish"
    /\ shouldExit' = TRUE
    /\ asleep' = MarkingBroadcast
    /\ GoTo(Main, "endMark")
    /\ UNCHANGED <<phaseVars, activeMarkers, stackVars, opaqueVars, marked, copiedSpaceVars,
                   copyVars, heapVars>>

EndMark ==
    /\ pc[Main] = "endMark"
    /\ EndCurrentPhase("markWait")
    /\ UNCHANGED <<markVars, copiedSpaceVars, copyVars, heapVars>>

(* The GC threads are idle; the visitors and the shared data are reset.    *)
Marked ==
    /\ IdleThreads("markWait", "startCopy")
    /\ opaqueRoots' = {}
    /\ UNCHANGED <<shouldExit, activeMarkers, stackVars, localRoots, marked,
                   copiedSpaceVars, copyVars, heapVars>>

-----------------------------------------------------------------------------
(* startedCopying decides by the fragmentation of the space not to copy.   *)
SkipCopying ==
    /\ pc[Main] = "startCopy"
    /\ store' = Deallocate(store, Recyclable)
    /\ KeepBlocks({}, toSpace \ Recyclable)
    /\ GoTo(Main, "mutator")
    /\ UNCHANGED <<asleep, phaseVars, markVars, loanVars, copyVars, heapVars>>

(* startedCopying decides to copy; didStartCopying borrows a block for     *)
(* every GC thread before it starts the phase.                             *)
StartCopyPhase ==
    /\ pc[Main] = "startCopy"
    /\ SwapSpaces
    /\ inCopyingPhase' = TRUE
    /\ blocksToCopy' = SetToSeq(toSpace \ Recyclable)
    /\ copyIndex' = 0
    /\ StartCopying(Worker)
    /\ StartNextPhase("Copy")
    /\ GoTo(Main, "copyOwn")
    /\ UNCHANGED <<markVars, reportVars, todo, heapVars>>

(* The main thread borrows a block too.                                    *)
StartCopyingMain ==
    /\ pc[Main] = "copyOwn"
    /\ StartCopying({Main})
    /\ GoTo(Main, "copyNext")
    /\ UNCHANGED <<asleep, phaseVars, markVars, store, spaceVars, reportVars, inCopyingPhase,
                   copyVars, heapVars>>

(* CopiedSpace::doneCopying waits for the blocks on loan ...               *)
AwaitLoans ==
    /\ pc[Main] = "loanWait" /\ Main \notin asleep
    /\ loaned > 0
    /\ asleep' = asleep \cup {Main}
    /\ UNCHANGED <<pc, phaseVars, markVars, copiedSpaceVars, copyVars, heapVars>>

(* ... and then ends the copying phase of the space.                       *)
SpaceDoneCopying ==
    /\ pc[Main] = "loanWait" /\ Main \notin asleep
    /\ loaned = 0
    /\ inCopyingPhase' = FALSE
    /\ KeepBlocks(toSpace, fromSpace)
    /\ GoTo(Main, "endCopy")
    /\ UNCHANGED <<asleep, phaseVars, markVars, store, loaned, borrowed, copyVars, heapVars>>

(* didFinishCopying.                                                       *)
EndCopy ==
    /\ pc[Main] = "endCopy"
    /\ EndCurrentPhase("copyWait")
    /\ UNCHANGED <<markVars, copiedSpaceVars, copyVars, heapVars>>

(* ~GCThreadSharedData: the GC threads are told to exit ...                *)
Destroy ==
    /\ pc[Main] = "mutator"
    /\ shouldExit' = TRUE
    /\ shouldWait' = FALSE
    /\ phase' = "Exit"
    /\ PhaseBroadcast
    /\ GoTo(Main, "join")
    /\ UNCHANGED <<activeThreads, activeMarkers, stackVars, opaqueVars, marked,
                   copiedSpaceVars, copyVars, heapVars>>

(* ... and joined.                                                         *)
Join ==
    /\ pc[Main] = "join" /\ \A t \in Worker : pc[t] = "exited"
    /\ GoTo(Main, "destroyed")
    /\ UNCHANGED <<asleep, phaseVars, markVars, copiedSpaceVars, copyVars, heapVars>>

-----------------------------------------------------------------------------
(* What any thread does for a collection.                                  *)
ThreadStep(t) ==
    \/ /\ \/ \E c \in Cell : VisitCell(t, c)
          \/ Drained(t, "drain", "share")
          \/ Donate(t) \/ EnterDrain(t) \/ Share(t) \/ WakeMarker(t)
       /\ UNCHANGED <<copyVars, heapVars>>
    \/ /\ \/ GetNextBlocksToCopy(t)
          \/ SkipBlock(t)
          \/ \E c \in Cell : CopyItem(t, c)
          \/ DoneCopying(t, IF t = Main THEN "loanWait" ELSE "phaseWait")
       /\ UNCHANGED <<markVars, heapVars>>

WorkerStep(t) ==
    \/ ThreadStep(t)
    \/ /\ WaitForNextPhase(t) \/ NextPhase(t)
       /\ UNCHANGED <<markVars, copiedSpaceVars, copyVars, heapVars>>

MainStep ==
    \/ ThreadStep(Main)
    \/ AppendRoots \/ RootsDrained \/ VisitWeak \/ FinishMarking \/ EndMark \/ Marked
    \/ SkipCopying \/ StartCopyPhase \/ StartCopyingMain
    \/ AwaitLoans \/ SpaceDoneCopying \/ EndCopy \/ Join
    \/ /\ \/ \E p \in ActivityWait : AwaitIdleThreads(p)
          \/ IdleThreads("startWait", "mutator")
          \/ IdleThreads("copyWait", "mutator")
       /\ UNCHANGED <<markVars, copiedSpaceVars, copyVars, heapVars>>

(* What JavaScript makes the main thread do.                               *)
Mutator ==
    \/ \E g \in DOMAIN roots : \E c \in roots[g] : DropRoot(g, c)
    \/ \E pins \in SUBSET toSpace : Cardinality(pins) <= MaxPins /\ Collect(pins)
    \/ Destroy

Next == MainStep \/ Mutator \/ \E t \in Worker : WorkerStep(t)

Spec == Init /\ [][Next]_vars

(* The operating system runs every thread that can run.                    *)
FairSpec == Spec /\ WF_vars(MainStep) /\ \A t \in Worker : WF_vars(WorkerStep(t))
=============================================================================
