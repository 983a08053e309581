---------------------------- MODULE HeapProperties ----------------------------
(***************************************************************************)
(* What makes the parallel collector correct.                              *)
(***************************************************************************)
EXTENDS Heap

(* Every variable stays in its type; the counters of active threads,       *)
(* markers and lent blocks do not fall below zero.                         *)
TypeOK ==
    /\ pc \in [Thread -> Place] /\ asleep \subseteq Thread
    /\ phase \in Phase /\ shouldWait \in BOOLEAN /\ activeThreads \in Nat
    /\ shouldExit \in BOOLEAN /\ activeMarkers \in Nat
    /\ sharedStack \subseteq Cell /\ stack \in [Thread -> SUBSET Cell]
    /\ marked \subseteq Cell
    /\ store \in [Cell -> Block \cup {NoBlock}]
    /\ toSpace \subseteq Block /\ fromSpace \subseteq Block /\ pinned \subseteq Block
    /\ liveBytes \in [Block -> Nat] /\ workList \in [Block -> SUBSET Cell]
    /\ inCopyingPhase \in BOOLEAN /\ loaned \in Nat
    /\ borrowed \in [Thread -> Block \cup {NoBlock}]
    /\ copyIndex \in Nat /\ group \in Nat /\ collections \in Nat
    /\ roots \in Seq(SUBSET Cell) /\ blocksToCopy \in Seq(Block)
    /\ todo \in [Thread -> Seq(Block)]

(* The cells a collection must keep: everything reachable from the roots,  *)
(* a cell with a weak handle if the opaque root it asks for is added by    *)
(* such a cell, and the value of a weak map entry if map and key are such. *)
Closed(s) ==
    /\ UNION {Children[c] : c \in s} \subseteq s
    /\ WeaklyHeld(s, UNION {OpaqueRoot[c] : c \in s}) \subseteq s

LiveFrom(groups) ==
    LET rs == UNION {groups[g] : g \in DOMAIN groups}
        closed == {s \in SUBSET Cell : rs \subseteq s /\ Closed(s)} IN
    {c \in Cell : \A s \in closed : c \in s}

Marking == pc[Main] \in {"roots", "rootDrain", "rootDonate", "enter", "share", "drain",
                         "donate", "markingWait", "weak", "finish"}

(* Marking by several threads does what Tracing.tla says: when             *)
(* didFinishMarking is called exactly the live cells are marked            *)
(* (Heap.cpp:443-608).                                                     *)
Abstract == INSTANCE Tracing WITH tracing <- Marking, LiveCells <- LiveFrom

MarksLiveCells == Abstract!Spec

(* When the main thread leaves drainFromShared, marking has really stopped *)
(* (SlotVisitor.cpp:198): no thread holds a cell, no thread drains, and    *)
(* every opaque root found so far is in the shared set, the only one       *)
(* containsOpaqueRoot asks (SlotVisitorInlines.h:169).                     *)
QuietWhenDrained ==
    pc[Main] \in {"weak", "finish", "endMark"} =>
        /\ sharedStack = {}
        /\ \A t \in Thread : stack[t] = {} /\ pc[t] \notin {"drain", "donate"}
        /\ UNION {OpaqueRoot[c] : c \in marked} \subseteq opaqueRoots

(* A thread that copies has a block to copy into, also when it starts late *)
(* or has already run the phase, and a block is lent only while the space  *)
(* is in its copying phase (CopiedSpace.cpp:152, 175-177).                 *)
BlocksLentInPhase ==
    /\ \A t \in Thread : pc[t] \in {"copyNext", "copy", "copyDone"} => borrowed[t] # NoBlock
    /\ loaned = Cardinality({t \in Thread : borrowed[t] # NoBlock})
    /\ loaned > 0 => inCopyingPhase

(* Between collections every cell that was marked still has its backing    *)
(* store, in a block of to-space, and nothing is left in from-space        *)
(* (CopiedSpace.cpp:246).                                                  *)
StoresSurvive ==
    pc[Main] = "mutator" =>
        /\ fromSpace = {}
        /\ \A c \in Cell : InitStore[c] # NoBlock /\ (collections = 0 \/ c \in marked) =>
              store[c] \in toSpace

(* Only pinned blocks are left in from-space when copying is done.         *)
EvacuatedBlocksGone ==
    pc[Main] = "loanWait" /\ loaned = 0 => fromSpace \subseteq pinned

(* A sleeping thread is woken up: the main thread does not sleep when what *)
(* it waits for has happened, nor a GC thread when there is a phase to run *)
(* or the shared mark stack has cells for it.                              *)
NoLostWakeup ==
    \A t \in asleep :
        CASE pc[t] \in ActivityWait -> activeThreads > 0
          [] pc[t] = "loanWait" -> loaned > 0
          [] pc[t] = "phaseWait" -> shouldWait
          [] pc[t] = "nextPhaseWait" -> phase = "NoPhase"
          [] pc[t] = "markingWait" -> /\ sharedStack = {}
                                      /\ t = Main => activeMarkers > 0
                                      /\ t # Main => ~shouldExit

(* Marking ends, and so does the collection; the destructor of the heap    *)
(* gets all GC threads to exit.                                            *)
CollectionEnds ==
    /\ Abstract!Ends
    /\ pc[Main] = "roots" ~> pc[Main] = "mutator"
    /\ pc[Main] = "join" ~> pc[Main] = "destroyed"
=============================================================================
