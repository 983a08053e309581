----------------------------- MODULE CopyVisitor -----------------------------
(***************************************************************************)
(* Parallel copying (CopyVisitor.cpp): the threads take fragments of the   *)
(* list of blocks, copy the stores on each block's work list into a block  *)
(* they have borrowed, and return that block at the end.                   *)
(***************************************************************************)
EXTENDS CopiedSpace, Sequences

CONSTANT Fragment   \* s_blockFragmentLength
ASSUME FragmentAssumption == Fragment \in Nat \ {0}

VARIABLES
    blocksToCopy,   \* m_blocksToCopy
    copyIndex,      \* m_copyIndex: how many blocks have been handed out
    todo            \* each thread's blocks from `next' to `end'

copyVars == <<blocksToCopy, copyIndex, todo>>

CopyVisitorInit ==
    /\ blocksToCopy = <<>>
    /\ copyIndex = 0
    /\ todo = [t \in Thread |-> <<>>]

-----------------------------------------------------------------------------
(* Every thread of ts borrows a block (startCopying, doneFillingBlock      *)
(* without a block to give back).                                          *)
StartCopying(ts) ==
    LET lent == CHOOSE f \in [ts -> Block \ InUse] : \A t, u \in ts : f[t] = f[u] => t = u IN
    /\ borrowed' = [t \in Thread |-> IF t \in ts THEN lent[t] ELSE borrowed[t]]
    /\ loaned' = loaned + Cardinality(ts)

GetNextBlocksToCopyFaulty(t) ==
    /\ pc[t] = "copyNext"
    /\ LET end == IF copyIndex + Fragment < Len(blocksToCopy)
                  THEN copyIndex + Fragment ELSE Len(blocksToCopy) IN
       /\ todo' = [todo EXCEPT ![t] = SubSeq(blocksToCopy, copyIndex + 2, end)]
       /\ copyIndex' = end
       /\ GoTo(t, IF copyIndex < end THEN "copy" ELSE "copyDone")
    /\ UNCHANGED <<asleep, phaseVars, blocksToCopy, copiedSpaceVars>>

(* getNextBlocksToCopy: the next fragment, or the thread is done.          *)
GetNextBlocksToCopy(t) ==
    /\ pc[t] = "copyNext"
    /\ LET end == IF copyIndex + Fragment < Len(blocksToCopy)
                  THEN copyIndex + Fragment ELSE Len(blocksToCopy) IN
       /\ todo' = [todo EXCEPT ![t] = SubSeq(blocksToCopy, copyIndex + 1, end)]
       /\ copyIndex' = end
       /\ GoTo(t, IF copyIndex < end THEN "copy" ELSE "copyDone")
    /\ UNCHANGED <<asleep, phaseVars, blocksToCopy, copiedSpaceVars>>

(* The fragment is finished, or its next block has no work list.           *)
SkipBlock(t) ==
    /\ pc[t] = "copy"
    /\ IF todo[t] = <<>> THEN GoTo(t, "copyNext") /\ UNCHANGED todo
       ELSE /\ workList[Head(todo[t])] = {}
            /\ todo' = [todo EXCEPT ![t] = Tail(@)]
            /\ UNCHANGED pc
    /\ UNCHANGED <<asleep, phaseVars, blocksToCopy, copyIndex, copiedSpaceVars>>

(* visitItem for cell c on the work list of the next block.  If the        *)
(* borrowed block is full it is exchanged (allocateNewSpaceSlow) and goes  *)
(* to to-space.  After the last item the evacuated block is recycled.      *)
CopyItem(t, c) ==
    /\ pc[t] = "copy" /\ todo[t] # <<>>
    /\ LET b == Head(todo[t])
           full == DataSize(store, borrowed[t]) >= Capacity
           block == IF full THEN FreeBlock(InUse) ELSE borrowed[t]
           last == workList[b] = {c}
           moved == [store EXCEPT ![c] = block] IN
       /\ c \in workList[b]
       /\ workList' = [workList EXCEPT ![b] = @ \ {c}]
       /\ liveBytes' = [liveBytes EXCEPT ![b] = @ - 1]
       /\ borrowed' = [borrowed EXCEPT ![t] = block]
       /\ toSpace' = IF full THEN toSpace \cup {borrowed[t]} ELSE toSpace
       /\ fromSpace' = IF last THEN fromSpace \ {b} ELSE fromSpace
       /\ store' = IF last THEN Deallocate(moved, {b}) ELSE moved
       /\ todo' = IF last THEN [todo EXCEPT ![t] = Tail(@)] ELSE todo
    /\ UNCHANGED <<pc, asleep, phaseVars, blocksToCopy, copyIndex, pinned, loaned,
                   inCopyingPhase>>

DoneCopyingFaulty(t, next) ==
    /\ pc[t] = "copyDone"
    /\ borrowed' = [borrowed EXCEPT ![t] = NoBlock]
    /\ toSpace' = IF borrowed[t] # NoBlock /\ DataSize(store, borrowed[t]) > 0
                  THEN toSpace \cup {borrowed[t]} ELSE toSpace
    /\ loaned' = IF borrowed[t] # NoBlock THEN loaned - 1 ELSE loaned
    /\ asleep' = IF loaned = 0 THEN asleep \ At({"loanWait"}) ELSE asleep
    /\ GoTo(t, next)
    /\ UNCHANGED <<phaseVars, store, fromSpace, reportVars, inCopyingPhase, copyVars>>

(* doneCopying of a thread: its block goes to to-space, or back to the     *)
(* block allocator if it is empty; the last one wakes up the main thread.  *)
DoneCopying(t, next) ==
    /\ pc[t] = "copyDone"
    /\ borrowed' = [borrowed EXCEPT ![t] = NoBlock]
    /\ toSpace' = IF borrowed[t] # NoBlock /\ DataSize(store, borrowed[t]) > 0
                  THEN toSpace \cup {borrowed[t]} ELSE toSpace
    /\ loaned' = IF borrowed[t] # NoBlock THEN loaned - 1 ELSE loaned
    /\ asleep' = IF loaned' = 0 THEN asleep \ At({"loanWait"}) ELSE asleep
    /\ GoTo(t, next)
    /\ UNCHANGED <<phaseVars, store, fromSpace, reportVars, inCopyingPhase, copyVars>>
=============================================================================
