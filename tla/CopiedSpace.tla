----------------------------- MODULE CopiedSpace -----------------------------
(***************************************************************************)
(* The space of backing stores (CopiedSpace.cpp, CopiedBlock.h): blocks in *)
(* to-space and from-space, and the blocks lent to the threads that copy.  *)
(* A backing store has size one; a block holds Capacity of them.           *)
(***************************************************************************)
EXTENDS GCThreadSharedData

CONSTANTS
    Cell,
    Block,          \* the blocks of the block allocator, numbers
    InitStore,      \* the block of a cell's backing store, NoBlock without
    NoBlock,
    Capacity,       \* stores in a block
    EvacuateLimit   \* a block with more live stores stays where it is

ASSUME BlockAssumption ==
    /\ Block \subseteq Nat /\ NoBlock \notin Block
    /\ InitStore \in [Cell -> Block \cup {NoBlock}]
    /\ Capacity \in Nat \ {0} /\ EvacuateLimit \in Nat

(* The code never handles a failed allocation (Region.h:180 asserts that   *)
(* there is none): there are blocks enough for every backing store to have *)
(* one of its own and for every thread to have borrowed one.               *)
ASSUME MemoryAssumption ==
    /\ IsFiniteSet(Cell)
    /\ \E blocks \in SUBSET Block :
          /\ IsFiniteSet(blocks)
          /\ Cardinality(blocks) > Cardinality(Thread)
          /\ Cardinality(blocks) >= Cardinality({c \in Cell : InitStore[c] # NoBlock})
                                      + Cardinality(Thread)

VARIABLES
    store,          \* where each cell's backing store is
    toSpace, fromSpace,
    pinned,         \* the blocks with m_isPinned
    liveBytes,      \* m_liveBytes
    workList,       \* m_workList: the cells whose store is to be copied
    inCopyingPhase, \* m_inCopyingPhase
    loaned,         \* m_numberOfLoanedBlocks
    borrowed        \* the block each thread's CopiedAllocator fills

spaceVars == <<toSpace, fromSpace>>
reportVars == <<pinned, liveBytes, workList>>
loanVars == <<loaned, borrowed, inCopyingPhase>>
copiedSpaceVars == <<store, spaceVars, reportVars, loanVars>>

CopiedSpaceInit ==
    /\ store = InitStore
    /\ toSpace = {InitStore[c] : c \in Cell} \ {NoBlock}
    /\ fromSpace = {}
    /\ pinned = {}
    /\ liveBytes = [b \in Block |-> 0]
    /\ workList = [b \in Block |-> {}]
    /\ inCopyingPhase = FALSE
    /\ loaned = 0
    /\ borrowed = [t \in Thread |-> NoBlock]

-----------------------------------------------------------------------------
(* reportLiveBytes, called by copyLater when cell c is visited: a block    *)
(* that is worth copying gets c on its work list, another one is pinned.   *)
ReportLiveBytesFaulty(c) ==
    LET b == store[c] IN
    IF b = NoBlock THEN UNCHANGED reportVars
    ELSE /\ liveBytes' = [liveBytes EXCEPT ![b] = @ + 1]
         /\ IF b \in pinned \/ liveBytes[b] + 1 <= EvacuateLimit
            THEN /\ workList' = IF b \in pinned THEN workList
                                ELSE [workList EXCEPT ![b] = @ \cup {c}]
                 /\ UNCHANGED pinned
            ELSE /\ pinned' = pinned \cup {b}
                 /\ UNCHANGED workList

ReportLiveBytes(c) ==
    LET b == store[c] IN
    IF b = NoBlock THEN UNCHANGED reportVars
    ELSE /\ liveBytes' = [liveBytes EXCEPT ![b] = @ + 1]
         /\ IF b \in pinned THEN UNCHANGED <<pinned, workList>>
            ELSE IF liveBytes[b] + 1 <= EvacuateLimit
            THEN /\ workList' = [workList EXCEPT ![b] = @ \cup {c}]
                 /\ UNCHANGED pinned
            ELSE /\ pinned' = pinned \cup {b}
                 /\ workList' = [workList EXCEPT ![b] = {}]

(* didSurviveGC of every block, and conservative roots that point into the *)
(* blocks of `pins'.                                                       *)
ForgetReports(pins) ==
    /\ pinned' = pins
    /\ liveBytes' = [b \in Block |-> 0]
    /\ workList' = [b \in Block |-> {}]

-----------------------------------------------------------------------------
InUse == toSpace \cup fromSpace \cup ({borrowed[t] : t \in Thread} \ {NoBlock})

(* The block allocator hands out a block nobody uses.                      *)
FreeBlock(used) == CHOOSE b \in Block \ used : \A a \in Block \ used : b <= a

(* Stores still pointing into a block that is deallocated are gone.        *)
Deallocate(s, blocks) == [c \in Cell |-> IF s[c] \in blocks THEN NoBlock ELSE s[c]]

DataSize(s, b) == Cardinality({c \in Cell : s[c] = b})

(* startedCopying: the spaces are swapped, and the blocks without live     *)
(* stores recycled.                                                        *)
Recyclable == {b \in toSpace \ pinned : liveBytes[b] = 0}

SwapSpaces ==
    /\ fromSpace' = toSpace \ Recyclable
    /\ toSpace' = {}
    /\ store' = Deallocate(store, Recyclable)

(* doneCopying: what is left in from-space goes back to to-space, and if   *)
(* to-space is empty then, allocateBlock gives it a block.                 *)
KeepBlocks(to, left) ==
    /\ fromSpace' = {}
    /\ toSpace' = IF to \cup left # {} THEN to \cup left ELSE {FreeBlock({})}
    /\ ForgetReports({})
=============================================================================
