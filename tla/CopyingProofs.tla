---------------------------- MODULE CopyingProofs ----------------------------
(***************************************************************************)
(* What parallel copying keeps, for any heap and any number of GC threads: *)
(* the types, the blocks on loan, the blocks that are evacuated and the    *)
(* backing stores of the cells that are alive.                             *)
(*                                                                         *)
(* The proofs go by the invariant CInv, on top of the ones of HeapProofs   *)
(* (IInv: who is where; MInv: what is marked).  Loans ties a lent          *)
(* block to the place of the thread that has it; Spaces says that blocks   *)
(* in use hold stores, which bounds how many there are; Reports follows    *)
(* every marked cell from reportLiveBytes to the copy of its store;        *)
(* CopyWork says that a block that is still to be evacuated is on some     *)
(* thread's list; Survivors carries stores over from one collection to     *)
(* the next, whose marking starts from nothing.                            *)
(***************************************************************************)
EXTENDS HeapProofs

Copying == pc[Main] \in CopyPlace \cup {"copyOwn", "loanWait"}
Reporting == Tracing \/ Copying \/ pc[Main] \in {"markWait", "startCopy"}

(* The threads that have a block on loan.                                  *)
Borrows(t) ==
    \/ pc[t] \in CopyPlace
    \/ t # Main /\ pc[t] = "nextPhaseWait" /\ phase = "Copy"

CopyTypes ==
    /\ store \in [Cell -> Block \cup {NoBlock}]
    /\ toSpace \subseteq Block /\ fromSpace \subseteq Block /\ pinned \subseteq Block
    /\ liveBytes \in [Block -> Nat] /\ workList \in [Block -> SUBSET Cell]
    /\ inCopyingPhase \in BOOLEAN /\ borrowed \in [Thread -> Block \cup {NoBlock}]
    /\ copyIndex \in Nat /\ collections \in Nat
    /\ blocksToCopy \in Seq(Block) /\ todo \in [Thread -> Seq(Block)]

Loans ==
    /\ inCopyingPhase <=> Copying
    /\ \A t \in Thread : /\ borrowed[t] # NoBlock <=> Borrows(t)
                         /\ Borrows(t) => Copying
    /\ loaned = Cardinality({t \in Thread : borrowed[t] # NoBlock})
    /\ \A t, u \in Thread : borrowed[t] = borrowed[u] /\ borrowed[t] # NoBlock => t = u
    /\ \A t \in Thread : borrowed[t] \notin toSpace \cup fromSpace

Holds(b) == \E c \in Cell : store[c] = b
AllGone == \A c \in Cell : store[c] = NoBlock

Spaces ==
    /\ ~Copying => fromSpace = {}
    /\ toSpace \cap fromSpace = {}
    /\ \A c \in Cell : store[c] = NoBlock \/ store[c] \in InUse
    /\ \/ \A b \in toSpace \cup fromSpace : Holds(b)
       \/ AllGone /\ \E b \in Block : toSpace \cup fromSpace = {b}

(* A marked cell whose store a copying phase, if there is one, will move,  *)
(* or leaves in place, or has moved.                                       *)
Handled(c) ==
    \/ Stacked(c)
    \/ store[c] = NoBlock
    \/ store[c] \in pinned
    \/ c \in workList[store[c]]
    \/ Copying /\ store[c] \notin fromSpace

Reports ==
    /\ \A b \in Block : /\ workList[b] # {} => b \notin pinned
                        /\ \A c \in workList[b] : store[c] = b
                        /\ Cardinality(workList[b]) <= liveBytes[b]
    /\ ~Copying => \A b \in Block \ pinned : liveBytes[b] > 0 => workList[b] # {}
    /\ Copying => \A b \in Block : workList[b] # {} <=> b \in fromSpace \ pinned
    /\ Reporting => \A c \in marked : Handled(c)

Listed(b) ==
    \/ \E i \in copyIndex + 1 .. Len(blocksToCopy) : blocksToCopy[i] = b
    \/ \E t \in Thread : \E i \in DOMAIN todo[t] : todo[t][i] = b

CopyWork ==
    /\ copyIndex <= Len(blocksToCopy)
    /\ \A t \in Thread : todo[t] # <<>> => pc[t] = "copy"
    /\ Copying => \A b \in fromSpace \ pinned : Listed(b)
    /\ pc[Main] = "loanWait" \/ (\E t \in Thread : pc[t] = "copyDone") =>
          copyIndex = Len(blocksToCopy)

(* The cells whose stores are needed.                                      *)
Needed(c) == collections = 0 \/ c \in marked \/ (Marking /\ c \in LiveFrom(roots))

Survivors ==
    /\ pc[Main] \notin {"startWait", "mutator", "join", "destroyed"} => collections > 0
    /\ ~Marking /\ collections > 0 => LiveFrom(roots) \subseteq marked
    /\ \A c \in Cell : IF InitStore[c] = NoBlock THEN store[c] = NoBlock
                       ELSE Needed(c) => store[c] # NoBlock

CInv == CopyTypes /\ Loans /\ Spaces /\ Reports /\ CopyWork /\ Survivors

-----------------------------------------------------------------------------
(* The block allocator and the list of blocks.                             *)

(* A non-empty set of numbers has a least one, so FreeBlock finds a block. *)
LEMMA FreeBlockIs ==
    ASSUME NEW used, Block \ used # {}
    PROVE  FreeBlock(used) \in Block \ used
  <1> DEFINE R == OpToRel(<, Nat)
             free == Block \ used
  <1>1. free \subseteq Nat /\ free # {}
    BY BlockAssumption
  <1>2. \A i, j \in Nat : <<j, i>> \in R <=> j < i
    BY DEF OpToRel
  <1>3. IsWellFoundedOn(R, Nat)
    BY NatLessThanWellFounded
  <1> HIDE DEF R, free
  <1>4. PICK i \in free : \A j \in free : ~(<<j, i>> \in R)
    BY <1>1, <1>3, WFMin, Zenon
  <1>5. \A j \in free : i <= j
    <2> TAKE j \in free
    <2>1. i \in Nat /\ j \in Nat
      BY <1>1
    <2>2. ~(j < i)
      BY <1>2, <1>4, <2>1, Zenon
    <2> QED
      BY <2>1, <2>2
  <1> QED
    BY <1>5 DEF FreeBlock, free

LEMMA InjectionExists ==
    ASSUME NEW S, NEW T, IsFiniteSet(S), IsFiniteSet(T), Cardinality(S) <= Cardinality(T)
    PROVE  \E f \in [S -> T] : \A x, y \in S : f[x] = f[y] => x = y
  <1>1. Cardinality(S) \in Nat /\ Cardinality(T) \in Nat
    BY FS_CardinalityType
  <1>2. PICK g \in Bijection(1 .. Cardinality(S), S) : TRUE
    BY FS_CardinalityType DEF ExistsBijection
  <1>3. PICK h \in Bijection(1 .. Cardinality(T), T) : TRUE
    BY FS_CardinalityType DEF ExistsBijection
  <1> DEFINE index(x) == CHOOSE i \in 1 .. Cardinality(S) : g[i] = x
             f == [x \in S |-> h[index(x)]]
  <1>4. \A x \in S : index(x) \in 1 .. Cardinality(S) /\ g[index(x)] = x
    BY <1>2 DEF Bijection, Surjection
  <1> HIDE DEF index
  <1>5. \A x \in S : index(x) \in 1 .. Cardinality(T)
    BY <1>1, <1>4
  <1>6. /\ h \in [1 .. Cardinality(T) -> T]
        /\ \A i, j \in 1 .. Cardinality(T) : h[i] = h[j] => i = j
    BY <1>3 DEF Bijection, Injection, IsInjective
  <1>7. f \in [S -> T]
    BY <1>5, <1>6
  <1>8. \A x, y \in S : f[x] = f[y] => x = y
    BY <1>4, <1>5, <1>6
  <1> QED
    BY <1>7, <1>8

LEMMA SetToSeqIs ==
    ASSUME NEW S, IsFiniteSet(S)
    PROVE  /\ SetToSeq(S) \in Seq(S)
           /\ \A x \in S : \E i \in 1 .. Len(SetToSeq(S)) : SetToSeq(S)[i] = x
  <1> DEFINE n == Cardinality(S)
  <1>1. n \in Nat /\ \E f \in [1 .. n -> S] : IsInjective(f)
    BY FS_CardinalityType DEF ExistsBijection, Bijection, Injection
  <1>2. SetToSeq(S) \in [1 .. n -> S] /\ IsInjective(SetToSeq(S))
    BY <1>1 DEF SetToSeq
  <1> HIDE DEF n
  <1>3. SetToSeq(S) \in Injection(1 .. n, S)
    BY <1>2 DEF Injection
  <1>4. IsFiniteSet(1 .. n) /\ Cardinality(1 .. n) = n
    BY <1>1, FS_Interval
  <1>5. SetToSeq(S) \in Surjection(1 .. n, S)
    BY <1>3, <1>4, FS_Injection DEF n
  <1>6. SetToSeq(S) \in Seq(S) /\ Len(SetToSeq(S)) = n
    BY <1>1, <1>2
  <1> QED
    BY <1>5, <1>6 DEF Surjection

(* An image is no larger than what it is the image of.                     *)
LEMMA ImageBound ==
    ASSUME NEW S, IsFiniteSet(S), NEW f
    PROVE  IsFiniteSet({f[x] : x \in S}) /\ Cardinality({f[x] : x \in S}) <= Cardinality(S)
  <1> DEFINE T == {f[x] : x \in S}
             g == [x \in S |-> f[x]]
  <1>1. g \in Surjection(S, T)
    BY DEF Surjection
  <1> HIDE DEF g, T
  <1>2. IsFiniteSet(T) /\ Cardinality(T) <= Cardinality(S)
    BY <1>1, FS_Surjection
  <1> QED
    BY <1>2 DEF T

(* If the blocks in use hold stores or are lent to threads of ts, as many  *)
(* blocks are free as there are other threads.                             *)
LEMMA EnoughBlocks ==
    ASSUME NEW ts \in SUBSET Thread, NEW used,
           \A c \in Cell : InitStore[c] = NoBlock => store[c] = NoBlock,
           \/ \A b \in used : \/ b # NoBlock /\ Holds(b)
                              \/ \E t \in ts : b = borrowed[t]
           \/ \E x : \A b \in used : b = x \/ \E t \in ts : b = borrowed[t]
    PROVE  \E free \in SUBSET (Block \ used) :
              /\ IsFiniteSet(free)
              /\ Cardinality(free) >= Cardinality(Thread) - Cardinality(ts)
  <1> DEFINE owners == {c \in Cell : InitStore[c] # NoBlock}
             holding == {store[c] : c \in owners}
             lent == {borrowed[t] : t \in ts}
  <1>1. /\ IsFiniteSet(owners) /\ IsFiniteSet(ts) /\ IsFiniteSet(Thread)
    BY ThreadFacts, MemoryAssumption, FS_Subset
  <1>2. PICK all \in SUBSET Block : /\ IsFiniteSet(all)
                                    /\ Cardinality(all) > Cardinality(Thread)
                                    /\ Cardinality(all) >= Cardinality(owners) + Cardinality(Thread)
    BY MemoryAssumption
  <1>3. /\ IsFiniteSet(holding) /\ Cardinality(holding) <= Cardinality(owners)
        /\ IsFiniteSet(lent) /\ Cardinality(lent) <= Cardinality(ts)
    BY <1>1, ImageBound
  <1>4. /\ \A x \in {Cardinality(owners), Cardinality(holding), Cardinality(lent), Cardinality(ts),
                     Cardinality(Thread), Cardinality(all)} : x \in Nat
    BY <1>1, <1>2, <1>3, FS_CardinalityType
  <1>5. ASSUME NEW over, IsFiniteSet(over), used \subseteq over,
               Cardinality(over) + Cardinality(Thread) <= Cardinality(all) + Cardinality(ts)
        PROVE  \E free \in SUBSET (Block \ used) :
                  /\ IsFiniteSet(free)
                  /\ Cardinality(free) >= Cardinality(Thread) - Cardinality(ts)
    <2> DEFINE free == all \ over
               both == all \cup over
    <2>1. IsFiniteSet(both) /\ IsFiniteSet(free) /\ free \cap over = {} /\ both = free \cup over
      BY <1>2, <1>5, FS_Union, FS_Subset
    <2>2. Cardinality(both) = Cardinality(free) + Cardinality(over) - Cardinality(free \cap over)
      BY <1>5, <2>1, FS_Union
    <2>3. Cardinality(free \cap over) = 0 /\ all \subseteq both
      BY <2>1, FS_EmptySet
    <2>4. Cardinality(all) <= Cardinality(both)
      BY <2>1, <2>3, FS_Subset
    <2>5. \A x \in {Cardinality(both), Cardinality(free), Cardinality(over)} : x \in Nat
      BY <1>5, <2>1, FS_CardinalityType
    <2>6. Cardinality(free) >= Cardinality(Thread) - Cardinality(ts)
      BY <1>4, <1>5, <2>2, <2>3, <2>4, <2>5
    <2>7. free \in SUBSET (Block \ used)
      BY <1>2, <1>5
    <2> QED
      BY <2>1, <2>6, <2>7
  <1>6. CASE \A b \in used : (b # NoBlock /\ Holds(b)) \/ \E t \in ts : b = borrowed[t]
    <2> DEFINE over == holding \cup lent
    <2>1. used \subseteq over
      BY <1>6 DEF Holds
    <2> HIDE DEF holding, lent, owners
    <2>2. /\ IsFiniteSet(over) /\ IsFiniteSet(holding \cap lent)
          /\ Cardinality(over) = Cardinality(holding) + Cardinality(lent) - Cardinality(holding \cap lent)
      BY <1>3, FS_Union, FS_Subset
    <2>3. Cardinality(holding \cap lent) \in Nat /\ Cardinality(over) \in Nat
      BY <2>2, FS_CardinalityType
    <2>4. Cardinality(over) + Cardinality(Thread) <= Cardinality(all) + Cardinality(ts)
      BY <1>2, <1>3, <1>4, <2>2, <2>3
    <2> QED
      BY <1>5, <2>1, <2>2, <2>4
  <1>7. CASE \E x : \A b \in used : b = x \/ \E t \in ts : b = borrowed[t]
    <2>1. PICK x : \A b \in used : b = x \/ \E t \in ts : b = borrowed[t]
      BY <1>7
    <2> DEFINE over == lent \cup {x}
    <2>2. used \subseteq over
      BY <2>1
    <2> HIDE DEF holding, lent, owners
    <2>3. /\ IsFiniteSet(over)
          /\ Cardinality(over) = IF x \in lent THEN Cardinality(lent) ELSE Cardinality(lent) + 1
      BY <1>3, FS_AddElement
    <2>4. Cardinality(over) + Cardinality(Thread) <= Cardinality(all) + Cardinality(ts)
      BY <1>2, <1>3, <1>4, <2>3
    <2> QED
      BY <1>5, <2>2, <2>3, <2>4
  <1> QED
    BY <1>6, <1>7

-----------------------------------------------------------------------------
(* Steps that leave the copied space alone.                                *)
USE DEF phaseVars, stackVars, opaqueVars, spaceVars, reportVars, loanVars, copiedSpaceVars,
        copyVars

SamePlaces ==
    /\ Copying' <=> Copying
    /\ \A t \in Thread : Borrows(t)' <=> Borrows(t)
    /\ \A t \in Thread : pc[t] = "copy" => pc'[t] = "copy"
    /\ pc'[Main] = "loanWait" \/ (\E t \in Thread : pc'[t] = "copyDone") =>
          pc[Main] = "loanWait" \/ (\E t \in Thread : pc[t] = "copyDone")
    /\ Reporting' => Reporting

(* The mutator's places, where nothing is collected.                       *)
Free == pc[Main] \in {"startWait", "mutator", "join", "destroyed"}

LEMMA SurvivorsKept ==
    ASSUME IInv, RootTypes, MInv, QuietWhenDrained, MInv', Survivors, AbstractStep, ~Begins,
           UNCHANGED collections, Free => Free',
           \A c \in Cell : /\ store[c] = NoBlock => store'[c] = NoBlock
                           /\ Needed(c)' /\ store[c] # NoBlock => store'[c] # NoBlock
    PROVE  Survivors'
  <1>1. /\ ~Marking' /\ collections' > 0 => LiveFrom(roots') \subseteq marked'
        /\ \A c \in Cell : Needed(c)' => Needed(c)
    <2>1. CASE Stutters
      BY <2>1 DEF Stutters, Survivors, Needed
    <2>2. CASE Grows
      BY <2>2 DEF Grows, Survivors, Needed, MInv, Tracing
    <2>3. CASE Mutates
      BY <2>3 DEF Mutates, Survivors, Needed
    <2>4. CASE Finishes
      BY <2>4, FinishedIsLive DEF Finishes, Survivors, Needed
    <2> QED
      BY <2>1, <2>2, <2>3, <2>4 DEF AbstractStep
  <1>2. ~Free' => collections' > 0
    BY DEF Survivors, Free
  <1>3. \A c \in Cell : IF InitStore[c] = NoBlock THEN store'[c] = NoBlock
                        ELSE Needed(c)' => store'[c] # NoBlock
    BY <1>1 DEF Survivors
  <1> QED
    BY <1>1, <1>2, <1>3 DEF Survivors, Free

LEMMA UntouchedKeeps ==
    ASSUME IInv, RootTypes, MInv, QuietWhenDrained, MInv', CInv, AbstractStep, ~Begins,
           UNCHANGED <<copiedSpaceVars, copyVars, collections>>, Free => Free', SamePlaces,
           \A c \in Cell : Stacked(c) => Stacked(c)',
           \A c \in marked' : c \in marked \/ Stacked(c)'
    PROVE  CInv'
  <1>1. UNCHANGED <<store, toSpace, fromSpace, pinned, liveBytes, workList, loaned, borrowed,
                    inCopyingPhase, blocksToCopy, copyIndex, todo, collections>>
    OBVIOUS
  <1>2. CopyTypes'
    BY <1>1 DEF CInv, CopyTypes
  <1>3. Loans'
    BY <1>1 DEF CInv, Loans, SamePlaces
  <1>4. Spaces'
    BY <1>1 DEF CInv, Spaces, SamePlaces, Holds, AllGone, InUse
  <1>5. Reports'
    <2>1. ASSUME Reporting', NEW c \in marked' PROVE Handled(c)'
      <3>1. Reporting
        BY <2>1 DEF SamePlaces
      <3>2. CASE Stacked(c)'
        BY <3>2 DEF Handled
      <3>3. CASE ~Stacked(c)'
        <4>1. c \in marked /\ c \in Cell /\ ~Stacked(c)
          BY <3>3 DEF IInv, PhaseTypes
        <4>2. Handled(c)
          BY <3>1, <4>1 DEF CInv, Reports
        <4> QED
          BY <1>1, <4>1, <4>2 DEF Handled, SamePlaces
      <3> QED
        BY <3>2, <3>3
    <2> QED
      BY <1>1, <2>1 DEF CInv, Reports, SamePlaces
  <1>6. CopyWork'
    BY <1>1 DEF CInv, CopyWork, SamePlaces, Listed
  <1>7. Survivors'
    BY <1>1, SurvivorsKept DEF CInv
  <1> QED
    BY <1>2, <1>3, <1>4, <1>5, <1>6, <1>7 DEF CInv

(* Moving a thread between places that have nothing to do with copying.    *)
LEMMA MoveIsSame ==
    ASSUME IInv, NEW t \in Thread, NEW q, pc' = [pc EXCEPT ![t] = q],
           \A p \in {pc[t], q} : p \notin CopyPlace \cup {"copyOwn", "loanWait"},
           \/ phase # "Copy" /\ phase' # "Copy"
           \/ phase' = phase /\ \A p \in {pc[t], q} : p # "nextPhaseWait",
           t = Main => Reporting \/ q \notin TracePlace \cup {"weak", "finish", "endMark", "markWait",
                                                             "startCopy"}
    PROVE  SamePlaces
  <1>1. \A u \in Thread : pc'[u] = IF u = t THEN q ELSE pc[u]
    BY DEF IInv, PhaseTypes
  <1>2. Main \in Thread /\ pc'[Main] = IF t = Main THEN q ELSE pc[Main]
    BY <1>1, ThreadFacts
  <1>3. Copying' <=> Copying
    BY <1>2 DEF Copying
  <1>4. \A u \in Thread : Borrows(u)' <=> Borrows(u)
    BY <1>1 DEF Borrows
  <1>5. Reporting' => Reporting
    BY <1>2, <1>3 DEF Reporting, Tracing, Marking, TracePlace
  <1>6. /\ \A u \in Thread : (pc[u] = "copy" => pc'[u] = "copy")
        /\ pc'[Main] = "loanWait" => pc[Main] = "loanWait"
        /\ \A u \in Thread : pc'[u] = "copyDone" => pc[u] = "copyDone"
    BY <1>1, <1>2 DEF CopyPlace
  <1> QED
    BY <1>3, <1>4, <1>5, <1>6 DEF SamePlaces

LEMMA StayIsSame ==
    ASSUME pc' = pc, phase' = phase
    PROVE  SamePlaces
  BY DEF SamePlaces, Copying, Borrows, Reporting, Tracing, Marking

Before == IInv /\ RootTypes /\ MInv /\ QuietWhenDrained /\ CInv
After == IInv' /\ RootTypes' /\ MInv' /\ AbstractStep

MarkPlace == TracePlace \cup {"weak", "finish", "endMark"}

(* A step of marking that reports no backing store.                        *)
LEMMA MarkMoveKeeps ==
    ASSUME Before, After, NEW t \in Thread, NEW q, pc' = [pc EXCEPT ![t] = q],
           pc[t] \in MarkPlace \ {"endMark"}, q \in MarkPlace \/ (t # Main /\ q = "phaseWait"), phase' = phase,
           UNCHANGED <<copiedSpaceVars, copyVars, collections>>,
           \A c \in Cell : Stacked(c) => Stacked(c)',
           \A c \in marked' : c \in marked \/ Stacked(c)'
    PROVE  CInv'
  <1>1. pc'[Main] = IF t = Main THEN q ELSE pc[Main]
    BY OtherThread DEF Before
  <1>2. t = Main => Reporting
    BY DEF Reporting, Tracing, Marking, MarkPlace, TracePlace
  <1>3. SamePlaces
    <2>1. /\ \A p \in {pc[t], q} : p \notin CopyPlace \cup {"copyOwn", "loanWait", "nextPhaseWait"}
      BY DEF MarkPlace, TracePlace, CopyPlace
    <2> QED
      BY <1>2, <2>1, MoveIsSame DEF Before
  <1>4. Free => Free'
    BY <1>1 DEF Free, MarkPlace, TracePlace
  <1>5. ~Begins
    BY <1>1 DEF Begins, Marking, MarkPlace, TracePlace
  <1> QED
    BY <1>3, <1>4, <1>5, UntouchedKeeps DEF Before, After

LEMMA ThreadMarks ==
    ASSUME Before, After, NEW t \in Thread, UNCHANGED <<copyVars, heapVars>>,
           \/ Drained(t, "drain", "share") \/ Donate(t) \/ EnterDrain(t) \/ Share(t) \/ WakeMarker(t)
    PROVE  CInv'
  <1>0. stack \in [Thread -> SUBSET Cell] /\ UNCHANGED collections
    BY DEF Before, IInv, PhaseTypes, heapVars
  <1>1. CASE Drained(t, "drain", "share") \/ EnterDrain(t)
    <2>1. /\ UNCHANGED <<copiedSpaceVars, marked, sharedStack, stack, phase>>
          /\ pc' = [pc EXCEPT ![t] = "share"] /\ pc[t] \in {"drain", "enter"}
      BY <1>1 DEF Drained, EnterDrain, GoTo, MarkPlace, TracePlace
    <2>2. \A c \in Cell : Stacked(c) => Stacked(c)'
      BY <2>1 DEF Stacked
    <2> QED
      BY <1>0, <2>1, <2>2, MarkMoveKeeps DEF MarkPlace, TracePlace
  <1>2. CASE Donate(t)
    <2>1. UNCHANGED <<copiedSpaceVars, marked, phase>> /\ pc[t] \in {"donate", "rootDonate"}
      BY <1>2 DEF Donate
    <2>2. PICK q \in {"drain", "rootDrain"} : pc' = [pc EXCEPT ![t] = q]
      BY <1>2 DEF Donate, GoTo
    <2>3. PICK d \in SUBSET stack[t] : /\ sharedStack' = sharedStack \cup d
                                       /\ stack' = [stack EXCEPT ![t] = @ \ d]
      BY <1>2 DEF Donate
    <2>4. \A c \in Cell : Stacked(c) => Stacked(c)'
      BY <1>0, <2>3 DEF Stacked
    <2> QED
      BY <1>0, <2>1, <2>2, <2>4, MarkMoveKeeps DEF MarkPlace, TracePlace
  <1>3. CASE Share(t) \/ WakeMarker(t)
    <2>1. UNCHANGED <<copiedSpaceVars, marked, phase>> /\ pc[t] \in {"share", "markingWait"}
      BY <1>3 DEF Share, WakeMarker
    <2>2. Looked(t)
      <3>1. CASE t = Main
        BY <1>3, <3>1, MasterLooked DEF Share, WakeMarker
      <3>2. CASE t # Main
        BY <1>3, <3>2, SlaveLooked DEF Share, WakeMarker
      <3> QED
        BY <3>1, <3>2
    <2>3. \A c \in Cell : Stacked(c) => Stacked(c)'
      BY <1>0, <2>2 DEF Stacked, Looked
    <2>4. PICK q \in {"drain", "markingWait", "phaseWait", "weak"} :
              pc' = [pc EXCEPT ![t] = q] /\ (q = "phaseWait" => t # Main)
      BY <2>2 DEF Looked
    <2> QED
      BY <1>0, <2>1, <2>3, <2>4, MarkMoveKeeps DEF MarkPlace, TracePlace
  <1> QED
    BY <1>1, <1>2, <1>3

LEMMA MainMarks ==
    ASSUME Before, After, AppendRoots \/ RootsDrained \/ VisitWeak \/ FinishMarking
    PROVE  CInv'
  <1>0. stack \in [Thread -> SUBSET Cell] /\ UNCHANGED collections /\ Main \in Thread
    BY ThreadFacts DEF Before, IInv, PhaseTypes, heapVars, AppendRoots, RootsDrained, VisitWeak, FinishMarking
  <1>1. ASSUME NEW cells, InternalAppend(Main, stack[Main], cells), UNCHANGED sharedStack
        PROVE  /\ \A c \in Cell : Stacked(c) => Stacked(c)'
               /\ \A c \in marked' : c \in marked \/ Stacked(c)'
    BY <1>0, <1>1 DEF InternalAppend, Stacked
  <1>2. CASE AppendRoots
    <2>1. /\ UNCHANGED <<copiedSpaceVars, copyVars, sharedStack, phase>> /\ pc[Main] = "roots"
          /\ InternalAppend(Main, stack[Main], roots[group + 1])
      BY <1>2 DEF AppendRoots
    <2>2. PICK q \in {"rootDrain", "rootDonate"} : pc' = [pc EXCEPT ![Main] = q]
      BY <1>2, AfterVisitsIs DEF AppendRoots
    <2>3. /\ \A c \in Cell : Stacked(c) => Stacked(c)'
          /\ \A c \in marked' : c \in marked \/ Stacked(c)'
      BY <1>1, <2>1
    <2> QED
      BY <1>0, <2>1, <2>2, <2>3, MarkMoveKeeps DEF MarkPlace, TracePlace
  <1>3. CASE VisitWeak
    <2>1. /\ UNCHANGED <<copiedSpaceVars, copyVars, sharedStack, phase>> /\ pc[Main] = "weak"
          /\ InternalAppend(Main, stack[Main], WeaklyHeld(marked, opaqueRoots))
      BY <1>3 DEF VisitWeak
    <2>2. PICK q \in {"rootDrain", "rootDonate", "finish"} : pc' = [pc EXCEPT ![Main] = q]
      <3>1. CASE stack'[Main] = {}
        BY <1>3, <3>1 DEF VisitWeak, GoTo
      <3>2. CASE stack'[Main] # {}
        BY <1>3, <3>2, AfterVisitsIs DEF VisitWeak
      <3> QED
        BY <3>1, <3>2
    <2>3. /\ \A c \in Cell : Stacked(c) => Stacked(c)'
          /\ \A c \in marked' : c \in marked \/ Stacked(c)'
      BY <1>1, <2>1
    <2> QED
      BY <1>0, <2>1, <2>2, <2>3, MarkMoveKeeps DEF MarkPlace, TracePlace
  <1>4. CASE RootsDrained \/ FinishMarking
    <2>1. /\ UNCHANGED <<copiedSpaceVars, copyVars, marked, stackVars, phase>>
          /\ pc[Main] \in {"rootDrain", "finish"}
      BY <1>4 DEF RootsDrained, Drained, FinishMarking
    <2>2. PICK q \in {"roots", "enter", "endMark"} : pc' = [pc EXCEPT ![Main] = q]
      BY <1>4 DEF RootsDrained, Drained, FinishMarking, GoTo
    <2>3. \A c \in Cell : Stacked(c) => Stacked(c)'
      BY <2>1 DEF Stacked
    <2> QED
      BY <1>0, <2>1, <2>2, <2>3, MarkMoveKeeps DEF MarkPlace, TracePlace
  <1> QED
    BY <1>2, <1>3, <1>4

(* Steps of the phases, in which nobody marks or copies.                   *)
LEMMA PlainKeeps ==
    ASSUME Before, After, UNCHANGED <<copiedSpaceVars, copyVars, collections, marked, stackVars>>,
           SamePlaces, Free => Free', Marking' => Marking
    PROVE  CInv'
  <1>1. \A c \in Cell : Stacked(c) => Stacked(c)'
    BY DEF Stacked
  <1>2. ~Begins
    BY DEF Begins
  <1> QED
    BY <1>1, <1>2, UntouchedKeeps DEF Before, After

LEMMA WorkerWaits ==
    ASSUME Before, After, NEW t \in Worker, WaitForNextPhase(t) \/ NextPhase(t),
           UNCHANGED <<markVars, copiedSpaceVars, copyVars, heapVars>>
    PROVE  CInv'
  <1>1. /\ UNCHANGED <<copiedSpaceVars, copyVars, collections, marked, stackVars>>
        /\ t \in Thread /\ t # Main /\ phase' = phase
    BY WorkerAssumption DEF markVars, heapVars, Thread, WaitForNextPhase, NextPhase
  <1>2. pc'[Main] = pc[Main]
    BY <1>1, ThreadFacts DEF WaitForNextPhase, NextPhase, AwaitPhase, GoTo, Before, IInv, PhaseTypes
  <1>3. (Free => Free') /\ (Marking' => Marking)
    BY <1>2 DEF Free, Marking
  <1>4. pc[t] \in {"phaseWait", "nextPhaseWait"} /\ (pc[t] = "phaseWait" /\ phase = "Copy" => shouldWait)
    <2>1. pc[Main] \in Place
      BY ThreadFacts DEF Before, IInv, PhaseTypes
    <2>2. phase = "Copy" => shouldWait
      BY <2>1 DEF Before, IInv, Stage, Place, ActivityWait, TracePlace, CopyPlace
    <2> QED
      BY <2>2 DEF WaitForNextPhase, NextPhase
  <1>5. CASE pc' = pc
    BY <1>1, <1>3, <1>5, StayIsSame, PlainKeeps
  <1>6. CASE pc' # pc
    <2>1. PICK q \in {"nextPhaseWait", "enter", "copyNext", "exited"} :
              /\ pc' = [pc EXCEPT ![t] = q]
              /\ q = "copyNext" => phase = "Copy" /\ pc[t] = "nextPhaseWait"
              /\ q # "copyNext" => phase # "Copy"
      <3>1. phase \in {"NoPhase", "Mark", "Copy", "Exit"}
        BY DEF Before, IInv, PhaseTypes, Phase
      <3>2. CASE WaitForNextPhase(t)
        BY <1>4, <1>6, <3>1, <3>2 DEF WaitForNextPhase, AwaitPhase, GoTo, PhaseEntry
      <3>3. CASE NextPhase(t)
        BY <1>4, <1>6, <3>1, <3>3 DEF NextPhase, AwaitPhase, GoTo, PhaseEntry
      <3> QED
        BY <3>2, <3>3
    <2>2. CASE q # "copyNext"
      <3>1. \A p \in {pc[t], q} : p \notin CopyPlace \cup {"copyOwn", "loanWait"}
        BY <1>4, <2>2 DEF CopyPlace
      <3>2. SamePlaces
        BY <1>1, <2>1, <2>2, <3>1, MoveIsSame DEF Before
      <3> QED
        BY <1>1, <1>3, <3>2, PlainKeeps
    <2>3. CASE q = "copyNext"
      <3>1. \A u \in Thread : pc'[u] = IF u = t THEN "copyNext" ELSE pc[u]
        BY <2>1, <2>3 DEF Before, IInv, PhaseTypes
      <3>2. SamePlaces
        BY <1>1, <1>2, <2>1, <2>3, <3>1
        DEF SamePlaces, Borrows, Copying, Reporting, Tracing, Marking, CopyPlace
      <3> QED
        BY <1>1, <1>3, <3>2, PlainKeeps
    <2> QED
      BY <2>2, <2>3
  <1> QED
    BY <1>5, <1>6

LEMMA MainWaits ==
    ASSUME Before, After,
           \/ EndMark \/ Marked \/ AwaitLoans \/ EndCopy \/ Join \/ Destroy
           \/ /\ \/ \E p \in ActivityWait : AwaitIdleThreads(p)
                 \/ IdleThreads("startWait", "mutator")
                 \/ IdleThreads("copyWait", "mutator")
              /\ UNCHANGED <<markVars, copiedSpaceVars, copyVars, heapVars>>
    PROVE  CInv'
  <1>0. Main \in Thread
    BY ThreadFacts
  <1>1. UNCHANGED <<copiedSpaceVars, copyVars, collections, marked, stackVars>>
    BY DEF EndMark, Marked, AwaitLoans, EndCopy, Join, Destroy, markVars, heapVars
  <1>2. CASE AwaitLoans \/ \E p \in ActivityWait : AwaitIdleThreads(p)
    <2>1. pc' = pc /\ phase' = phase
      BY <1>2 DEF AwaitLoans, AwaitIdleThreads
    <2> QED
      BY <1>1, <2>1, StayIsSame, PlainKeeps DEF Free, Marking
  <1>3. ASSUME NEW from, NEW to, pc[Main] = from, pc' = [pc EXCEPT ![Main] = to],
               phase # "Copy" /\ phase' # "Copy",
               \/ from = "endMark" /\ to = "markWait"
               \/ from = "markWait" /\ to = "startCopy"
               \/ from \in {"startWait", "copyWait"} /\ to = "mutator"
               \/ from = "join" /\ to = "destroyed"
               \/ from = "mutator" /\ to = "join"
        PROVE  CInv'
    <2>1. pc'[Main] = to
      BY <1>0, <1>3, OtherThread DEF Before
    <2>2. (Free => Free') /\ (Marking' => Marking)
      BY <1>3, <2>1 DEF Free, Marking
    <2>3. /\ \A p \in {pc[Main], to} : p \notin CopyPlace \cup {"copyOwn", "loanWait"}
          /\ Reporting \/ to \notin TracePlace \cup {"weak", "finish", "endMark", "markWait", "startCopy"}
      BY <1>3 DEF CopyPlace, TracePlace, Reporting, Tracing
    <2>4. SamePlaces
      BY <1>0, <1>3, <2>3, MoveIsSame DEF Before
    <2> QED
      BY <1>1, <2>2, <2>4, PlainKeeps
  <1>4. CASE EndMark
    BY <1>3, <1>4 DEF EndMark, EndCurrentPhase, GoTo, Before, IInv, Stage
  <1>5. CASE Marked
    BY <1>3, <1>5 DEF Marked, IdleThreads, GoTo, Before, IInv, Stage
  <1>6. CASE Join
    BY <1>3, <1>6 DEF Join, GoTo, Before, IInv, Stage
  <1>7. CASE Destroy
    BY <1>3, <1>7 DEF Destroy, GoTo, Before, IInv, Stage
  <1>8. CASE IdleThreads("startWait", "mutator") \/ IdleThreads("copyWait", "mutator")
    BY <1>3, <1>8 DEF IdleThreads, GoTo, Before, IInv, Stage
  <1>9. CASE EndCopy
    <2>1. pc[Main] = "endCopy" /\ phase' = "NoPhase" /\ pc' = [pc EXCEPT ![Main] = "copyWait"]
      BY <1>9 DEF EndCopy, EndCurrentPhase, GoTo
    <2>2. \A u \in Thread : pc'[u] = IF u = Main THEN "copyWait" ELSE pc[u]
      BY <2>1 DEF Before, IInv, PhaseTypes
    <2>3. \A u \in Thread : ~Borrows(u)
      <3>1. ~Copying
        BY <2>1 DEF Copying, CopyPlace
      <3> QED
        BY <3>1 DEF Before, CInv, Loans
    <2>4. pc'[Main] = "copyWait"
      BY <1>0, <2>2
    <2>5. ~Copying /\ ~Copying' /\ ~Reporting' /\ pc'[Main] # "loanWait"
      BY <2>1, <2>4 DEF Copying, Reporting, Tracing, Marking, CopyPlace
    <2>6. \A u \in Thread : ~Borrows(u)' /\ pc[u] \notin CopyPlace /\ pc'[u] \notin CopyPlace
      BY <2>1, <2>2, <2>3 DEF Borrows, CopyPlace
    <2>7. SamePlaces
      BY <2>3, <2>5, <2>6 DEF SamePlaces, CopyPlace
    <2>8. (Free => Free') /\ (Marking' => Marking)
      BY <2>1, <2>4 DEF Free, Marking
    <2> QED
      BY <1>1, <2>7, <2>8, PlainKeeps
  <1> QED
    BY <1>2, <1>4, <1>5, <1>6, <1>7, <1>8, <1>9

LEMMA DropRootKeeps ==
    ASSUME Before, After, NEW g, NEW c, DropRoot(g, c)
    PROVE  CInv'
  <1>1. pc' = pc /\ UNCHANGED <<phase, copiedSpaceVars, copyVars, collections, marked, stackVars>>
    BY DEF DropRoot, sharedDataVars, markVars
  <1> QED
    BY <1>1, StayIsSame, PlainKeeps DEF Free, Marking

-----------------------------------------------------------------------------
(* Reporting a store while marking.                                        *)
Reported(c) == store[c] = NoBlock \/ store[c] \in pinned \/ c \in workList[store[c]]

BlockReports(b) ==
    /\ workList[b] # {} => b \notin pinned
    /\ \A c \in workList[b] : store[c] = b
    /\ Cardinality(workList[b]) <= liveBytes[b]
    /\ b \notin pinned /\ liveBytes[b] > 0 => workList[b] # {}

ReportTypes ==
    pinned \subseteq Block /\ liveBytes \in [Block -> Nat] /\ workList \in [Block -> SUBSET Cell]

LEMMA AddOne ==
    ASSUME NEW S, NEW x, IsFiniteSet(S)
    PROVE  /\ Cardinality(S \cup {x}) <= Cardinality(S) + 1
           /\ Cardinality(S \cup {x}) \in Nat
  <1>1. Cardinality(S) \in Nat
    BY FS_CardinalityType
  <1>2. Cardinality(S \cup {x}) = IF x \in S THEN Cardinality(S) ELSE Cardinality(S) + 1
    BY FS_AddElement
  <1> QED
    BY <1>1, <1>2

LEMMA ReportKeeps ==
    ASSUME NEW c \in Cell, ReportLiveBytes(c), store' = store, store \in [Cell -> Block \cup {NoBlock}],
           ReportTypes, \A b \in Block : BlockReports(b)
    PROVE  /\ ReportTypes'
           /\ \A b \in Block : BlockReports(b)'
           /\ \A x \in Cell : Reported(x) \/ x = c => Reported(x)'
  <1> DEFINE s == store[c]
  <1> USE DEF ReportTypes
  <1>1. CASE s = NoBlock
    <2>1. UNCHANGED <<pinned, liveBytes, workList>>
      BY <1>1 DEF ReportLiveBytes
    <2>2. \A b \in Block : BlockReports(b)'
      BY <2>1 DEF BlockReports
    <2> QED
      BY <1>1, <2>1, <2>2 DEF Reported
  <1>2. CASE s # NoBlock
    <2>0. s \in Block
      BY <1>2
    <2>1. liveBytes' = [liveBytes EXCEPT ![s] = @ + 1]
      BY <1>2 DEF ReportLiveBytes
    <2>2. CASE s \in pinned
      <3>1. UNCHANGED <<pinned, workList>>
        BY <1>2, <2>2 DEF ReportLiveBytes
      <3>2. ASSUME NEW b \in Block PROVE BlockReports(b)'
        <4>1. BlockReports(b) /\ liveBytes'[b] = IF b = s THEN liveBytes[b] + 1 ELSE liveBytes[b]
          BY <2>1
        <4>2. IsFiniteSet(workList[b]) /\ Cardinality(workList[b]) \in Nat
          BY MemoryAssumption, FS_Subset, FS_CardinalityType
        <4> QED
          BY <2>2, <3>1, <4>1, <4>2 DEF BlockReports
      <3> QED
        BY <2>0, <2>1, <2>2, <3>1, <3>2 DEF Reported
    <2>3. CASE s \notin pinned /\ liveBytes[s] + 1 <= EvacuateLimit
      <3>1. pinned' = pinned /\ workList' = [workList EXCEPT ![s] = @ \cup {c}]
        BY <1>2, <2>3 DEF ReportLiveBytes
      <3>2. ASSUME NEW b \in Block PROVE BlockReports(b)'
        <4>1. BlockReports(b) /\ liveBytes'[b] = IF b = s THEN liveBytes[b] + 1 ELSE liveBytes[b]
          BY <2>1
        <4>2. IsFiniteSet(workList[b]) /\ Cardinality(workList[b]) \in Nat
          BY MemoryAssumption, FS_Subset, FS_CardinalityType
        <4>3. Cardinality(workList[b] \cup {c}) <= Cardinality(workList[b]) + 1
              /\ Cardinality(workList[b] \cup {c}) \in Nat
          BY <4>2, AddOne
        <4>4. workList'[b] = IF b = s THEN workList[b] \cup {c} ELSE workList[b]
          BY <3>1
        <4>5. Cardinality(workList'[b]) <= liveBytes'[b]
          BY <4>1, <4>2, <4>3, <4>4 DEF BlockReports
        <4> QED
          BY <2>3, <3>1, <4>1, <4>4, <4>5 DEF BlockReports
      <3>3. ReportTypes'
        BY <2>0, <2>1, <3>1
      <3>4. \A x \in Cell : Reported(x) \/ x = c => Reported(x)'
        BY <2>0, <3>1 DEF Reported
      <3> QED
        BY <3>2, <3>3, <3>4
    <2>4. CASE s \notin pinned /\ ~(liveBytes[s] + 1 <= EvacuateLimit)
      <3>1. pinned' = pinned \cup {s} /\ workList' = [workList EXCEPT ![s] = {}]
        BY <1>2, <2>4 DEF ReportLiveBytes
      <3>2. ASSUME NEW b \in Block PROVE BlockReports(b)'
        <4>1. BlockReports(b) /\ liveBytes'[b] = IF b = s THEN liveBytes[b] + 1 ELSE liveBytes[b]
          BY <2>1
        <4>2. workList'[b] = IF b = s THEN {} ELSE workList[b]
          BY <3>1
        <4>3. Cardinality({}) = 0
          BY FS_EmptySet
        <4> QED
          BY <2>4, <3>1, <4>1, <4>2, <4>3 DEF BlockReports
      <3>3. ReportTypes'
        BY <2>0, <2>1, <3>1
      <3>4. \A x \in Cell : Reported(x) \/ x = c => Reported(x)'
        BY <2>0, <3>1 DEF Reported
      <3> QED
        BY <3>2, <3>3, <3>4
    <2> QED
      BY <2>2, <2>3, <2>4
  <1> QED
    BY <1>1, <1>2

LEMMA VisitCellCopies ==
    ASSUME Before, After, NEW t \in Thread, NEW c \in Cell, VisitCell(t, c),
           UNCHANGED <<copyVars, heapVars>>
    PROVE  CInv'
  <1>1. /\ UNCHANGED <<store, toSpace, fromSpace, loaned, borrowed, inCopyingPhase,
                       blocksToCopy, copyIndex, todo, collections, sharedStack, phase>>
        /\ pc[t] \in {"drain", "rootDrain"} /\ c \in stack[t] /\ ReportLiveBytes(c)
        /\ marked' = marked \cup Children[c]
        /\ stack' = [stack EXCEPT ![t] = (stack[t] \ {c}) \cup (Children[c] \ marked)]
    BY DEF VisitCell, InternalAppend, heapVars
  <1>2. PICK q \in {"drain", "donate", "rootDrain", "rootDonate"} : pc' = [pc EXCEPT ![t] = q]
    BY AfterVisitsIs DEF VisitCell
  <1>3. Tracing /\ pc[Main] \in TracePlace
    BY <1>1, DrainsInTrace DEF Before, DrainPlace
  <1>4. SamePlaces
    <2>1. \A p \in {pc[t], q} : p \notin CopyPlace \cup {"copyOwn", "loanWait", "nextPhaseWait"}
      BY <1>1 DEF CopyPlace
    <2> QED
      BY <1>1, <1>2, <1>3, <2>1, MoveIsSame DEF Before, Reporting
  <1>5. ~Copying /\ ~Copying' /\ Reporting /\ ~Free
    BY <1>3, <1>4 DEF SamePlaces, Copying, Reporting, TracePlace, CopyPlace, Free
  <1>6. ReportTypes /\ store \in [Cell -> Block \cup {NoBlock}] /\ \A b \in Block : BlockReports(b)
    BY <1>5 DEF Before, CInv, CopyTypes, ReportTypes, Reports, BlockReports
  <1>7. /\ ReportTypes' /\ \A b \in Block : BlockReports(b)'
        /\ \A x \in Cell : Reported(x) \/ x = c => Reported(x)'
    BY <1>1, <1>6, ReportKeeps
  <1>8. \A x \in Cell : /\ Stacked(x) /\ x # c => Stacked(x)'
                        /\ x \in Children[c] \ marked => Stacked(x)'
    BY <1>1 DEF Stacked, Before, IInv, PhaseTypes
  <1>9. CopyTypes'
    BY <1>1, <1>7 DEF Before, CInv, CopyTypes, ReportTypes
  <1>10. Loans'
    BY <1>1, <1>4 DEF Before, CInv, Loans, SamePlaces
  <1>11. Spaces'
    BY <1>1, <1>4 DEF Before, CInv, Spaces, SamePlaces, Holds, AllGone, InUse
  <1>12. Reports'
    <2>1. ASSUME NEW x \in marked' PROVE Handled(x)'
      <3>1. x \in Cell
        BY DEF After, IInv, PhaseTypes
      <3>2. CASE Stacked(x)'
        BY <3>2 DEF Handled
      <3>3. CASE ~Stacked(x)'
        <4>1. x = c \/ (x \in marked /\ ~Stacked(x))
          BY <1>1, <1>8, <3>1, <3>3
        <4>2. x = c \/ Reported(x)
          BY <1>5, <4>1 DEF Before, CInv, Reports, Handled, Reported
        <4>3. Reported(x)'
          BY <1>7, <3>1, <4>2
        <4> QED
          BY <4>3 DEF Reported, Handled
      <3> QED
        BY <3>2, <3>3
    <2> QED
      BY <1>5, <1>7, <2>1 DEF Reports, BlockReports
  <1>13. CopyWork'
    BY <1>1, <1>4, <1>5 DEF Before, CInv, CopyWork, SamePlaces
  <1>14. Survivors'
    <2>1. ~Begins
      BY <1>3 DEF Begins, Marking, TracePlace
    <2> QED
      BY <1>1, <1>5, <2>1, SurvivorsKept DEF Before, After, CInv
  <1> QED
    BY <1>9, <1>10, <1>11, <1>12, <1>13, <1>14 DEF CInv

-----------------------------------------------------------------------------
(* Blocks are lent.                                                        *)
LEMMA FreeFor ==
    ASSUME CInv, NEW ts \in SUBSET Thread, \A t \in Thread \ ts : borrowed[t] = NoBlock
    PROVE  \E free \in SUBSET (Block \ InUse) :
              /\ IsFiniteSet(free)
              /\ Cardinality(free) >= Cardinality(Thread) - Cardinality(ts)
  <1>1. \A b \in InUse : \/ b \in toSpace \cup fromSpace
                         \/ \E t \in ts : b = borrowed[t]
    BY DEF InUse
  <1>2. \A c \in Cell : InitStore[c] = NoBlock => store[c] = NoBlock
    BY DEF CInv, Survivors
  <1>3. \/ \A b \in InUse : (b # NoBlock /\ Holds(b)) \/ \E t \in ts : b = borrowed[t]
        \/ \E x : \A b \in InUse : b = x \/ \E t \in ts : b = borrowed[t]
    <2>1. NoBlock \notin toSpace \cup fromSpace
      BY BlockAssumption DEF CInv, CopyTypes
    <2> QED
      BY <1>1, <2>1 DEF CInv, Spaces
  <1> HIDE DEF InUse
  <1> QED
    BY <1>2, <1>3, EnoughBlocks

LEMMA LentIs ==
    ASSUME NEW ts \in SUBSET Thread, StartCopying(ts), borrowed \in [Thread -> Block \cup {NoBlock}],
           NEW free \in SUBSET (Block \ InUse), IsFiniteSet(free), IsFiniteSet(ts),
           Cardinality(ts) <= Cardinality(free)
    PROVE  /\ loaned' = loaned + Cardinality(ts)
           /\ borrowed' \in [Thread -> Block \cup {NoBlock}]
           /\ \A t \in ts : borrowed'[t] \in Block \ InUse
           /\ \A t \in Thread \ ts : borrowed'[t] = borrowed[t]
           /\ \A t, u \in ts : borrowed'[t] = borrowed'[u] => t = u
  <1> DEFINE Good(f) == \A t, u \in ts : f[t] = f[u] => t = u
             lent == CHOOSE f \in [ts -> Block \ InUse] : Good(f)
  <1>1. \E f \in [ts -> free] : Good(f)
    BY InjectionExists
  <1>2. \E f \in [ts -> Block \ InUse] : Good(f)
    BY <1>1
  <1> HIDE DEF Good
  <1>3. lent \in [ts -> Block \ InUse] /\ Good(lent)
    BY <1>2
  <1>4. /\ borrowed' = [t \in Thread |-> IF t \in ts THEN lent[t] ELSE borrowed[t]]
        /\ loaned' = loaned + Cardinality(ts)
    BY DEF StartCopying, Good
  <1> HIDE DEF lent
  <1> QED
    BY <1>3, <1>4 DEF Good

LEMMA BlocksExist == FreeBlock({}) \in Block
  <1>1. PICK all \in SUBSET Block : IsFiniteSet(all) /\ Cardinality(all) > Cardinality(Thread)
    BY MemoryAssumption
  <1>2. Cardinality(Thread) \in Nat /\ Cardinality(all) \in Nat
    BY <1>1, ThreadFacts, FS_CardinalityType
  <1>3. all # {}
    BY <1>1, <1>2, FS_EmptySet
  <1> QED
    BY <1>3, FreeBlockIs

(* Between the phases the GC threads wait, and nothing is lent.            *)
LEMMA Idle ==
    ASSUME Before, pc[Main] \in {"mutator", "startCopy"}
    PROVE  /\ \A t \in Worker : pc[t] = "nextPhaseWait"
           /\ \A t \in Thread : ~Borrows(t) /\ borrowed[t] = NoBlock /\ todo[t] = <<>>
           /\ loaned = 0 /\ fromSpace = {} /\ InUse = toSpace /\ phase = "NoPhase"
           /\ ~Copying /\ ~Marking /\ ~Tracing
           /\ \A c \in Cell : ~Stacked(c)
  <1>1. \A t \in Worker : pc[t] = "nextPhaseWait"
    BY DEF Before, IInv, Places, SharePlace, DrainPlace, CopyPlace, TracePlace
  <1>2. ~Copying /\ ~Marking /\ ~Tracing /\ phase = "NoPhase"
    BY DEF Before, IInv, Stage, Copying, Marking, Tracing, CopyPlace
  <1>3. \A t \in Thread : ~Borrows(t) /\ pc[t] # "copy" /\ pc[t] \notin DrainPlace \cup {"rootDrain", "rootDonate"}
    BY <1>1, <1>2 DEF Borrows, Thread, CopyPlace, DrainPlace
  <1>4. \A t \in Thread : borrowed[t] = NoBlock /\ todo[t] = <<>>
    BY <1>3 DEF Before, CInv, Loans, CopyWork
  <1>5. {t \in Thread : borrowed[t] # NoBlock} = {} /\ fromSpace = {}
    BY <1>2, <1>4 DEF Before, CInv, Spaces
  <1>6. loaned = 0 /\ InUse = toSpace
    <2>1. loaned = 0
      BY <1>5, FS_EmptySet DEF Before, CInv, Loans
    <2>2. {borrowed[t] : t \in Thread} \ {NoBlock} = {}
      BY <1>4
    <2> QED
      BY <1>5, <2>1, <2>2 DEF InUse
  <1>7. sharedStack = {} /\ \A t \in Thread : stack[t] = {}
    BY <1>3 DEF Before, IInv, Work, TracePlace
  <1> QED
    BY <1>1, <1>2, <1>3, <1>4, <1>5, <1>6, <1>7 DEF Stacked

LEMMA EmptyReports ==
    ASSUME NEW pins, ForgetReports(pins), pins \subseteq Block
    PROVE  ReportTypes' /\ \A b \in Block : BlockReports(b)'
  <1>1. /\ \A b \in Block : workList'[b] = {} /\ liveBytes'[b] = 0
        /\ ReportTypes'
    BY DEF ForgetReports, ReportTypes
  <1>2. Cardinality({}) = 0
    BY FS_EmptySet
  <1> QED
    BY <1>1, <1>2 DEF BlockReports

LEMMA CollectKeeps ==
    ASSUME Before, After, NEW pins \in SUBSET toSpace, Collect(pins)
    PROVE  CInv'
  <1>1. /\ pc[Main] = "mutator" /\ pc' = [pc EXCEPT ![Main] = "roots"] /\ phase' = "Mark"
        /\ UNCHANGED <<store, toSpace, fromSpace, loaned, borrowed, inCopyingPhase,
                       blocksToCopy, copyIndex, todo, roots>>
        /\ marked' = {} /\ collections' = collections + 1 /\ ForgetReports(pins)
    BY DEF Collect, StartNextPhase, GoTo
  <1>2. \A t \in Thread : pc'[t] = IF t = Main THEN "roots" ELSE "nextPhaseWait"
    BY <1>1, Idle DEF Before, IInv, PhaseTypes, Thread
  <1>3. pc'[Main] = "roots"
    BY <1>2, ThreadFacts
  <1>4. ~Copying' /\ Marking' /\ \A t \in Thread : ~Borrows(t)' /\ pc'[t] # "copyDone"
    BY <1>1, <1>2, <1>3 DEF Copying, Marking, Borrows, CopyPlace
  <1>5. ReportTypes' /\ \A b \in Block : BlockReports(b)'
    BY <1>1, EmptyReports DEF Before, CInv, CopyTypes
  <1>6. CopyTypes'
    BY <1>1, <1>5 DEF Before, CInv, CopyTypes, ReportTypes
  <1>7. Loans'
    BY <1>1, <1>4, Idle DEF Before, CInv, Loans
  <1>8. Spaces'
    BY <1>1, <1>4, Idle DEF Before, CInv, Spaces, Holds, AllGone, InUse
  <1>9. Reports'
    BY <1>1, <1>4, <1>5 DEF Reports, BlockReports
  <1>10. CopyWork'
    BY <1>1, <1>3, <1>4, Idle DEF Before, CInv, CopyWork
  <1>11. Survivors'
    <2>1. collections' > 0
      BY <1>1 DEF Before, CInv, CopyTypes
    <2>2. \A c \in Cell : Needed(c)' => Needed(c)
      BY <1>1, <1>4, <2>1, Idle DEF Before, CInv, CopyTypes, Survivors, Needed
    <2> QED
      BY <1>1, <1>4, <2>1, <2>2 DEF Before, CInv, Survivors
  <1> QED
    BY <1>6, <1>7, <1>8, <1>9, <1>10, <1>11 DEF CInv

(* The blocks that are recycled hold no store of a marked cell.            *)
LEMMA RecyclableIsDead ==
    ASSUME Before, pc[Main] = "startCopy"
    PROVE  /\ \A c \in marked : store[c] = NoBlock \/ store[c] \notin Recyclable
           /\ \A b \in Block : workList[b] # {} <=> b \in (toSpace \ Recyclable) \ pinned
  <1>1. \A b \in Block : BlockReports(b)
    BY Idle DEF Before, CInv, Reports, BlockReports
  <1>2. \A b \in Block : liveBytes[b] = 0 => workList[b] = {}
    <2> TAKE b \in Block
    <2>1. IsFiniteSet(workList[b])
      BY MemoryAssumption, FS_Subset DEF Before, CInv, CopyTypes
    <2>2. Cardinality(workList[b]) \in Nat /\ (Cardinality(workList[b]) = 0 <=> workList[b] = {})
      BY <2>1, FS_EmptySet, FS_CardinalityType
    <2> QED
      BY <1>1, <2>2 DEF BlockReports
  <1>3. ASSUME NEW c \in marked, store[c] # NoBlock PROVE store[c] \notin Recyclable
    <2>1. c \in Cell /\ store[c] \in Block /\ Handled(c) /\ ~Stacked(c) /\ ~Copying
      BY <1>3, Idle DEF Before, IInv, PhaseTypes, CInv, CopyTypes, Reports, Reporting
    <2> QED
      BY <1>2, <1>3, <2>1 DEF Handled, Recyclable
  <1>4. ASSUME NEW b \in Block, workList[b] # {} PROVE b \in (toSpace \ Recyclable) \ pinned
    <2>1. PICK c \in workList[b] : store[c] = b
      BY <1>1, <1>4 DEF BlockReports
    <2>2. c \in Cell /\ b # NoBlock
      BY BlockAssumption DEF Before, CInv, CopyTypes
    <2>3. b \in toSpace
      BY <2>1, <2>2, Idle DEF Before, CInv, Spaces
    <2> QED
      BY <1>1, <1>2, <1>4, <2>3 DEF BlockReports, Recyclable
  <1>5. ASSUME NEW b \in (toSpace \ Recyclable) \ pinned PROVE workList[b] # {}
    <2>1. b \in Block /\ b \in toSpace \ pinned /\ b \notin Recyclable /\ liveBytes[b] \in Nat
      BY DEF Before, CInv, CopyTypes
    <2>2. liveBytes[b] # 0
      BY <2>1 DEF Recyclable
    <2>3. liveBytes[b] > 0 /\ BlockReports(b)
      BY <1>1, <2>1, <2>2
    <2> QED
      BY <2>1, <2>3 DEF BlockReports
  <1> QED
    BY <1>3, <1>4, <1>5

(* What is left of the stores and of the space when they are recycled.     *)
LEMMA RecycleKeeps ==
    ASSUME Before, pc[Main] = "startCopy", store' = Deallocate(store, Recyclable)
    PROVE  /\ store' \in [Cell -> Block \cup {NoBlock}]
           /\ \A c \in Cell : /\ store[c] = NoBlock => store'[c] = NoBlock
                              /\ store[c] \notin Recyclable => store'[c] = store[c]
                              /\ store'[c] = NoBlock \/ store'[c] \in toSpace \ Recyclable
           /\ \/ \A b \in toSpace \ Recyclable : Holds(b)'
              \/ AllGone' /\ \E b \in Block : toSpace = {b}
  <1>1. /\ store \in [Cell -> Block \cup {NoBlock}] /\ toSpace \subseteq Block
        /\ \A c \in Cell : store[c] = NoBlock \/ store[c] \in toSpace
        /\ \/ \A b \in toSpace : Holds(b)
           \/ AllGone /\ \E b \in Block : toSpace = {b}
    BY Idle DEF Before, CInv, CopyTypes, Spaces
  <1>2. NoBlock \notin Recyclable
    BY <1>1, BlockAssumption DEF Recyclable
  <1>3. \A c \in Cell : store'[c] = IF store[c] \in Recyclable THEN NoBlock ELSE store[c]
    BY DEF Deallocate
  <1>4. store' \in [Cell -> Block \cup {NoBlock}]
    BY <1>1 DEF Deallocate
  <1>5. \/ \A b \in toSpace \ Recyclable : Holds(b)'
        \/ AllGone' /\ \E b \in Block : toSpace = {b}
    BY <1>1, <1>3 DEF Holds, AllGone
  <1> QED
    BY <1>1, <1>2, <1>3, <1>4, <1>5

LEMMA SurvivorsRecycled ==
    ASSUME Before, After, pc[Main] = "startCopy", store' = Deallocate(store, Recyclable),
           UNCHANGED <<collections, marked>>, pc'[Main] \in {"mutator", "copyOwn"}
    PROVE  Survivors'
  <1>1. collections > 0 /\ ~Marking' /\ ~Free
    BY DEF Before, CInv, Survivors, Marking, Free
  <1>2. \A c \in Cell : Needed(c)' => c \in marked
    BY <1>1 DEF Needed
  <1>3. \A c \in Cell : /\ store[c] = NoBlock => store'[c] = NoBlock
                        /\ Needed(c)' /\ store[c] # NoBlock => store'[c] # NoBlock
    BY <1>2, RecycleKeeps, RecyclableIsDead
  <1>4. ~Begins
    BY <1>1 DEF Begins
  <1> QED
    BY <1>1, <1>3, <1>4, SurvivorsKept DEF Before, After, CInv

LEMMA SkipCopyingKeeps ==
    ASSUME Before, After, SkipCopying
    PROVE  CInv'
  <1> DEFINE kept == toSpace \ Recyclable
  <1>1. /\ pc[Main] = "startCopy" /\ pc' = [pc EXCEPT ![Main] = "mutator"] /\ phase' = phase
        /\ UNCHANGED <<loaned, borrowed, inCopyingPhase, blocksToCopy, copyIndex, todo, collections,
                       marked>>
        /\ store' = Deallocate(store, Recyclable) /\ ForgetReports({}) /\ fromSpace' = {}
        /\ toSpace' = IF kept # {} THEN kept ELSE {FreeBlock({})}
    BY DEF SkipCopying, GoTo, markVars, heapVars, KeepBlocks
  <1>2. \A t \in Thread : pc'[t] = IF t = Main THEN "mutator" ELSE "nextPhaseWait"
    BY <1>1, Idle DEF Before, IInv, PhaseTypes, Thread
  <1>3. pc'[Main] = "mutator"
    BY <1>2, ThreadFacts
  <1>4. /\ ~Copying' /\ ~Marking' /\ ~Reporting'
        /\ \A t \in Thread : ~Borrows(t)' /\ pc'[t] # "copyDone"
    BY <1>1, <1>2, <1>3, Idle DEF Copying, Marking, Reporting, Tracing, Borrows, CopyPlace
  <1>5. ReportTypes' /\ \A b \in Block : BlockReports(b)'
    BY <1>1, EmptyReports
  <1>6. toSpace' \subseteq Block
    BY <1>1, BlocksExist DEF Before, CInv, CopyTypes
  <1>7. CopyTypes'
    BY <1>1, <1>5, <1>6, RecycleKeeps DEF Before, CInv, CopyTypes, ReportTypes
  <1>8. Loans'
    <2>1. \A t \in Thread : borrowed'[t] = NoBlock /\ NoBlock \notin toSpace' \cup fromSpace'
      BY <1>1, <1>6, Idle, BlockAssumption
    <2> QED
      BY <1>1, <1>4, <2>1, Idle DEF Before, CInv, Loans
  <1>9. Spaces'
    <2>1. CASE kept # {}
      <3>1. toSpace' = kept /\ fromSpace' = {}
        BY <1>1, <2>1
      <3>2. \A c \in Cell : store'[c] = NoBlock \/ store'[c] \in InUse'
        BY <1>1, <3>1, RecycleKeeps DEF InUse
      <3>3. (\E b \in Block : toSpace = {b}) => \E b \in Block : kept = {b}
        BY <2>1
      <3>4. \/ \A b \in kept : Holds(b)'
            \/ AllGone' /\ \E b \in Block : kept = {b}
        BY <1>1, <3>3, RecycleKeeps
      <3> QED
        BY <3>1, <3>2, <3>4 DEF Spaces
    <2>2. CASE kept = {}
      <3>1. toSpace' = {FreeBlock({})} /\ fromSpace' = {}
        BY <1>1, <2>2
      <3>2. AllGone'
        BY <1>1, <2>2, RecycleKeeps DEF AllGone
      <3> QED
        BY <3>1, <3>2, BlocksExist DEF Spaces, AllGone
    <2> QED
      BY <2>1, <2>2
  <1>10. Reports'
    BY <1>4, <1>5 DEF Reports, BlockReports
  <1>11. CopyWork'
    BY <1>1, <1>3, <1>4, Idle DEF Before, CInv, CopyWork
  <1>12. Survivors'
    BY <1>1, <1>3, SurvivorsRecycled
  <1> QED
    BY <1>7, <1>8, <1>9, <1>10, <1>11, <1>12 DEF CInv

LEMMA StartCopyPhaseKeeps ==
    ASSUME Before, After, StartCopyPhase
    PROVE  CInv'
  <1> DEFINE kept == toSpace \ Recyclable
  <1>1. /\ pc[Main] = "startCopy" /\ pc' = [pc EXCEPT ![Main] = "copyOwn"] /\ phase' = "Copy"
        /\ UNCHANGED <<pinned, liveBytes, workList, todo, collections, marked, sharedStack, stack>>
        /\ store' = Deallocate(store, Recyclable) /\ fromSpace' = kept /\ toSpace' = {}
        /\ inCopyingPhase' = TRUE /\ blocksToCopy' = SetToSeq(kept) /\ copyIndex' = 0
        /\ StartCopying(Worker)
    BY DEF StartCopyPhase, GoTo, markVars, heapVars, SwapSpaces, StartNextPhase
  <1>2. \A t \in Thread : pc'[t] = IF t = Main THEN "copyOwn" ELSE "nextPhaseWait"
    BY <1>1, Idle DEF Before, IInv, PhaseTypes, Thread
  <1>3. pc'[Main] = "copyOwn"
    BY <1>2, ThreadFacts
  <1>4. /\ Copying' /\ ~Marking'
        /\ \A t \in Thread : (Borrows(t)' <=> t \in Worker) /\ pc'[t] # "copyDone"
    BY <1>1, <1>2, <1>3, WorkerAssumption DEF Copying, Marking, Borrows, CopyPlace, Thread
  <1>5. /\ loaned' = loaned + Cardinality(Worker)
        /\ borrowed' \in [Thread -> Block \cup {NoBlock}]
        /\ \A t \in Worker : borrowed'[t] \in Block \ toSpace
        /\ \A t \in Thread \ Worker : borrowed'[t] = NoBlock
        /\ \A t, u \in Worker : borrowed'[t] = borrowed'[u] => t = u
    <2>1. PICK free \in SUBSET (Block \ InUse) :
              IsFiniteSet(free) /\ Cardinality(free) >= Cardinality(Thread) - Cardinality({})
      BY <1>1, Idle, FreeFor DEF Before
    <2>2. Cardinality(Worker) <= Cardinality(free) /\ IsFiniteSet(Worker)
      <3>1. Cardinality({}) = 0 /\ IsFiniteSet(Worker) /\ Cardinality(Worker) <= Cardinality(Thread)
        BY ThreadFacts, FS_EmptySet, FS_Subset
      <3>2. Cardinality(Worker) \in Nat /\ Cardinality(Thread) \in Nat /\ Cardinality(free) \in Nat
        BY <2>1, <3>1, ThreadFacts, FS_CardinalityType
      <3> QED
        BY <2>1, <3>1, <3>2
    <2>3. borrowed \in [Thread -> Block \cup {NoBlock}] /\ Worker \in SUBSET Thread
      BY ThreadFacts DEF Before, CInv, CopyTypes
    <2> HIDE DEF kept
    <2>4. /\ loaned' = loaned + Cardinality(Worker)
          /\ borrowed' \in [Thread -> Block \cup {NoBlock}]
          /\ \A t \in Worker : borrowed'[t] \in Block \ InUse
          /\ \A t \in Thread \ Worker : borrowed'[t] = borrowed[t]
          /\ \A t, u \in Worker : borrowed'[t] = borrowed'[u] => t = u
      BY <1>1, <2>1, <2>2, <2>3, LentIs
    <2> QED
      BY <1>1, <2>4, Idle
  <1>6. IsFiniteSet(kept) /\ toSpace \subseteq Block
    <2>1. \/ toSpace \subseteq {store[c] : c \in Cell}
          \/ \E b : toSpace = {b}
      BY DEF Before, CInv, Spaces, Holds
    <2>2. IsFiniteSet({store[c] : c \in Cell})
      BY MemoryAssumption, ImageBound
    <2>3. IsFiniteSet(toSpace)
      BY <2>1, <2>2, FS_Subset, FS_Singleton
    <2> QED
      BY <2>3, FS_Subset DEF Before, CInv, CopyTypes
  <1>7. blocksToCopy' \in Seq(kept) /\ \A b \in kept : \E i \in 1 .. Len(blocksToCopy') : blocksToCopy'[i] = b
    BY <1>1, <1>6, SetToSeqIs
  <1>8. CopyTypes'
    <2>1. blocksToCopy' \in Seq(Block) /\ inCopyingPhase' \in BOOLEAN
      BY <1>1, <1>6, <1>7
    <2> QED
      BY <1>1, <1>5, <1>6, <2>1, RecycleKeeps DEF Before, CInv, CopyTypes
  <1>9. Loans'
    <2>1. {t \in Thread : borrowed'[t] # NoBlock} = Worker
      BY <1>5, ThreadFacts, BlockAssumption
    <2>2. loaned' = Cardinality({t \in Thread : borrowed'[t] # NoBlock})
      <3>1. loaned = 0 /\ Cardinality(Worker) \in Nat
        BY <1>1, Idle, FS_CardinalityType, WorkerAssumption
      <3>2. loaned' = Cardinality(Worker)
        BY <1>5, <3>1
      <3> QED
        BY <2>1, <3>2
    <2>3. \A t \in Thread : (borrowed'[t] # NoBlock <=> Borrows(t)') /\ (Borrows(t)' => Copying')
      BY <1>4, <2>1
    <2>4. \A t \in Thread : borrowed'[t] \notin toSpace' \cup fromSpace'
      BY <1>1, <1>5, <1>6, BlockAssumption
    <2>5. \A t, u \in Thread : borrowed'[t] = borrowed'[u] /\ borrowed'[t] # NoBlock => t = u
      BY <1>5
    <2> QED
      BY <1>1, <1>4, <2>2, <2>3, <2>4, <2>5 DEF Loans
  <1>10. Spaces'
    <2>1. \A c \in Cell : store'[c] = NoBlock \/ store'[c] \in InUse'
      BY <1>1, RecycleKeeps DEF InUse
    <2>2. \/ \A b \in kept : Holds(b)'
          \/ AllGone' /\ \E b \in Block : kept = {b}
      <3>1. CASE kept = {}
        BY <3>1
      <3>2. CASE kept # {}
        <4>1. (\E b \in Block : toSpace = {b}) => \E b \in Block : kept = {b}
          BY <3>2
        <4> QED
          BY <1>1, <4>1, RecycleKeeps
      <3> QED
        BY <3>1, <3>2
    <2>3. toSpace' \cup fromSpace' = kept /\ toSpace' \cap fromSpace' = {}
      BY <1>1
    <2> HIDE DEF kept
    <2> QED
      BY <1>4, <2>1, <2>2, <2>3 DEF Spaces
  <1>11. Reports'
    <2>1. \A b \in Block : workList'[b] # {} <=> b \in fromSpace' \ pinned'
      BY <1>1, RecyclableIsDead
    <2>2. ASSUME NEW b \in Block
          PROVE  /\ workList'[b] # {} => b \notin pinned'
                 /\ \A c \in workList'[b] : store'[c] = b
                 /\ Cardinality(workList'[b]) <= liveBytes'[b]
      <3>1. ASSUME NEW c \in workList[b] PROVE store'[c] = b
        <4>1. store[c] = b /\ b \notin Recyclable /\ c \in Cell
          BY <1>1, RecyclableIsDead DEF Before, CInv, Reports, CopyTypes
        <4> QED
          BY <1>1, <4>1, RecycleKeeps
      <3> QED
        BY <1>1, <3>1 DEF Before, CInv, Reports
    <2>3. ASSUME NEW c \in marked' PROVE Handled(c)'
      <3>1. c \in Cell /\ c \in marked /\ Handled(c) /\ ~Stacked(c) /\ ~Copying
        BY <1>1, Idle DEF Before, IInv, PhaseTypes, CInv, Reports, Reporting
      <3>2. CASE store[c] = NoBlock
        BY <1>1, <3>1, <3>2, RecycleKeeps DEF Handled
      <3>3. CASE store[c] # NoBlock
        <4>1. store'[c] = store[c]
          BY <1>1, <3>1, <3>3, RecycleKeeps, RecyclableIsDead
        <4> QED
          BY <1>1, <3>1, <4>1 DEF Handled
      <3> QED
        BY <3>2, <3>3
    <2> QED
      BY <1>4, <2>1, <2>2, <2>3 DEF Reports
  <1>12. CopyWork'
    <2>1. \A t \in Thread : todo'[t] = <<>>
      BY <1>1, Idle
    <2>2. ASSUME NEW b \in fromSpace' \ pinned' PROVE Listed(b)'
      <3>1. PICK i \in 1 .. Len(blocksToCopy') : blocksToCopy'[i] = b
        BY <1>1, <1>7
      <3>2. i \in copyIndex' + 1 .. Len(blocksToCopy')
        BY <1>1
      <3> QED
        BY <3>1, <3>2 DEF Listed
    <2>3. copyIndex' <= Len(blocksToCopy')
      BY <1>1, <1>7
    <2> QED
      BY <1>3, <1>4, <2>1, <2>2, <2>3 DEF CopyWork
  <1>13. Survivors'
    BY <1>1, <1>3, SurvivorsRecycled
  <1> QED
    BY <1>8, <1>9, <1>10, <1>11, <1>12, <1>13 DEF CInv

LEMMA StartCopyingMainKeeps ==
    ASSUME Before, After, StartCopyingMain
    PROVE  CInv'
  <1>1. /\ pc[Main] = "copyOwn" /\ pc' = [pc EXCEPT ![Main] = "copyNext"] /\ phase' = phase
        /\ UNCHANGED <<store, toSpace, fromSpace, pinned, liveBytes, workList, inCopyingPhase,
                       blocksToCopy, copyIndex, todo, collections, marked, sharedStack, stack>>
        /\ StartCopying({Main})
    BY DEF StartCopyingMain, GoTo, markVars, heapVars
  <1>2. \A t \in Thread : pc'[t] = IF t = Main THEN "copyNext" ELSE pc[t]
    BY <1>1 DEF Before, IInv, PhaseTypes
  <1>3. pc'[Main] = "copyNext" /\ Main \in Thread
    BY <1>2, ThreadFacts
  <1>4. /\ Copying /\ Copying' /\ ~Free /\ ~Begins /\ Reporting
        /\ \A t \in Thread : /\ Borrows(t)' <=> Borrows(t) \/ t = Main
                             /\ pc[t] = "copy" => pc'[t] = "copy"
                             /\ pc'[t] = "copyDone" => pc[t] = "copyDone"
        /\ pc'[Main] # "loanWait" /\ ~Borrows(Main)
    BY <1>1, <1>2, <1>3
    DEF Copying, Free, Begins, Marking, Reporting, Borrows, CopyPlace
  <1>5. borrowed[Main] = NoBlock
    BY <1>3, <1>4 DEF Before, CInv, Loans
  <1>6. /\ loaned' = loaned + 1 /\ borrowed' \in [Thread -> Block \cup {NoBlock}]
        /\ borrowed'[Main] \in Block \ InUse
        /\ \A t \in Thread : t # Main => borrowed'[t] = borrowed[t]
    <2>1. \A t \in Thread \ Worker : borrowed[t] = NoBlock
      BY <1>5 DEF Thread
    <2>2. PICK free \in SUBSET (Block \ InUse) :
              IsFiniteSet(free) /\ Cardinality(free) >= Cardinality(Thread) - Cardinality(Worker)
      BY <2>1, ThreadFacts, FreeFor DEF Before
    <2>3. /\ IsFiniteSet({Main}) /\ Cardinality({Main}) = 1
          /\ Cardinality(Thread) = Cardinality(Worker) + 1
      BY WorkerAssumption, FS_Singleton, FS_AddElement DEF Thread
    <2>4. Cardinality(Worker) \in Nat /\ Cardinality(free) \in Nat
      BY <2>2, WorkerAssumption, FS_CardinalityType
    <2>5. Cardinality({Main}) <= Cardinality(free) /\ {Main} \in SUBSET Thread
      BY <1>3, <2>2, <2>3, <2>4
    <2>6. borrowed \in [Thread -> Block \cup {NoBlock}]
      BY DEF Before, CInv, CopyTypes
    <2>7. /\ loaned' = loaned + Cardinality({Main})
          /\ borrowed' \in [Thread -> Block \cup {NoBlock}]
          /\ \A t \in {Main} : borrowed'[t] \in Block \ InUse
          /\ \A t \in Thread \ {Main} : borrowed'[t] = borrowed[t]
      BY <1>1, <2>2, <2>3, <2>5, <2>6, LentIs
    <2> QED
      BY <2>3, <2>7
  <1>7. CopyTypes'
    BY <1>1, <1>6 DEF Before, CInv, CopyTypes
  <1>8. Loans'
    <2> DEFINE old == {t \in Thread : borrowed[t] # NoBlock}
    <2>1. {t \in Thread : borrowed'[t] # NoBlock} = old \cup {Main} /\ Main \notin old
      BY <1>3, <1>5, <1>6, BlockAssumption
    <2>2. IsFiniteSet(old)
      BY ThreadFacts, FS_Subset
    <2>3. loaned = Cardinality(old)
      BY DEF Before, CInv, Loans
    <2> HIDE DEF old
    <2>4. Cardinality(old \cup {Main}) = Cardinality(old) + 1
      BY <2>1, <2>2, FS_AddElement
    <2>5. loaned' = Cardinality({t \in Thread : borrowed'[t] # NoBlock})
      BY <1>6, <2>1, <2>3, <2>4
    <2>6. borrowed'[Main] # NoBlock /\ borrowed'[Main] \notin toSpace \cup fromSpace
          /\ \A t \in Thread : borrowed'[Main] # borrowed[t]
      BY <1>6, BlockAssumption DEF InUse
    <2>7. \A t \in Thread : /\ borrowed'[t] # NoBlock <=> Borrows(t)'
                            /\ borrowed'[t] \notin toSpace' \cup fromSpace'
      BY <1>1, <1>4, <1>6, <2>6 DEF Before, CInv, Loans
    <2>8. \A t, u \in Thread : borrowed'[t] = borrowed'[u] /\ borrowed'[t] # NoBlock => t = u
      BY <1>6, <2>6 DEF Before, CInv, Loans
    <2> QED
      BY <1>1, <1>4, <2>5, <2>7, <2>8 DEF Before, CInv, Loans
  <1>9. Spaces'
    <2>1. \A b \in InUse : b \in InUse'
      BY <1>1, <1>5, <1>6 DEF InUse
    <2>2. \A c \in Cell : store'[c] = NoBlock \/ store'[c] \in InUse'
      BY <1>1, <2>1 DEF Before, CInv, Spaces
    <2> QED
      BY <1>1, <1>4, <2>2 DEF Before, CInv, Spaces, Holds, AllGone
  <1>10. Reports'
    BY <1>1, <1>4 DEF Before, CInv, Reports, Handled, Stacked
  <1>11. CopyWork'
    BY <1>1, <1>4 DEF Before, CInv, CopyWork, Listed
  <1>12. Survivors'
    BY <1>1, <1>4, SurvivorsKept DEF Before, After, CInv
  <1> QED
    BY <1>7, <1>8, <1>9, <1>10, <1>11, <1>12 DEF CInv

-----------------------------------------------------------------------------
(* Copying.                                                                *)

(* Steps that only move work between the list of blocks and the threads.   *)
LEMMA WorkKeeps ==
    ASSUME Before, After, NEW t \in Thread, NEW q \in CopyPlace, pc[t] \in CopyPlace,
           pc' = [pc EXCEPT ![t] = q],
           UNCHANGED <<copiedSpaceVars, phase, collections, marked, stackVars>>,
           copyIndex' \in Nat, blocksToCopy' \in Seq(Block), todo' \in [Thread -> Seq(Block)],
           CopyWork'
    PROVE  CInv'
  <1>1. UNCHANGED <<store, toSpace, fromSpace, pinned, liveBytes, workList, loaned, borrowed,
                    inCopyingPhase, collections, marked, sharedStack, stack>>
    OBVIOUS
  <1>2. \A u \in Thread : pc'[u] = IF u = t THEN q ELSE pc[u]
    BY DEF Before, IInv, PhaseTypes
  <1>3. Main \in Thread /\ pc'[Main] = IF t = Main THEN q ELSE pc[Main]
    BY <1>2, ThreadFacts
  <1>4. /\ Copying' <=> Copying
        /\ \A u \in Thread : Borrows(u)' <=> Borrows(u)
        /\ Reporting' => Reporting
        /\ Free => Free'
    BY <1>2, <1>3 DEF Copying, Borrows, Reporting, Tracing, Marking, CopyPlace, Free
  <1>5. ~Begins
    BY <1>3 DEF Begins, Marking, CopyPlace
  <1>6. CopyTypes'
    BY <1>1 DEF Before, CInv, CopyTypes
  <1>7. Loans'
    BY <1>1, <1>4 DEF Before, CInv, Loans
  <1>8. Spaces'
    BY <1>1, <1>4 DEF Before, CInv, Spaces, Holds, AllGone, InUse
  <1>9. Reports'
    BY <1>1, <1>4 DEF Before, CInv, Reports, Handled, Stacked
  <1>10. Survivors'
    BY <1>1, <1>4, <1>5, SurvivorsKept DEF Before, After, CInv
  <1> QED
    BY <1>6, <1>7, <1>8, <1>9, <1>10 DEF CInv

LEMMA GetNextKeeps ==
    ASSUME Before, After, NEW t \in Thread, GetNextBlocksToCopy(t), UNCHANGED <<markVars, heapVars>>
    PROVE  CInv'
  <1> DEFINE end == IF copyIndex + Fragment < Len(blocksToCopy)
                    THEN copyIndex + Fragment ELSE Len(blocksToCopy)
             part == SubSeq(blocksToCopy, copyIndex + 1, end)
             q == IF copyIndex < end THEN "copy" ELSE "copyDone"
  <1>1. /\ pc[t] = "copyNext" /\ pc' = [pc EXCEPT ![t] = q] /\ q \in CopyPlace
        /\ todo' = [todo EXCEPT ![t] = part] /\ copyIndex' = end
        /\ UNCHANGED <<blocksToCopy, phase, copiedSpaceVars, collections, marked, stackVars>>
    BY DEF GetNextBlocksToCopy, GoTo, markVars, heapVars, CopyPlace
  <1>2. /\ copyIndex \in Nat /\ Len(blocksToCopy) \in Nat /\ copyIndex <= Len(blocksToCopy)
        /\ Fragment \in Nat \ {0} /\ blocksToCopy \in Seq(Block) /\ todo \in [Thread -> Seq(Block)]
        /\ todo[t] = <<>>
    BY <1>1, FragmentAssumption DEF Before, CInv, CopyTypes, CopyWork
  <1>3. /\ end \in Nat /\ copyIndex <= end /\ end <= Len(blocksToCopy)
        /\ copyIndex = Len(blocksToCopy) => end = Len(blocksToCopy)
        /\ ~(copyIndex < end) => end = Len(blocksToCopy) /\ copyIndex = end
    BY <1>2
  <1> HIDE DEF end
  <1>4. /\ part \in Seq(Block) /\ Len(part) = end - copyIndex
        /\ \A i \in 1 .. end - copyIndex : part[i] = blocksToCopy[copyIndex + i]
    BY <1>2, <1>3
  <1> HIDE DEF part
  <1>5. \A u \in Thread : /\ todo'[u] = IF u = t THEN part ELSE todo[u]
                          /\ pc'[u] = IF u = t THEN q ELSE pc[u]
    BY <1>1, <1>2 DEF Before, IInv, PhaseTypes
  <1>6. Main \in Thread /\ pc'[Main] = IF t = Main THEN q ELSE pc[Main]
    BY <1>5, ThreadFacts
  <1>7. copyIndex' \in Nat /\ blocksToCopy' \in Seq(Block) /\ todo' \in [Thread -> Seq(Block)]
    BY <1>1, <1>2, <1>3, <1>4
  <1>8. CopyWork'
    <2>1. \A u \in Thread : todo'[u] # <<>> => pc'[u] = "copy"
      <3>1. part # <<>> => copyIndex < end
        BY <1>2, <1>3, <1>4
      <3> QED
        BY <1>5, <3>1 DEF Before, CInv, CopyWork
    <2>2. Copying' => Copying
      BY <1>1, <1>6 DEF Copying, CopyPlace
    <2>3. ASSUME Copying', NEW b \in fromSpace' \ pinned' PROVE Listed(b)'
      <3>1. Listed(b)
        BY <1>1, <2>2, <2>3 DEF Before, CInv, CopyWork
      <3>2. CASE \E u \in Thread : \E i \in DOMAIN todo[u] : todo[u][i] = b
        <4>1. PICK u \in Thread : \E i \in DOMAIN todo[u] : todo[u][i] = b
          BY <3>2
        <4>2. u # t
          BY <1>2, <4>1
        <4> QED
          BY <1>5, <4>1, <4>2 DEF Listed
      <3>3. CASE \E i \in copyIndex + 1 .. Len(blocksToCopy) : blocksToCopy[i] = b
        <4>1. PICK i \in copyIndex + 1 .. Len(blocksToCopy) : blocksToCopy[i] = b
          BY <3>3
        <4>2. CASE i <= end
          <5>1. i - copyIndex \in 1 .. end - copyIndex /\ i \in Nat
            BY <1>2, <1>3, <4>1, <4>2
          <5>2. i - copyIndex \in DOMAIN part /\ part[i - copyIndex] = b
            BY <1>2, <1>3, <1>4, <4>1, <5>1
          <5> QED
            BY <1>5, <5>2 DEF Listed
        <4>3. CASE ~(i <= end)
          <5>1. i \in copyIndex' + 1 .. Len(blocksToCopy') /\ blocksToCopy'[i] = b
            BY <1>1, <1>2, <1>3, <4>1, <4>3
          <5> QED
            BY <5>1 DEF Listed
        <4> QED
          BY <4>2, <4>3
      <3> QED
        BY <3>1, <3>2, <3>3 DEF Listed
    <2>4. pc'[Main] = "loanWait" \/ (\E u \in Thread : pc'[u] = "copyDone") =>
             copyIndex' = Len(blocksToCopy')
      BY <1>1, <1>3, <1>5, <1>6 DEF Before, CInv, CopyWork
    <2>5. copyIndex' <= Len(blocksToCopy')
      BY <1>1, <1>3
    <2> QED
      BY <2>1, <2>3, <2>4, <2>5 DEF CopyWork
  <1>9. pc[t] \in CopyPlace
    BY <1>1 DEF CopyPlace
  <1> HIDE DEF q
  <1> QED
    BY <1>1, <1>7, <1>8, <1>9, WorkKeeps

(* The other blocks of a list are in its tail.                             *)
LEMMA TailLists ==
    ASSUME NEW s \in Seq(Block), s # <<>>, NEW i \in DOMAIN s, s[i] # Head(s)
    PROVE  \E j \in DOMAIN Tail(s) : Tail(s)[j] = s[i]
  <1>1. i \in 2 .. Len(s) /\ Len(s) \in Nat
    OBVIOUS
  <1>2. i - 1 \in DOMAIN Tail(s) /\ Tail(s)[i - 1] = s[i]
    BY <1>1
  <1> QED
    BY <1>2

LEMMA SkipBlockKeeps ==
    ASSUME Before, After, NEW t \in Thread, SkipBlock(t), UNCHANGED <<markVars, heapVars>>
    PROVE  CInv'
  <1>0. /\ pc[t] = "copy" /\ pc[t] \in CopyPlace /\ todo \in [Thread -> Seq(Block)]
        /\ UNCHANGED <<copyIndex, blocksToCopy, phase, copiedSpaceVars, collections, marked, stackVars>>
        /\ copyIndex \in Nat /\ blocksToCopy \in Seq(Block) /\ pc \in [Thread -> Place]
    BY DEF SkipBlock, markVars, heapVars, CopyPlace, Before, CInv, CopyTypes, IInv, PhaseTypes
  <1>1. CASE todo[t] = <<>>
    <2>1. pc' = [pc EXCEPT ![t] = "copyNext"] /\ todo' = todo /\ "copyNext" \in CopyPlace
      BY <1>1 DEF SkipBlock, GoTo, CopyPlace
    <2>2. \A u \in Thread : pc'[u] = IF u = t THEN "copyNext" ELSE pc[u]
      BY <1>0, <2>1
    <2>3. Main \in Thread /\ pc'[Main] = IF t = Main THEN "copyNext" ELSE pc[Main]
      BY <2>2, ThreadFacts
    <2>4. /\ Copying' => Copying
          /\ pc'[Main] = "loanWait" => pc[Main] = "loanWait"
          /\ \A u \in Thread : pc'[u] = "copyDone" => pc[u] = "copyDone"
      BY <1>0, <2>2, <2>3 DEF Copying
    <2>5. CopyWork'
      BY <1>0, <1>1, <2>1, <2>2, <2>4 DEF Before, CInv, CopyWork, Listed
    <2> QED
      BY <1>0, <2>1, <2>5, WorkKeeps
  <1>2. CASE todo[t] # <<>>
    <2>1. /\ workList[Head(todo[t])] = {} /\ todo' = [todo EXCEPT ![t] = Tail(@)] /\ pc' = pc
      BY <1>2 DEF SkipBlock
    <2>2. /\ \A u \in Thread : todo'[u] = IF u = t THEN Tail(todo[t]) ELSE todo[u]
          /\ todo' \in [Thread -> Seq(Block)] /\ Head(todo[t]) \in Block
      BY <1>0, <1>2, <2>1
    <2>3. \A u \in Thread : todo'[u] # <<>> => pc'[u] = "copy"
      BY <1>0, <2>1, <2>2 DEF Before, CInv, CopyWork
    <2>4. ASSUME Copying, NEW b \in fromSpace \ pinned PROVE Listed(b)'
      <3>1. Listed(b) /\ b # Head(todo[t])
        BY <2>1, <2>2, <2>4 DEF Before, CInv, CopyWork, Reports
      <3>2. CASE \E i \in copyIndex + 1 .. Len(blocksToCopy) : blocksToCopy[i] = b
        BY <1>0, <3>2 DEF Listed
      <3>3. CASE \E u \in Thread : \E i \in DOMAIN todo[u] : todo[u][i] = b
        <4>1. PICK u \in Thread : \E i \in DOMAIN todo[u] : todo[u][i] = b
          BY <3>3
        <4>2. \E i \in DOMAIN todo'[u] : todo'[u][i] = b
          <5>1. CASE u # t
            BY <2>2, <4>1, <5>1
          <5>2. CASE u = t
            <6>1. PICK i \in DOMAIN todo[t] : todo[t][i] = b
              BY <4>1, <5>2
            <6>2. todo[t] \in Seq(Block) /\ todo[t][i] # Head(todo[t])
              BY <1>0, <3>1, <6>1
            <6>3. \E j \in DOMAIN Tail(todo[t]) : Tail(todo[t])[j] = todo[t][i]
              BY <1>2, <6>2, TailLists
            <6> QED
              BY <2>2, <5>2, <6>1, <6>3
          <5> QED
            BY <5>1, <5>2
        <4> QED
          BY <4>2 DEF Listed
      <3> QED
        BY <3>1, <3>2, <3>3 DEF Listed
    <2>5. Copying' <=> Copying
      BY <2>1 DEF Copying
    <2>6. CopyWork'
      BY <1>0, <2>1, <2>3, <2>4, <2>5 DEF Before, CInv, CopyWork
    <2>7. pc' = [pc EXCEPT ![t] = pc[t]]
      BY <1>0, <2>1
    <2> QED
      BY <1>0, <2>2, <2>6, <2>7, WorkKeeps
  <1> QED
    BY <1>1, <1>2

LEMMA RemoveOne ==
    ASSUME NEW S, IsFiniteSet(S), NEW x \in S
    PROVE  /\ IsFiniteSet(S \ {x}) /\ Cardinality(S) \in Nat /\ Cardinality(S) >= 1
           /\ Cardinality(S \ {x}) = Cardinality(S) - 1
  <1>1. IsFiniteSet(S \ {x}) /\ Cardinality(S) \in Nat
    BY FS_Subset, FS_CardinalityType
  <1>2. Cardinality(S \ {x}) \in Nat
    BY <1>1, FS_CardinalityType
  <1>3. S = (S \ {x}) \cup {x} /\ x \notin S \ {x}
    OBVIOUS
  <1>4. Cardinality(S) = Cardinality(S \ {x}) + 1
    BY <1>1, <1>3, FS_AddElement
  <1> QED
    BY <1>1, <1>2, <1>4

(* A block with data is one that holds a store.                            *)
LEMMA DataIsHeld ==
    ASSUME NEW b
    PROVE  /\ DataSize(store, b) \in Nat
           /\ DataSize(store, b) > 0 <=> Holds(b)
  <1> DEFINE in == {c \in Cell : store[c] = b}
  <1>1. IsFiniteSet(in)
    BY MemoryAssumption, FS_Subset
  <1>2. Cardinality(in) \in Nat /\ (Cardinality(in) = 0 <=> in = {})
    BY <1>1, FS_CardinalityType, FS_EmptySet
  <1> QED
    BY <1>2 DEF DataSize, Holds

(* A thread in the copying loop has a block of its own.                    *)
LEMMA Borrower ==
    ASSUME Before, NEW t \in Thread, pc[t] \in CopyPlace
    PROVE  /\ Copying /\ inCopyingPhase /\ ~Free /\ ~Marking /\ ~Tracing /\ Reporting
           /\ borrowed[t] \in Block /\ borrowed[t] # NoBlock /\ borrowed[t] \notin toSpace \cup fromSpace
           /\ collections > 0
           /\ \A c \in Cell : ~Stacked(c)
  <1>1. Borrows(t)
    BY DEF Borrows
  <1>2. Copying /\ inCopyingPhase /\ borrowed[t] # NoBlock /\ borrowed[t] \notin toSpace \cup fromSpace
    BY <1>1 DEF Before, CInv, Loans
  <1>3. /\ ~Free /\ ~Marking /\ ~Tracing /\ Reporting /\ borrowed[t] \in Block
        /\ pc[Main] \notin TracePlace
    BY <1>2 DEF Copying, Free, Marking, Tracing, TracePlace, Reporting, CopyPlace, Before, CInv, CopyTypes
  <1>4. collections > 0
    BY <1>3 DEF Before, CInv, Survivors, Free
  <1>5. \A u \in Thread : pc[u] \notin DrainPlace \cup {"rootDrain", "rootDonate"}
    <2>1. \A u \in Worker : pc[u] \notin DrainPlace \cup {"rootDrain", "rootDonate"}
      BY <1>2 DEF Before, IInv, Places, DrainPlace, SharePlace, CopyPlace, Copying, TracePlace
    <2>2. pc[Main] \notin DrainPlace \cup {"rootDrain", "rootDonate"}
      BY <1>2 DEF Copying, CopyPlace, DrainPlace
    <2> QED
      BY <2>1, <2>2 DEF Thread
  <1>6. sharedStack = {} /\ \A u \in Thread : stack[u] = {}
    BY <1>3, <1>5 DEF Before, IInv, Work
  <1> QED
    BY <1>2, <1>3, <1>4, <1>6 DEF Stacked

LEMMA DoneCopyingKeeps ==
    ASSUME Before, After, NEW t \in Thread,
           DoneCopying(t, IF t = Main THEN "loanWait" ELSE "phaseWait"),
           UNCHANGED <<markVars, heapVars>>
    PROVE  CInv'
  <1> DEFINE q == IF t = Main THEN "loanWait" ELSE "phaseWait"
             lent == borrowed[t]
  <1>1. /\ pc[t] = "copyDone" /\ pc' = [pc EXCEPT ![t] = q] /\ pc[t] \in CopyPlace
        /\ UNCHANGED <<phase, store, fromSpace, pinned, liveBytes, workList, inCopyingPhase,
                       blocksToCopy, copyIndex, todo, collections, marked, sharedStack, stack>>
        /\ borrowed' = [borrowed EXCEPT ![t] = NoBlock]
    BY DEF DoneCopying, GoTo, markVars, heapVars, CopyPlace
  <1>2. \A u \in Thread : pc'[u] = IF u = t THEN q ELSE pc[u]
    BY <1>1 DEF Before, IInv, PhaseTypes
  <1>3. /\ Copying /\ inCopyingPhase /\ ~Free /\ ~Marking /\ Reporting
        /\ lent \in Block /\ lent # NoBlock /\ lent \notin toSpace \cup fromSpace
    BY <1>1, Borrower
  <1>4. Main \in Thread /\ pc'[Main] = IF t = Main THEN "loanWait" ELSE pc[Main]
    BY <1>2, ThreadFacts
  <1>5. /\ Copying' /\ ~Begins
        /\ \A u \in Thread : /\ Borrows(u)' <=> Borrows(u) /\ u # t
                             /\ pc[u] = "copy" => pc'[u] = "copy"
    BY <1>1, <1>2, <1>3, <1>4 DEF Copying, Begins, Marking, Borrows, CopyPlace
  <1>6. /\ loaned' = loaned - 1
        /\ toSpace' = IF Holds(lent) THEN toSpace \cup {lent} ELSE toSpace
    BY <1>3, DataIsHeld DEF DoneCopying
  <1>7. /\ \A u \in Thread : borrowed'[u] = IF u = t THEN NoBlock ELSE borrowed[u]
        /\ borrowed' \in [Thread -> Block \cup {NoBlock}]
    BY <1>1 DEF Before, CInv, CopyTypes
  <1> HIDE DEF q
  <1>8. CopyTypes'
    BY <1>1, <1>3, <1>6, <1>7 DEF Before, CInv, CopyTypes
  <1>9. Loans'
    <2> DEFINE old == {u \in Thread : borrowed[u] # NoBlock}
               new == {u \in Thread : borrowed'[u] # NoBlock}
    <2>1. new = old \ {t} /\ t \in old
      BY <1>3, <1>7
    <2>2. IsFiniteSet(old) /\ loaned = Cardinality(old)
      BY ThreadFacts, FS_Subset DEF Before, CInv, Loans
    <2> HIDE DEF old, new
    <2>3. loaned' = Cardinality(new)
      BY <1>6, <2>1, <2>2, RemoveOne
    <2>4. \A u \in Thread : borrowed'[u] # NoBlock <=> Borrows(u)'
      BY <1>5, <1>7 DEF Before, CInv, Loans
    <2>5. ASSUME NEW u \in Thread PROVE borrowed'[u] \notin toSpace' \cup fromSpace'
      <3>1. NoBlock \notin toSpace' \cup fromSpace'
        BY <1>8, BlockAssumption DEF CopyTypes
      <3>2. u # t /\ borrowed[u] # NoBlock => borrowed[u] # lent /\ borrowed[u] \notin toSpace \cup fromSpace
        BY <1>3 DEF Before, CInv, Loans
      <3> QED
        BY <1>1, <1>6, <1>7, <3>1, <3>2
    <2>6. \A u, v \in Thread : borrowed'[u] = borrowed'[v] /\ borrowed'[u] # NoBlock => u = v
      BY <1>7 DEF Before, CInv, Loans
    <2> QED
      BY <1>1, <1>3, <1>5, <2>3, <2>4, <2>5, <2>6 DEF Loans, new
  <1>10. Spaces'
    <2>1. ASSUME NEW c \in Cell, store[c] # NoBlock PROVE store[c] \in InUse'
      <3>1. store[c] \in InUse
        BY <2>1 DEF Before, CInv, Spaces
      <3>2. CASE store[c] \in toSpace \cup fromSpace
        BY <1>1, <1>6, <3>2 DEF InUse
      <3>3. CASE store[c] = lent
        BY <1>6, <3>3 DEF InUse, Holds
      <3>4. CASE \E u \in Thread : u # t /\ store[c] = borrowed[u]
        <4>1. PICK u \in Thread : u # t /\ store[c] = borrowed[u]
          BY <3>4
        <4> QED
          BY <1>7, <2>1, <4>1 DEF InUse
      <3> QED
        BY <3>1, <3>2, <3>3, <3>4 DEF InUse
    <2>2. toSpace' \cap fromSpace' = {}
      BY <1>1, <1>3, <1>6 DEF Before, CInv, Spaces
    <2>3. \/ \A b \in toSpace' \cup fromSpace' : Holds(b)'
          \/ AllGone' /\ \E b \in Block : toSpace' \cup fromSpace' = {b}
      <3>1. CASE \A b \in toSpace \cup fromSpace : Holds(b)
        BY <1>1, <1>6, <3>1 DEF Holds
      <3>2. CASE AllGone /\ \E b \in Block : toSpace \cup fromSpace = {b}
        <4>1. ~Holds(lent) /\ AllGone'
          BY <1>1, <1>3, <3>2 DEF Holds, AllGone
        <4> QED
          BY <1>1, <1>6, <3>2, <4>1
      <3> QED
        BY <3>1, <3>2 DEF Before, CInv, Spaces
    <2> QED
      BY <1>1, <1>5, <2>1, <2>2, <2>3 DEF Spaces
  <1>11. Reports'
    BY <1>1, <1>3, <1>5 DEF Before, CInv, Reports, Handled, Stacked
  <1>12. CopyWork'
    <2>1. copyIndex = Len(blocksToCopy)
      BY <1>1 DEF Before, CInv, CopyWork
    <2> QED
      BY <1>1, <1>3, <1>5, <2>1 DEF Before, CInv, CopyWork, Listed
  <1>13. Survivors'
    BY <1>1, <1>3, <1>5, SurvivorsKept DEF Before, After, CInv
  <1> QED
    BY <1>8, <1>9, <1>10, <1>11, <1>12, <1>13 DEF CInv

(* When no block is on loan any more, copying is over.                     *)
LEMMA NoLoans ==
    ASSUME Before, pc[Main] = "loanWait", loaned = 0
    PROVE  /\ \A t \in Thread : borrowed[t] = NoBlock /\ ~Borrows(t) /\ todo[t] = <<>>
           /\ Copying /\ InUse = toSpace \cup fromSpace /\ fromSpace \subseteq pinned
  <1> DEFINE lent == {t \in Thread : borrowed[t] # NoBlock}
  <1>1. IsFiniteSet(lent) /\ Cardinality(lent) = 0
    BY ThreadFacts, FS_Subset DEF Before, CInv, Loans
  <1>2. lent = {}
    BY <1>1, FS_EmptySet
  <1>3. \A t \in Thread : borrowed[t] = NoBlock /\ ~Borrows(t)
    BY <1>2 DEF Before, CInv, Loans
  <1>4. \A t \in Thread : todo[t] = <<>>
    BY <1>3 DEF Before, CInv, CopyWork, Borrows, CopyPlace
  <1>5. Copying
    BY DEF Copying
  <1>6. InUse = toSpace \cup fromSpace
    BY <1>3 DEF InUse
  <1>7. ASSUME NEW b \in fromSpace \ pinned PROVE FALSE
    <2>1. Listed(b) /\ copyIndex = Len(blocksToCopy) /\ Len(blocksToCopy) \in Nat
      BY <1>5 DEF Before, CInv, CopyWork, CopyTypes
    <2>2. copyIndex + 1 .. Len(blocksToCopy) = {}
      BY <2>1
    <2> QED
      BY <1>4, <2>1, <2>2 DEF Listed
  <1> QED
    BY <1>3, <1>4, <1>5, <1>6, <1>7

LEMMA SpaceDoneKeeps ==
    ASSUME Before, After, SpaceDoneCopying
    PROVE  CInv'
  <1> DEFINE all == toSpace \cup fromSpace
  <1>1. /\ pc[Main] = "loanWait" /\ loaned = 0 /\ pc' = [pc EXCEPT ![Main] = "endCopy"]
        /\ phase' = phase /\ inCopyingPhase' = FALSE /\ ForgetReports({}) /\ fromSpace' = {}
        /\ toSpace' = IF all # {} THEN all ELSE {FreeBlock({})}
        /\ UNCHANGED <<store, loaned, borrowed, blocksToCopy, copyIndex, todo, collections, marked>>
    BY DEF SpaceDoneCopying, KeepBlocks, GoTo, markVars, heapVars
  <1>2. \A t \in Thread : pc'[t] = IF t = Main THEN "endCopy" ELSE pc[t]
    BY <1>1 DEF Before, IInv, PhaseTypes
  <1>3. pc'[Main] = "endCopy"
    BY <1>2, ThreadFacts
  <1>4. \A t \in Thread : borrowed[t] = NoBlock /\ ~Borrows(t) /\ todo[t] = <<>>
    BY <1>1, NoLoans
  <1>5. /\ ~Copying' /\ ~Reporting' /\ ~Free /\ ~Begins
        /\ \A t \in Thread : ~Borrows(t)' /\ pc'[t] # "copyDone"
    BY <1>1, <1>2, <1>3, <1>4
    DEF Copying, Reporting, Tracing, Marking, Free, Begins, Borrows, CopyPlace
  <1>6. ReportTypes' /\ \A b \in Block : BlockReports(b)'
    BY <1>1, EmptyReports
  <1>7. toSpace' \subseteq Block
    BY <1>1, BlocksExist DEF Before, CInv, CopyTypes
  <1>8. CopyTypes'
    BY <1>1, <1>6, <1>7 DEF Before, CInv, CopyTypes, ReportTypes
  <1>9. Loans'
    <2>1. \A t \in Thread : borrowed'[t] = NoBlock /\ NoBlock \notin toSpace' \cup fromSpace'
      BY <1>1, <1>4, <1>7, BlockAssumption
    <2> QED
      BY <1>1, <1>5, <2>1 DEF Before, CInv, Loans
  <1>10. Spaces'
    <2>1. \A c \in Cell : store'[c] = NoBlock \/ store'[c] \in all
      BY <1>1, NoLoans DEF Before, CInv, Spaces
    <2>2. CASE all # {}
      <3>1. toSpace' = all /\ fromSpace' = {}
        BY <1>1, <2>2
      <3> QED
        BY <1>1, <2>1, <3>1 DEF Before, CInv, Spaces, InUse, Holds, AllGone
    <2>3. CASE all = {}
      <3>1. toSpace' = {FreeBlock({})} /\ fromSpace' = {}
        BY <1>1, <2>3
      <3>2. AllGone'
        BY <2>1, <2>3 DEF AllGone
      <3> QED
        BY <3>1, <3>2, BlocksExist DEF Spaces, AllGone
    <2> QED
      BY <2>2, <2>3
  <1>11. Reports'
    BY <1>5, <1>6 DEF Reports, BlockReports
  <1>12. CopyWork'
    BY <1>1, <1>3, <1>4, <1>5 DEF Before, CInv, CopyWork
  <1>13. Survivors'
    BY <1>1, <1>5, SurvivorsKept DEF Before, After, CInv
  <1> QED
    BY <1>8, <1>9, <1>10, <1>11, <1>12, <1>13 DEF CInv

(* A thread whose block is full is given one that nobody uses.             *)
LEMMA Exchange ==
    ASSUME Before, NEW t \in Thread, pc[t] \in CopyPlace, Holds(borrowed[t]), ~AllGone
    PROVE  FreeBlock(InUse) \in Block \ InUse
  <1> DEFINE others == Thread \ {t}
  <1>1. \A c \in Cell : InitStore[c] = NoBlock => store[c] = NoBlock
    BY DEF Before, CInv, Survivors
  <1>2. \A b \in toSpace \cup fromSpace : b # NoBlock /\ Holds(b)
    BY BlockAssumption DEF Before, CInv, CopyTypes, Spaces
  <1>3. \A b \in InUse : (b # NoBlock /\ Holds(b)) \/ \E u \in others : b = borrowed[u]
    BY <1>2, Borrower DEF InUse
  <1>4. /\ Cardinality(Thread) \in Nat /\ Cardinality(others) = Cardinality(Thread) - 1
        /\ others \in SUBSET Thread
    BY ThreadFacts, RemoveOne
  <1> HIDE DEF others, InUse
  <1>5. PICK free \in SUBSET (Block \ InUse) :
            IsFiniteSet(free) /\ Cardinality(free) >= Cardinality(Thread) - Cardinality(others)
    BY <1>1, <1>3, <1>4, EnoughBlocks
  <1>6. free # {}
    BY <1>4, <1>5, FS_EmptySet
  <1> QED
    BY <1>5, <1>6, FreeBlockIs

LEMMA CopyItemKeeps ==
    ASSUME Before, After, NEW t \in Thread, NEW c \in Cell, CopyItem(t, c),
           UNCHANGED <<markVars, heapVars>>
    PROVE  CInv'
  <1> DEFINE b == Head(todo[t])
             lent == borrowed[t]
             full == DataSize(store, lent) >= Capacity
             block == IF full THEN FreeBlock(InUse) ELSE lent
             last == workList[b] = {c}
             moved == [store EXCEPT ![c] = block]
  <1>1. /\ pc[t] = "copy" /\ pc[t] \in CopyPlace /\ todo[t] # <<>> /\ c \in workList[b]
        /\ pc' = pc /\ UNCHANGED <<phase, blocksToCopy, copyIndex, pinned, loaned, inCopyingPhase,
                                   collections, marked, sharedStack, stack>>
    BY DEF CopyItem, markVars, heapVars, CopyPlace
  <1>2. /\ workList' = [workList EXCEPT ![b] = @ \ {c}]
        /\ liveBytes' = [liveBytes EXCEPT ![b] = @ - 1]
        /\ borrowed' = [borrowed EXCEPT ![t] = block]
        /\ toSpace' = IF full THEN toSpace \cup {lent} ELSE toSpace
        /\ fromSpace' = IF last THEN fromSpace \ {b} ELSE fromSpace
        /\ store' = IF last THEN Deallocate(moved, {b}) ELSE moved
        /\ todo' = IF last THEN [todo EXCEPT ![t] = Tail(@)] ELSE todo
    BY DEF CopyItem
  <1>3. /\ Copying /\ inCopyingPhase /\ ~Free /\ ~Marking /\ Reporting /\ collections > 0
        /\ lent \in Block /\ lent # NoBlock /\ lent \notin toSpace \cup fromSpace
        /\ \A x \in Cell : ~Stacked(x)
    BY <1>1, Borrower
  <1>4. /\ Copying' /\ ~Begins /\ (Free => Free') /\ \A u \in Thread : Borrows(u)' <=> Borrows(u)
    BY <1>1, <1>3 DEF Copying, Begins, Marking, Free, Borrows
  <1>5. CopyTypes
    BY DEF Before, CInv
  <1>6. b \in Block /\ todo[t] \in Seq(Block)
    BY <1>1, <1>5 DEF CopyTypes
  <1>7. b \in fromSpace \ pinned /\ store[c] = b /\ b # NoBlock /\ b # lent
    BY <1>1, <1>3, <1>6, BlockAssumption DEF Before, CInv, Reports
  <1>8. full => Holds(lent)
    BY DataIsHeld, BlockAssumption
  <1>9. ~AllGone
    BY <1>7 DEF AllGone
  <1>10. /\ block \in Block /\ block \notin toSpace' \cup fromSpace' /\ block # b /\ block # NoBlock
         /\ block \notin fromSpace
         /\ \A u \in Thread : u # t => borrowed[u] # block
    <2>1. CASE full
      <3>1. block \in Block \ InUse
        BY <1>1, <1>8, <1>9, <2>1, Exchange
      <3>2. lent \in InUse
        BY <1>3 DEF InUse
      <3> QED
        BY <1>2, <1>7, <2>1, <3>1, <3>2, BlockAssumption DEF InUse
    <2>2. CASE ~full
      BY <1>2, <1>3, <1>7, <2>2 DEF Before, CInv, Loans
    <2> QED
      BY <2>1, <2>2
  <1>11. /\ \A u \in Thread : borrowed'[u] = IF u = t THEN block ELSE borrowed[u]
         /\ borrowed' \in [Thread -> Block \cup {NoBlock}]
    BY <1>2, <1>5, <1>10 DEF CopyTypes
  <1>12. /\ \A x \in Cell : store'[x] = IF x = c THEN block
                                        ELSE IF last /\ store[x] = b THEN NoBlock ELSE store[x]
         /\ store' \in [Cell -> Block \cup {NoBlock}]
    BY <1>2, <1>5, <1>10 DEF CopyTypes, Deallocate
  <1>13. \A y \in Block : /\ workList'[y] = IF y = b THEN workList[b] \ {c} ELSE workList[y]
                          /\ liveBytes'[y] = IF y = b THEN liveBytes[b] - 1 ELSE liveBytes[y]
    BY <1>2, <1>5 DEF CopyTypes
  <1>14. /\ Cardinality(workList[b] \ {c}) = Cardinality(workList[b]) - 1
         /\ Cardinality(workList[b]) \in Nat /\ Cardinality(workList[b]) >= 1
         /\ Cardinality(workList[b]) <= liveBytes[b] /\ liveBytes[b] \in Nat
    <2>1. IsFiniteSet(workList[b])
      BY <1>5, <1>6, MemoryAssumption, FS_Subset DEF CopyTypes
    <2> QED
      BY <1>1, <1>5, <1>6, <2>1, RemoveOne DEF Before, CInv, Reports, CopyTypes
  <1>15. \A x \in marked : x \in Cell /\ Handled(x)
    BY <1>3 DEF Before, CInv, Reports, IInv, PhaseTypes
  <1>16. /\ \A y \in toSpace : y \in toSpace' /\ y # b
         /\ \A y \in toSpace' : y \in toSpace \/ (full /\ y = lent)
         /\ \A y \in fromSpace : y \in fromSpace' \/ (last /\ y = b)
         /\ \A y \in fromSpace' : y \in fromSpace /\ ~(last /\ y = b)
    BY <1>2, <1>7 DEF Before, CInv, Spaces
  <1> HIDE DEF block, full
  <1>17. CopyTypes'
    <2>1. toSpace' \subseteq Block /\ fromSpace' \subseteq Block
      BY <1>3, <1>5, <1>16 DEF CopyTypes
    <2>2. liveBytes' \in [Block -> Nat] /\ workList' \in [Block -> SUBSET Cell]
      <3>1. liveBytes[b] - 1 \in Nat
        BY <1>14
      <3> QED
        BY <1>2, <1>5, <1>6, <3>1 DEF CopyTypes
    <2>3. todo' \in [Thread -> Seq(Block)]
      <3>1. Tail(todo[t]) \in Seq(Block)
        BY <1>1, <1>6
      <3> QED
        BY <1>2, <1>5, <3>1 DEF CopyTypes
    <2>4. inCopyingPhase' \in BOOLEAN
      BY <1>1, <1>5 DEF CopyTypes
    <2> QED
      BY <1>1, <1>5, <1>11, <1>12, <2>1, <2>2, <2>3, <2>4 DEF CopyTypes
  <1>18. Loans'
    <2>1. \A u \in Thread : borrowed'[u] # NoBlock <=> borrowed[u] # NoBlock
      BY <1>3, <1>10, <1>11
    <2>2. {u \in Thread : borrowed'[u] # NoBlock} = {u \in Thread : borrowed[u] # NoBlock}
      BY <2>1
    <2>3. ASSUME NEW u \in Thread PROVE borrowed'[u] \notin toSpace' \cup fromSpace'
      <3>1. u # t => borrowed[u] # lent /\ borrowed[u] \notin toSpace \cup fromSpace
        BY <1>3 DEF Before, CInv, Loans
      <3> QED
        BY <1>10, <1>11, <1>16, <3>1
    <2>4. \A u, v \in Thread : borrowed'[u] = borrowed'[v] /\ borrowed'[u] # NoBlock => u = v
      BY <1>10, <1>11 DEF Before, CInv, Loans
    <2> QED
      BY <1>1, <1>3, <1>4, <2>1, <2>2, <2>3, <2>4 DEF Before, CInv, Loans
  <1>19. Spaces'
    <2>1. ASSUME NEW x \in Cell, store'[x] # NoBlock PROVE store'[x] \in InUse'
      <3>1. CASE x = c
        BY <1>10, <1>11, <1>12, <3>1 DEF InUse
      <3>2. CASE x # c
        <4>1. store'[x] = store[x] /\ store[x] \in InUse /\ ~(last /\ store[x] = b)
          BY <1>12, <2>1, <3>2 DEF Before, CInv, Spaces
        <4>2. CASE store[x] \in toSpace \cup fromSpace
          BY <1>16, <4>1, <4>2 DEF InUse
        <4>3. CASE store[x] = lent
          <5>1. CASE full
            BY <1>2, <4>1, <4>3, <5>1 DEF InUse
          <5>2. CASE ~full
            BY <1>10, <1>11, <4>1, <4>3, <5>2 DEF InUse, block
          <5> QED
            BY <5>1, <5>2
        <4>4. CASE \E u \in Thread : u # t /\ store[x] = borrowed[u]
          <5>1. PICK u \in Thread : u # t /\ store[x] = borrowed[u]
            BY <4>4
          <5> QED
            BY <1>11, <2>1, <4>1, <5>1 DEF InUse
        <4> QED
          BY <4>1, <4>2, <4>3, <4>4 DEF InUse
      <3> QED
        BY <3>1, <3>2
    <2>2. ASSUME NEW y \in toSpace' \cup fromSpace' PROVE Holds(y)'
      <3>1. CASE y = b
        <4>1. y \in fromSpace' /\ ~last
          BY <1>3, <1>7, <1>16, <3>1
        <4>2. PICK x \in workList[b] : x # c
          BY <1>1, <4>1
        <4>3. x \in Cell /\ store[x] = b
          BY <1>5, <1>6 DEF CopyTypes, Before, CInv, Reports
        <4> QED
          BY <1>12, <3>1, <4>1, <4>2, <4>3 DEF Holds
      <3>2. CASE y # b
        <4>1. Holds(y)
          <5>1. CASE y \in toSpace \cup fromSpace
            BY <1>9, <5>1 DEF Before, CInv, Spaces
          <5>2. CASE full /\ y = lent
            BY <1>8, <5>2
          <5> QED
            BY <1>16, <5>1, <5>2
        <4>2. PICK x \in Cell : store[x] = y
          BY <4>1 DEF Holds
        <4> QED
          BY <1>7, <1>12, <3>2, <4>2 DEF Holds
      <3> QED
        BY <3>1, <3>2
    <2>3. toSpace' \cap fromSpace' = {}
      BY <1>3, <1>16 DEF Before, CInv, Spaces
    <2> QED
      BY <1>4, <2>1, <2>2, <2>3 DEF Spaces
  <1>20. Reports'
    <2>1. ASSUME NEW y \in Block
          PROVE  /\ workList'[y] # {} => y \notin pinned'
                 /\ \A x \in workList'[y] : store'[x] = y
                 /\ Cardinality(workList'[y]) <= liveBytes'[y]
                 /\ workList'[y] # {} <=> y \in fromSpace' \ pinned'
      <3>1. /\ workList[y] # {} => y \notin pinned
            /\ \A x \in workList[y] : x \in Cell /\ store[x] = y
            /\ Cardinality(workList[y]) <= liveBytes[y]
            /\ workList[y] # {} <=> y \in fromSpace \ pinned
        BY <1>3, <1>5 DEF Before, CInv, Reports, CopyTypes
      <3>2. CASE y = b
        <4>1. workList'[y] # {} <=> ~last
          BY <1>1, <1>13, <3>2
        <4>2. \A x \in workList'[y] : store'[x] = y
          BY <1>12, <1>13, <3>1, <3>2, <4>1
        <4>3. Cardinality(workList'[y]) <= liveBytes'[y]
          BY <1>13, <1>14, <3>2
        <4> QED
          BY <1>1, <1>7, <1>16, <3>2, <4>1, <4>2, <4>3
      <3>3. CASE y # b
        <4>1. workList'[y] = workList[y] /\ liveBytes'[y] = liveBytes[y]
          BY <1>13, <3>3
        <4>2. \A x \in workList'[y] : store'[x] = y
          BY <1>7, <1>12, <3>1, <3>3, <4>1
        <4> QED
          BY <1>1, <1>16, <3>1, <3>3, <4>1, <4>2
      <3> QED
        BY <3>2, <3>3
    <2>2. ASSUME NEW x \in marked' PROVE Handled(x)'
      <3>1. x \in Cell /\ Handled(x) /\ ~Stacked(x)
        BY <1>1, <1>3, <1>15
      <3>2. CASE x = c
        <4>1. store'[x] = block /\ block \notin fromSpace'
          BY <1>10, <1>12, <3>2
        <4> QED
          BY <1>4, <4>1 DEF Handled
      <3>3. CASE x # c /\ store[x] = b
        <4>1. x \in workList[b]
          BY <1>7, <3>1, <3>3 DEF Handled
        <4>2. ~last /\ store'[x] = b /\ x \in workList'[b]
          BY <1>6, <1>12, <1>13, <3>1, <3>3, <4>1
        <4> QED
          BY <4>2 DEF Handled
      <3>4. CASE x # c /\ store[x] # b
        <4>1. store'[x] = store[x] /\ (store[x] \in Block => workList'[store[x]] = workList[store[x]])
          BY <1>12, <1>13, <3>1, <3>4
        <4>2. store[x] \in Block \cup {NoBlock}
          BY <1>5, <3>1 DEF CopyTypes
        <4>3. store[x] \notin fromSpace => store'[x] \notin fromSpace'
          BY <1>16, <4>1
        <4> QED
          BY <1>1, <1>4, <3>1, <4>1, <4>2, <4>3 DEF Handled
      <3> QED
        BY <3>2, <3>3, <3>4
    <2> QED
      BY <1>4, <2>1, <2>2 DEF Reports
  <1>21. CopyWork'
    <2>1. \A u \in Thread : todo'[u] # <<>> => pc'[u] = "copy"
      BY <1>1, <1>2, <1>5 DEF CopyTypes, Before, CInv, CopyWork
    <2>2. ASSUME NEW y \in fromSpace' \ pinned' PROVE Listed(y)'
      <3>1. Listed(y) /\ ~(last /\ y = b)
        BY <1>1, <1>3, <1>16 DEF Before, CInv, CopyWork
      <3>2. CASE \E i \in copyIndex + 1 .. Len(blocksToCopy) : blocksToCopy[i] = y
        BY <1>1, <3>2 DEF Listed
      <3>3. CASE \E u \in Thread : \E i \in DOMAIN todo[u] : todo[u][i] = y
        <4>1. PICK u \in Thread : \E i \in DOMAIN todo[u] : todo[u][i] = y
          BY <3>3
        <4>2. \E i \in DOMAIN todo'[u] : todo'[u][i] = y
          <5>1. CASE u # t \/ ~last
            <6>1. todo'[u] = todo[u]
              BY <1>2, <1>5, <5>1 DEF CopyTypes
            <6> QED
              BY <4>1, <6>1
          <5>2. CASE u = t /\ last
            <6>1. PICK i \in DOMAIN todo[t] : todo[t][i] = y
              BY <4>1, <5>2
            <6>2. todo[t][i] # Head(todo[t])
              BY <3>1, <5>2, <6>1
            <6>3. \E j \in DOMAIN Tail(todo[t]) : Tail(todo[t])[j] = todo[t][i]
              BY <1>1, <1>6, <6>2, TailLists
            <6>4. todo'[u] = Tail(todo[t])
              BY <1>2, <1>5, <5>2 DEF CopyTypes
            <6> QED
              BY <6>1, <6>3, <6>4
          <5> QED
            BY <5>1, <5>2
        <4> QED
          BY <4>2 DEF Listed
      <3> QED
        BY <3>1, <3>2, <3>3 DEF Listed
    <2> QED
      BY <1>1, <2>1, <2>2 DEF Before, CInv, CopyWork
  <1>22. Survivors'
    <2>1. ASSUME NEW x \in Cell
          PROVE  /\ store[x] = NoBlock => store'[x] = NoBlock
                 /\ Needed(x)' /\ store[x] # NoBlock => store'[x] # NoBlock
      <3>1. store[x] = NoBlock => store'[x] = NoBlock
        BY <1>7, <1>12
      <3>2. ASSUME Needed(x)', store[x] # NoBlock PROVE store'[x] # NoBlock
        <4>1. x \in marked
          <5>1. ~Marking' /\ collections' > 0
            BY <1>1, <1>3 DEF Marking
          <5> QED
            BY <1>1, <3>2, <5>1 DEF Needed
        <4>2. store[x] = b => x \in workList[b]
          BY <1>3, <1>7, <1>15, <4>1 DEF Handled
        <4> QED
          BY <1>10, <1>12, <3>2, <4>2
      <3> QED
        BY <3>1, <3>2
    <2> QED
      BY <1>1, <1>4, <2>1, SurvivorsKept DEF Before, After, CInv
  <1> QED
    BY <1>17, <1>18, <1>19, <1>20, <1>21, <1>22 DEF CInv

-----------------------------------------------------------------------------
(* The invariant holds.                                                    *)
LEMMA ThreadStepCopies ==
    ASSUME Before, After, NEW t \in Thread, ThreadStep(t)
    PROVE  CInv'
  <1>1. CASE UNCHANGED <<copyVars, heapVars>> /\ \E c \in Cell : VisitCell(t, c)
    BY <1>1, VisitCellCopies
  <1>2. CASE /\ UNCHANGED <<copyVars, heapVars>>
             /\ \/ Drained(t, "drain", "share") \/ Donate(t) \/ EnterDrain(t) \/ Share(t)
                \/ WakeMarker(t)
    BY <1>2, ThreadMarks
  <1>3. CASE UNCHANGED <<markVars, heapVars>> /\ GetNextBlocksToCopy(t)
    BY <1>3, GetNextKeeps
  <1>4. CASE UNCHANGED <<markVars, heapVars>> /\ SkipBlock(t)
    BY <1>4, SkipBlockKeeps
  <1>5. CASE UNCHANGED <<markVars, heapVars>> /\ \E c \in Cell : CopyItem(t, c)
    BY <1>5, CopyItemKeeps
  <1>6. CASE /\ UNCHANGED <<markVars, heapVars>>
             /\ DoneCopying(t, IF t = Main THEN "loanWait" ELSE "phaseWait")
    BY <1>6, DoneCopyingKeeps
  <1> QED
    BY <1>1, <1>2, <1>3, <1>4, <1>5, <1>6, Zenon DEF ThreadStep

LEMMA NextCInv ==
    ASSUME Before, After, [Next]_vars
    PROVE  CInv'
  <1>1. CASE MainStep
    <2>1. CASE ThreadStep(Main)
      BY <2>1, ThreadFacts, ThreadStepCopies
    <2>2. CASE AppendRoots \/ RootsDrained \/ VisitWeak \/ FinishMarking
      BY <2>2, MainMarks
    <2>3. CASE \/ EndMark \/ Marked \/ AwaitLoans \/ EndCopy \/ Join
               \/ /\ \/ \E p \in ActivityWait : AwaitIdleThreads(p)
                     \/ IdleThreads("startWait", "mutator")
                     \/ IdleThreads("copyWait", "mutator")
                  /\ UNCHANGED <<markVars, copiedSpaceVars, copyVars, heapVars>>
      BY <2>3, MainWaits
    <2>4. CASE SkipCopying
      BY <2>4, SkipCopyingKeeps
    <2>5. CASE StartCopyPhase
      BY <2>5, StartCopyPhaseKeeps
    <2>6. CASE StartCopyingMain
      BY <2>6, StartCopyingMainKeeps
    <2>7. CASE SpaceDoneCopying
      BY <2>7, SpaceDoneKeeps
    <2> QED
      BY <1>1, <2>1, <2>2, <2>3, <2>4, <2>5, <2>6, <2>7, Zenon DEF MainStep
  <1>2. CASE Mutator
    <2>1. CASE \E g \in DOMAIN roots : \E c \in roots[g] : DropRoot(g, c)
      BY <2>1, DropRootKeeps
    <2>2. CASE \E pins \in SUBSET toSpace : Cardinality(pins) <= MaxPins /\ Collect(pins)
      BY <2>2, CollectKeeps
    <2>3. CASE Destroy
      BY <2>3, MainWaits
    <2> QED
      BY <1>2, <2>1, <2>2, <2>3 DEF Mutator
  <1>3. CASE \E t \in Worker : WorkerStep(t)
    <2>1. PICK t \in Worker : WorkerStep(t)
      BY <1>3
    <2>2. CASE ThreadStep(t)
      BY <2>2, ThreadFacts, ThreadStepCopies
    <2>3. CASE /\ UNCHANGED <<markVars, copiedSpaceVars, copyVars, heapVars>>
               /\ WaitForNextPhase(t) \/ NextPhase(t)
      BY <2>3, WorkerWaits
    <2> QED
      BY <2>1, <2>2, <2>3 DEF WorkerStep
  <1>4. CASE UNCHANGED vars
    <2>1. /\ UNCHANGED <<copiedSpaceVars, copyVars, collections, marked, stackVars>>
          /\ pc' = pc /\ phase' = phase
      BY <1>4 DEF vars, sharedDataVars, markVars, heapVars
    <2> QED
      BY <2>1, StayIsSame, PlainKeeps DEF Free, Marking
  <1> QED
    BY <1>1, <1>2, <1>3, <1>4 DEF Next

LEMMA InitCInv == Init => CInv
  <1> SUFFICES ASSUME Init PROVE CInv
    OBVIOUS
  <1>1. /\ pc = [t \in Thread |-> IF t = Main THEN "startWait" ELSE "phaseWait"] /\ phase = "NoPhase"
        /\ store = InitStore /\ toSpace = {InitStore[c] : c \in Cell} \ {NoBlock}
        /\ fromSpace = {} /\ pinned = {} /\ loaned = 0 /\ borrowed = [t \in Thread |-> NoBlock]
        /\ blocksToCopy = <<>> /\ copyIndex = 0 /\ todo = [t \in Thread |-> <<>>] /\ collections = 0
        /\ workList = [b \in Block |-> {}] /\ liveBytes = [b \in Block |-> 0]
    BY DEF Init, SharedDataInit, CopiedSpaceInit, CopyVisitorInit
  <1>2. pc[Main] = "startWait" /\ \A t \in Thread : pc[t] \in {"startWait", "phaseWait"}
    BY <1>1, ThreadFacts
  <1>3. ~inCopyingPhase /\ inCopyingPhase \in BOOLEAN
    BY Zenon DEF Init, CopiedSpaceInit
  <1>4. ~Copying /\ ~Reporting /\ ~Marking /\ \A t \in Thread : ~Borrows(t)
    BY <1>1, <1>2 DEF Copying, Reporting, Tracing, Marking, Borrows, CopyPlace
  <1>5. CopyTypes
    BY <1>1, <1>3, BlockAssumption DEF CopyTypes
  <1>6. Loans
    <2>1. {t \in Thread : borrowed[t] # NoBlock} = {} /\ \A t \in Thread : borrowed[t] = NoBlock
      BY <1>1
    <2>2. NoBlock \notin toSpace \cup fromSpace
      BY <1>1
    <2> QED
      BY <1>1, <1>3, <1>4, <2>1, <2>2, FS_EmptySet DEF Loans
  <1>7. Spaces
    BY <1>1 DEF Spaces, InUse, Holds
  <1>8. Reports
    BY <1>1, <1>4, FS_EmptySet DEF Reports
  <1>9. CopyWork
    BY <1>1, <1>2, <1>4 DEF CopyWork
  <1>10. Survivors
    BY <1>1, <1>2, <1>4 DEF Survivors, Needed
  <1> QED
    BY <1>5, <1>6, <1>7, <1>8, <1>9, <1>10 DEF CInv

LEMMA CopyingInvariantHolds == Spec => []Before
  <1>1. Before /\ [Next]_vars => CInv'
    BY NextIInv, NextIs, NextCInv DEF Before, After
  <1> QED
    BY <1>1, InitCInv, MarkingInvariantHolds, DrainedIsQuiet, PTL DEF Spec, Before

(* Every variable of the collector stays in its type; m_liveBytes and the  *)
(* counts of active threads, markers and lent blocks do not wrap around.   *)
THEOREM HeapTypes == Spec => []TypeOK
  <1>1. Before => TypeOK
    <2> SUFFICES ASSUME Before PROVE TypeOK
      OBVIOUS
    <2>1. loaned \in Nat
      <3>1. IsFiniteSet({t \in Thread : borrowed[t] # NoBlock})
        BY ThreadFacts, FS_Subset
      <3> QED
        BY <3>1, FS_CardinalityType DEF Before, CInv, Loans
    <2> QED
      BY <2>1 DEF Before, TypeOK, IInv, PhaseTypes, RootTypes, CInv, CopyTypes
  <1> QED
    BY <1>1, CopyingInvariantHolds, PTL

(* A thread in the copying loop has a block to copy into, also if it comes *)
(* late to the phase, and blocks are on loan in the phase only             *)
(* (CopiedSpace.cpp:152, 175-177).                                         *)
THEOREM LoansAreInPhase == Spec => []BlocksLentInPhase
  <1>1. Before => BlocksLentInPhase
    <2> SUFFICES ASSUME Before PROVE BlocksLentInPhase
      OBVIOUS
    <2>1. \A t \in Thread : pc[t] \in CopyPlace => borrowed[t] # NoBlock
      BY Borrower
    <2>2. loaned = Cardinality({t \in Thread : borrowed[t] # NoBlock})
      BY DEF Before, CInv, Loans
    <2>3. ASSUME loaned > 0 PROVE inCopyingPhase
      <3>1. {t \in Thread : borrowed[t] # NoBlock} # {}
        BY <2>2, <2>3, FS_EmptySet
      <3> QED
        BY <3>1 DEF Before, CInv, Loans
    <2> QED
      BY <2>1, <2>2, <2>3 DEF BlocksLentInPhase, CopyPlace
  <1> QED
    BY <1>1, CopyingInvariantHolds, PTL

(* When the last block has been given back only pinned blocks are left in  *)
(* from-space: every block that was to be evacuated has been.              *)
THEOREM EvacuationIsComplete == Spec => []EvacuatedBlocksGone
  <1>1. Before => EvacuatedBlocksGone
    BY NoLoans DEF EvacuatedBlocksGone
  <1> QED
    BY <1>1, CopyingInvariantHolds, PTL

(* Between collections every cell that is marked, and before the first one *)
(* every cell, still has its backing store, in to-space, and from-space is *)
(* empty (CopiedSpace.cpp:246), however the threads shared the copying.    *)
THEOREM MarkedStoresSurvive == Spec => []StoresSurvive
  <1>1. Before => StoresSurvive
    <2> SUFFICES ASSUME Before, pc[Main] = "mutator"
                 PROVE  /\ fromSpace = {}
                        /\ \A c \in Cell : InitStore[c] # NoBlock /\ (collections = 0 \/ c \in marked) =>
                              store[c] \in toSpace
      BY DEF StoresSurvive
    <2>1. fromSpace = {} /\ InUse = toSpace
      BY Idle
    <2>2. \A c \in Cell : InitStore[c] # NoBlock /\ (collections = 0 \/ c \in marked) => store[c] # NoBlock
      BY DEF Before, CInv, Survivors, Needed
    <2> QED
      BY <2>1, <2>2 DEF Before, CInv, Spaces
  <1> QED
    BY <1>1, CopyingInvariantHolds, PTL
=============================================================================
