------------------------------- MODULE MCHeap -------------------------------
(***************************************************************************)
(* Two small heaps.  To see the threads mark: the root r refers to a and   *)
(* e, which both refer to c, and e to d, which closes a cycle; a adds an   *)
(* opaque root, for which the weak handle of w asks; the other root m is a *)
(* weak map with the entry c -> v.                                         *)
(* To see them copy: a chain from r, with a block of its own for each of   *)
(* a, w and v, and one for e and c together.                               *)
(***************************************************************************)
EXTENDS HeapProperties

CONSTANTS r, m, a, e, c, d, w, v, o, main, g1, g2

Graph == [x \in Cell |-> CASE x = r -> {a, e} [] x = a -> {c} [] x = e -> {c, d}
                           [] x = d -> {r, m} [] OTHER -> {}]
AddsRoot == [x \in Cell |-> IF x = a THEN {o} ELSE {}]
Handles == [x \in {w} |-> o]
Entries == {<<m, c, v>>}
TwoGroups == <<{r}, {m}>>
NoStores == [x \in Cell |-> 0]

Chain == [x \in Cell |-> CASE x = r -> {a} [] x = a -> {e} [] x = e -> {c} [] x = c -> {w}
                           [] x = w -> {v} [] OTHER -> {}]
AddsNone == [x \in Cell |-> {}]
NoEntries == {}
NoHandles == [x \in {} |-> o]
ChainRoots == <<{r}, {w}>>
FourBlocks == [x \in Cell |-> CASE x = a -> 1 [] x \in {e, c} -> 2 [] x = w -> 3
                                [] x = v -> 4 [] OTHER -> 0]
EightBlocks == 1..8
=============================================================================
