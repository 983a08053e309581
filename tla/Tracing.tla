------------------------------- MODULE Tracing -------------------------------
(***************************************************************************)
(* What a collection promises about marking, whatever the number of        *)
(* threads: from an unmarked heap it marks live cells only, and it ends    *)
(* only when all of them are marked.                                       *)
(***************************************************************************)
CONSTANTS Cell, LiveCells(_)

VARIABLES tracing, marked, roots

vars == <<tracing, marked, roots>>

Live == LiveCells(roots)

Init == ~tracing /\ marked = {}

(* The mutator drops references while nothing is traced.                   *)
Mutate ==
    /\ ~tracing /\ ~tracing'
    /\ roots' # roots /\ marked' = marked
    /\ Live' \subseteq Live

Begin == ~tracing /\ tracing' /\ marked' = {} /\ UNCHANGED roots

Trace ==
    /\ tracing /\ tracing'
    /\ marked' # marked /\ marked \subseteq marked'
    /\ marked' \subseteq Live
    /\ UNCHANGED roots

End == tracing /\ ~tracing' /\ marked = Live /\ UNCHANGED <<marked, roots>>

Next == Mutate \/ Begin \/ Trace \/ End

Spec == Init /\ [][Next]_vars

(* A trace that has begun comes to its end.                                *)
Ends == tracing ~> ~tracing
=============================================================================
