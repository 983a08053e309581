-------------------------- MODULE GCThreadSharedData --------------------------
(***************************************************************************)
(* The phases of a parallel collection (GCThreadSharedData.cpp,            *)
(* GCThread.cpp).  The main thread starts and ends a phase; the GC threads *)
(* wait for the next phase, run it and report that they are idle again.    *)
(*                                                                         *)
(* Everything done under one lock without waiting is one step.  A thread   *)
(* that waits on a condition is in `asleep', and its program counter says  *)
(* on which one; once it is taken out of the set it looks again.           *)
(***************************************************************************)
EXTENDS Naturals, FiniteSets

CONSTANTS
    Main,       \* the thread that runs JavaScript and collects
    Worker      \* the GC threads, numberOfGCMarkers() - 1 of them

ASSUME WorkerAssumption == IsFiniteSet(Worker) /\ Main \notin Worker

Thread == Worker \cup {Main}

VARIABLES
    pc,             \* where each thread is
    asleep,         \* the threads that wait on a condition
    phase,          \* m_currentPhase
    shouldWait,     \* m_gcThreadsShouldWait
    activeThreads   \* m_numberOfActiveGCThreads

phaseVars == <<phase, shouldWait, activeThreads>>
sharedDataVars == <<pc, asleep, phaseVars>>

Phase == {"NoPhase", "Mark", "Copy", "Exit"}

(* The waits of m_activityCondition, all of the main thread.               *)
ActivityWait == {"startWait", "markWait", "copyWait"}

Place == ActivityWait \cup
    {"mutator", "roots", "rootDrain", "rootDonate", "weak", "finish", "endMark", "startCopy",
     "copyOwn", "loanWait", "endCopy", "join", "destroyed",
     "enter", "share", "markingWait", "drain", "donate", "copyNext", "copy", "copyDone",
     "phaseWait", "nextPhaseWait", "exited"}

At(places) == {t \in Thread : pc[t] \in places}
GoTo(t, place) == pc' = [pc EXCEPT ![t] = place]

SharedDataInit ==
    /\ pc = [t \in Thread |-> IF t = Main THEN "startWait" ELSE "phaseWait"]
    /\ asleep = {}
    /\ phase = "NoPhase"
    /\ shouldWait = FALSE
    /\ activeThreads = Cardinality(Worker)

-----------------------------------------------------------------------------
(* Where a GC thread goes when it starts a phase (gcThreadMain).           *)
PhaseEntry(p) == CASE p = "Mark" -> "enter"
                   [] p = "Copy" -> "copyNext"
                   [] p = "Exit" -> "exited"

(* The second half of waitForNextPhase: wait while there is no phase, then *)
(* count as active and run it.  n is the number of active threads.         *)
AwaitPhase(t, n, sleepers) ==
    IF phase = "NoPhase"
    THEN /\ GoTo(t, "nextPhaseWait")
         /\ asleep' = sleepers \cup {t}
         /\ activeThreads' = n
    ELSE /\ GoTo(t, PhaseEntry(phase))
         /\ asleep' = sleepers
         /\ activeThreads' = n + 1

WaitForNextPhaseFaulty(t) ==
    /\ pc[t] = "phaseWait" /\ t \notin asleep
    /\ AwaitPhase(t, activeThreads - 1,
                  IF activeThreads = 1 THEN asleep \ At(ActivityWait) ELSE asleep)
    /\ UNCHANGED <<phase, shouldWait>>

(* waitForNextPhase: wait until the main thread has ended the phase this   *)
(* thread has run, report idle, and wait for the next one.                 *)
WaitForNextPhase(t) ==
    /\ pc[t] = "phaseWait" /\ t \notin asleep
    /\ IF shouldWait
       THEN asleep' = asleep \cup {t} /\ UNCHANGED <<pc, activeThreads>>
       ELSE AwaitPhase(t, activeThreads - 1,
                       IF activeThreads = 1 THEN asleep \ At(ActivityWait) ELSE asleep)
    /\ UNCHANGED <<phase, shouldWait>>

(* A GC thread wakes up in the second wait of waitForNextPhase.            *)
NextPhase(t) ==
    /\ pc[t] = "nextPhaseWait" /\ t \notin asleep
    /\ AwaitPhase(t, activeThreads, asleep)
    /\ UNCHANGED <<phase, shouldWait>>

-----------------------------------------------------------------------------
(* m_phaseCondition.broadcast().                                           *)
PhaseBroadcast == asleep' = asleep \ At({"phaseWait", "nextPhaseWait"})

(* startNextPhase(p), called by the main thread.                           *)
StartNextPhase(p) ==
    /\ shouldWait' = TRUE
    /\ phase' = p
    /\ PhaseBroadcast
    /\ UNCHANGED activeThreads

EndCurrentPhaseFaulty(place) ==
    /\ phase' = "NoPhase"
    /\ PhaseBroadcast
    /\ GoTo(Main, place)
    /\ UNCHANGED <<shouldWait, activeThreads>>

(* endCurrentPhase up to its wait: m_activityCondition, at `place'.        *)
EndCurrentPhase(place) ==
    /\ phase' = "NoPhase"
    /\ shouldWait' = FALSE
    /\ PhaseBroadcast
    /\ GoTo(Main, place)
    /\ UNCHANGED activeThreads

(* The main thread waits until no GC thread is active.                     *)
AwaitIdleThreads(place) ==
    /\ pc[Main] = place /\ Main \notin asleep
    /\ activeThreads > 0
    /\ asleep' = asleep \cup {Main}
    /\ UNCHANGED <<pc, phaseVars>>

(* The main thread goes on once no GC thread is active.                    *)
IdleThreads(place, next) ==
    /\ pc[Main] = place /\ Main \notin asleep
    /\ activeThreads = 0
    /\ GoTo(Main, next)
    /\ UNCHANGED <<asleep, phaseVars>>
=============================================================================
