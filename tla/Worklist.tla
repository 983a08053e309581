------------------------------ MODULE Worklist ------------------------------
(***************************************************************************)
(* DFG::Worklist of JavaScriptCore (dfg/DFGWorklist.cpp): virtual machines *)
(* give plans to a pool of compiler threads and install the compiled code  *)
(* later, on their own thread.  A plan is known by its key (a code block   *)
(* and a mode) as long as it is in m_plans.                                *)
(*                                                                         *)
(* Everything between two acquisitions of m_lock is one step.  One thread  *)
(* at a time runs a VM (the API lock), so a VM is a process here.          *)
(***************************************************************************)
EXTENDS Naturals, Sequences, FiniteSets

CONSTANTS Thread,    \* the compiler threads
          VM, Key,
          VMOf,      \* the VM that a code block belongs to
          NoKey,
          MaxPlans   \* how many plans are made

ASSUME WorklistAssumption ==
    /\ IsFiniteSet(Thread)
    /\ VMOf \in [Key -> VM]
    /\ NoKey \notin Key
    /\ MaxPlans \in Nat

VARIABLES
    queue,        \* m_queue
    plans,        \* the keys of m_plans
    ready,        \* m_readyPlans, whose plans are the ones with isCompiled
    asleep,       \* the threads that wait for m_planEnqueued
    job,          \* the plan that a thread compiles, or NoKey
    vmPc,         \* where the thread that runs a VM is
    goal,         \* why it calls the worklist
    requested,    \* requestedKey of completeAllReadyPlansForVM
    mine,         \* its myReadyPlans
    completed,    \* resultingState is Compiled
    replacement,  \* code blocks with an optimized replacement
    begun         \* plans made so far

workVars == <<queue, plans, ready, asleep, job>>
callVars == <<goal, requested, mine, completed>>
vars == <<workVars, vmPc, callVars, replacement, begun>>

KeysOf(v) == {k \in Key : VMOf[k] = v}

Init ==
    /\ queue = <<>>
    /\ plans = {}
    /\ ready = {}
    /\ asleep = {}
    /\ job = [t \in Thread |-> NoKey]
    /\ vmPc = [v \in VM |-> "run"]
    /\ goal = [v \in VM |-> "optimize"]
    /\ requested = [v \in VM |-> NoKey]
    /\ mine = [v \in VM |-> {}]
    /\ completed = [v \in VM |-> FALSE]
    /\ replacement = {}
    /\ begun = 0

-----------------------------------------------------------------------------
(* The compiler threads.                                                   *)

(* runThread waits for a plan and takes the first.                         *)
Take(t) ==
    /\ t \notin asleep
    /\ job[t] = NoKey
    /\ IF queue = <<>>
       THEN asleep' = asleep \cup {t} /\ UNCHANGED <<queue, job>>
       ELSE /\ job' = [job EXCEPT ![t] = Head(queue)]
            /\ queue' = Tail(queue)
            /\ UNCHANGED asleep
    /\ UNCHANGED <<plans, ready, vmPc, callVars, replacement, begun>>

(* m_planCompiled.broadcast wakes up every VM that waits.                  *)
WokenFaulty == LET waiting == {v \in VM : vmPc[v] = "asleep"}
               IN  IF waiting = {} THEN {} ELSE {CHOOSE v \in waiting : TRUE}
Woken == {v \in VM : vmPc[v] = "asleep"}

(* After compileInThread: notifyReady, and the plan is ready.              *)
Finish(t) ==
    /\ job[t] # NoKey
    /\ ready' = ready \cup {job[t]}
    /\ job' = [job EXCEPT ![t] = NoKey]
    /\ vmPc' = [v \in VM |-> IF v \in Woken THEN "wait" ELSE vmPc[v]]
    /\ UNCHANGED <<queue, plans, asleep, callVars, replacement, begun>>

-----------------------------------------------------------------------------
(* A VM calls the worklist for one of three reasons: operationOptimize     *)
(* wants a code block optimized, the collector or the debugger discards    *)
(* code (prepareToDiscardCode), or the VM is destroyed (~VM).              *)
Optimize(v) ==
    /\ vmPc[v] = "run"
    /\ \E k \in KeysOf(v) : requested' = [requested EXCEPT ![v] = k]
    /\ goal' = [goal EXCEPT ![v] = "optimize"]
    /\ vmPc' = [vmPc EXCEPT ![v] = "remove"]
    /\ UNCHANGED <<workVars, mine, completed, replacement, begun>>

StopVM(v) ==
    /\ vmPc[v] = "run"
    /\ \E g \in {"discard", "destroy"} : goal' = [goal EXCEPT ![v] = g]
    /\ requested' = [requested EXCEPT ![v] = NoKey]
    /\ vmPc' = [vmPc EXCEPT ![v] = "wait"]
    /\ UNCHANGED <<workVars, mine, completed, replacement, begun>>

(* waitUntilAllPlansForVMAreReady looks at the plans and waits for         *)
(* m_planCompiled if one of the VM is not compiled.                        *)
AllAreCompiledFaulty(v) == \A i \in DOMAIN queue : VMOf[queue[i]] # v
AllAreCompiled(v) == plans \cap KeysOf(v) \subseteq ready

WaitUntilAllPlansAreReady(v) ==
    /\ vmPc[v] = "wait"
    /\ vmPc' = [vmPc EXCEPT ![v] = IF AllAreCompiled(v) THEN "remove" ELSE "asleep"]
    /\ UNCHANGED <<workVars, callVars, replacement, begun>>

(* removeAllReadyPlansForVM; ~VM drops the plans.                          *)
Removed(v) == ready \cap KeysOf(v)

RemoveAllReadyPlans(v) ==
    /\ vmPc[v] = "remove"
    /\ ready' = ready \ Removed(v)
    /\ plans' = plans \ Removed(v)
    /\ completed' = [completed EXCEPT ![v] = FALSE]
    /\ IF goal[v] = "destroy"
       THEN vmPc' = [vmPc EXCEPT ![v] = "gone"] /\ UNCHANGED mine
       ELSE /\ mine' = [mine EXCEPT ![v] = Removed(v)]
            /\ vmPc' = [vmPc EXCEPT ![v] = "complete"]
    /\ UNCHANGED <<queue, asleep, job, goal, requested, replacement, begun>>

(* completeAllReadyPlansForVM finalizes the plans without the lock.  The   *)
(* callback installs the code unless the compilation failed or has become  *)
(* invalid.                                                                *)
CompletePlan(v) ==
    /\ vmPc[v] = "complete"
    /\ \E k \in mine[v], successful \in BOOLEAN :
        /\ mine' = [mine EXCEPT ![v] = @ \ {k}]
        /\ replacement' = IF successful THEN replacement \cup {k} ELSE replacement
        /\ completed' = [completed EXCEPT ![v] = @ \/ k = requested[v]]
    /\ UNCHANGED <<workVars, vmPc, goal, requested, begun>>

(* A state other than NotKnown: the plan was completed or is in m_plans.   *)
IsKnownFaulty(v) == completed[v]
IsKnown(v) == completed[v] \/ requested[v] \in plans

ShouldCompileFaulty(v) == ~IsKnown(v)
ShouldCompile(v) == ~IsKnown(v) /\ requested[v] \notin replacement

(* The rest of operationOptimize: the code block is compiled unless it is  *)
(* known or has a replacement (or needs more profiling, "run").  After     *)
(* completeAllPlansForVM code is discarded.                                *)
Completed(v) ==
    /\ vmPc[v] = "complete"
    /\ mine[v] = {}
    /\ \/ /\ goal[v] = "discard"
          /\ vmPc' = [vmPc EXCEPT ![v] = "discard"]
          /\ UNCHANGED begun
       \/ /\ goal[v] = "optimize"
          /\ vmPc' = [vmPc EXCEPT ![v] = "run"]
          /\ UNCHANGED begun
       \/ /\ goal[v] = "optimize"
          /\ ShouldCompile(v)
          /\ begun < MaxPlans
          /\ begun' = begun + 1
          /\ vmPc' = [vmPc EXCEPT ![v] = "enqueue"]
    /\ UNCHANGED <<workVars, callVars, replacement>>

(* enqueue signals m_planEnqueued, which wakes up one thread.              *)
WakesFaulty(t) == queue = <<>>
Wakes(t) == TRUE

Enqueue(v) ==
    /\ vmPc[v] = "enqueue"
    /\ plans' = plans \cup {requested[v]}
    /\ queue' = Append(queue, requested[v])
    /\ \/ /\ asleep = {} /\ UNCHANGED asleep
       \/ \E t \in asleep : asleep' = IF Wakes(t) THEN asleep \ {t} ELSE asleep
    /\ vmPc' = [vmPc EXCEPT ![v] = "run"]
    /\ UNCHANGED <<ready, job, callVars, replacement, begun>>

(* Code is discarded, and optimized code may be thrown away at any time    *)
(* when its VM runs (jettison).                                            *)
Discard(v) ==
    /\ vmPc[v] \in {"discard", "run"}
    /\ \E lost \in SUBSET (replacement \cap KeysOf(v)) : replacement' = replacement \ lost
    /\ vmPc' = [vmPc EXCEPT ![v] = "run"]
    /\ UNCHANGED <<workVars, callVars, begun>>

-----------------------------------------------------------------------------
CompilerThread(t) == Take(t) \/ Finish(t)

(* What a VM does by itself once it has called the worklist.               *)
VMThread(v) == \/ WaitUntilAllPlansAreReady(v) \/ RemoveAllReadyPlans(v)
               \/ CompletePlan(v) \/ Completed(v) \/ Enqueue(v)

Next == \/ \E t \in Thread : CompilerThread(t)
        \/ \E v \in VM : VMThread(v) \/ Optimize(v) \/ StopVM(v) \/ Discard(v)

Spec == Init /\ [][Next]_vars

(* The threads are scheduled fairly and compilations end.                  *)
FairSpec == /\ Spec
            /\ \A t \in Thread : WF_vars(CompilerThread(t))
            /\ \A v \in VM : WF_vars(VMThread(v))

-----------------------------------------------------------------------------
TypeOK ==
    /\ queue \in Seq(Key)
    /\ plans \subseteq Key
    /\ ready \subseteq Key
    /\ asleep \subseteq Thread
    /\ job \in [Thread -> Key \cup {NoKey}]
    /\ vmPc \in [VM -> {"run", "wait", "asleep", "remove", "complete",
                        "enqueue", "discard", "gone"}]
    /\ goal \in [VM -> {"optimize", "discard", "destroy"}]
    /\ requested \in [VM -> Key \cup {NoKey}]
    /\ mine \in [VM -> SUBSET Key]
    /\ completed \in [VM -> BOOLEAN]
    /\ replacement \subseteq Key
    /\ begun \in 0..MaxPlans

(* A plan in m_plans is queued, being compiled or ready, and in one place  *)
(* only; a plan that is there is in m_plans.  So compilationState is right *)
(* and a code block is never compiled twice at the same time (the          *)
(* assertion in enqueue, whose caller checked without holding the lock).   *)
OnePlanPerKey ==
    /\ \A i, j \in DOMAIN queue : queue[i] = queue[j] => i = j
    /\ \A s, t \in Thread : job[s] = job[t] /\ job[s] # NoKey => s = t
    /\ \A i \in DOMAIN queue : queue[i] \in plans \ ready
    /\ \A t \in Thread : job[t] # NoKey =>
           job[t] \in plans \ ready /\ \A i \in DOMAIN queue : queue[i] # job[t]
    /\ ready \subseteq plans
    /\ \A k \in plans \ ready :
           (\E i \in DOMAIN queue : queue[i] = k) \/ (\E t \in Thread : job[t] = k)

(* No thread sleeps while a plan waits that no other thread is about to    *)
(* take: one signal per plan wakes up enough threads.                      *)
Awake == {t \in Thread \ asleep : job[t] = NoKey}
NoIdleThread == asleep # {} => Len(queue) <= Cardinality(Awake)

(* While code is discarded (by the collector, say) and once a VM is gone,  *)
(* no thread holds or will get a plan of that VM.                          *)
NoPlanOfStoppedVM ==
    \A v \in VM : vmPc[v] \in {"discard", "gone"} => plans \cap KeysOf(v) = {}

(* "We cannot be in the process of asynchronous compilation and also have  *)
(* an optimized replacement" (asserted in operationOptimize).              *)
NoReplacementWhileCompiling == plans \cap replacement = {}

(* Waiting for the plans of a VM ends.                                     *)
WaitReturns == \A v \in VM : vmPc[v] \in {"wait", "asleep"} ~> vmPc[v] = "remove"
=============================================================================
