--------------------------- MODULE WorklistProofs ---------------------------
(***************************************************************************)
(* The safety properties of the worklist, for any number of VMs, code      *)
(* blocks, compiler threads and plans.                                     *)
(***************************************************************************)
EXTENDS Worklist, SequenceTheorems, FiniteSetTheorems, TLAPS

(* What a VM knows about its own plans at each point of a call, although   *)
(* it does not hold the lock: nobody else adds or removes them.            *)
OwnPlans ==
    \A v \in VM :
        /\ mine[v] \subseteq KeysOf(v) \ plans
        /\ vmPc[v] # "complete" => mine[v] = {}
        /\ vmPc[v] = "complete" => goal[v] # "destroy"
        /\ vmPc[v] \in {"wait", "asleep"} => goal[v] # "optimize"
        /\ vmPc[v] \in {"remove", "complete"} /\ goal[v] = "optimize" =>
               requested[v] \in KeysOf(v)
        /\ vmPc[v] = "enqueue" => requested[v] \in KeysOf(v) \ (plans \cup replacement)
        /\ vmPc[v] = "remove" /\ goal[v] # "optimize" =>
               plans \cap KeysOf(v) \subseteq ready
        /\ vmPc[v] = "complete" /\ goal[v] = "discard" => plans \cap KeysOf(v) = {}

Plans == OnePlanPerKey /\ NoReplacementWhileCompiling /\ NoPlanOfStoppedVM /\ OwnPlans

(* A sleeping thread has no plan.                                          *)
SleepersIdle == \A t \in asleep : job[t] = NoKey

IInv == TypeOK /\ SleepersIdle /\ NoIdleThread /\ Plans

-----------------------------------------------------------------------------
LEMMA InitImpliesIInv == Init => IInv
  <1> SUFFICES ASSUME Init PROVE IInv
    OBVIOUS
  <1> USE WorklistAssumption DEF Init
  <1>1. TypeOK
    BY DEF TypeOK
  <1>2. SleepersIdle /\ NoIdleThread
    BY DEF SleepersIdle, NoIdleThread
  <1>3. Plans
    BY DEF Plans, OnePlanPerKey, NoReplacementWhileCompiling, NoPlanOfStoppedVM,
           OwnPlans, KeysOf
  <1> QED
    BY <1>1, <1>2, <1>3 DEF IInv

(* Every step keeps the types.                                             *)
LEMMA NextTypeOK == IInv /\ [Next]_vars => TypeOK'
  <1> SUFFICES ASSUME IInv, [Next]_vars PROVE TypeOK'
    OBVIOUS
  <1> USE WorklistAssumption DEF IInv, TypeOK, workVars, callVars
  <1>1. ASSUME NEW t \in Thread, Take(t) PROVE TypeOK'
    <2>1. CASE queue = <<>>
      BY <1>1, <2>1 DEF Take
    <2>2. CASE queue # <<>>
      <3>1. Head(queue) \in Key /\ Tail(queue) \in Seq(Key)
        BY <2>2, HeadTailProperties
      <3> QED
        BY <1>1, <2>2, <3>1 DEF Take
    <2> QED
      BY <2>1, <2>2
  <1>2. ASSUME NEW t \in Thread, Finish(t) PROVE TypeOK'
    BY <1>2 DEF Finish, Woken
  <1>3. ASSUME NEW v \in VM, Optimize(v) PROVE TypeOK'
    BY <1>3 DEF Optimize, KeysOf
  <1>4. ASSUME NEW v \in VM, StopVM(v) PROVE TypeOK'
    BY <1>4 DEF StopVM
  <1>5. ASSUME NEW v \in VM, WaitUntilAllPlansAreReady(v) PROVE TypeOK'
    BY <1>5 DEF WaitUntilAllPlansAreReady
  <1>6. ASSUME NEW v \in VM, RemoveAllReadyPlans(v) PROVE TypeOK'
    BY <1>6 DEF RemoveAllReadyPlans, Removed
  <1>7. ASSUME NEW v \in VM, CompletePlan(v) PROVE TypeOK'
    BY <1>7 DEF CompletePlan
  <1>8. ASSUME NEW v \in VM, Completed(v) PROVE TypeOK'
    BY <1>8 DEF Completed
  <1>9. ASSUME NEW v \in VM, Enqueue(v) PROVE TypeOK'
    <2>1. requested[v] \in Key
      BY <1>9 DEF Enqueue, Plans, OwnPlans, KeysOf
    <2>2. Append(queue, requested[v]) \in Seq(Key)
      BY <2>1, AppendProperties
    <2> QED
      BY <1>9, <2>1, <2>2 DEF Enqueue
  <1>10. ASSUME NEW v \in VM, Discard(v) PROVE TypeOK'
    BY <1>10 DEF Discard
  <1>11. CASE UNCHANGED vars
    BY <1>11 DEF vars
  <1> QED
    BY <1>1, <1>2, <1>3, <1>4, <1>5, <1>6, <1>7, <1>8, <1>9, <1>10, <1>11
       DEF Next, CompilerThread, VMThread

-----------------------------------------------------------------------------
(* The threads that are awake and have no plan.                            *)
LEMMA AwakeFinite ==
    ASSUME TypeOK
    PROVE  IsFiniteSet(Awake) /\ Cardinality(Awake) \in Nat
  BY WorklistAssumption, FS_Subset, FS_CardinalityType DEF Awake

(* A step that changes neither the queue nor the threads.                  *)
LEMMA SameThreads ==
    ASSUME IInv, UNCHANGED <<queue, asleep, job>>
    PROVE  SleepersIdle' /\ NoIdleThread'
  BY DEF IInv, SleepersIdle, NoIdleThread, Awake

(* No thread sleeps over a plan.                                           *)
LEMMA NextIdle == IInv /\ [Next]_vars => SleepersIdle' /\ NoIdleThread'
  <1> SUFFICES ASSUME IInv, [Next]_vars PROVE SleepersIdle' /\ NoIdleThread'
    OBVIOUS
  <1>t. TypeOK /\ SleepersIdle /\ NoIdleThread /\ TypeOK'
    BY NextTypeOK DEF IInv
  <1>f. /\ IsFiniteSet(Awake) /\ Cardinality(Awake) \in Nat
        /\ IsFiniteSet(Awake') /\ Cardinality(Awake') \in Nat
    <2>1. IsFiniteSet(Awake) /\ Cardinality(Awake) \in Nat
      BY <1>t, AwakeFinite
    <2>2. Awake' \subseteq Thread
      BY DEF Awake
    <2> QED
      BY <2>1, <2>2, WorklistAssumption, FS_Subset, FS_CardinalityType
  <1>1. ASSUME NEW t \in Thread, Take(t) PROVE SleepersIdle' /\ NoIdleThread'
    <2>1. CASE queue = <<>>
      <3>1. SleepersIdle'
        BY <1>1, <1>t, <2>1 DEF Take, SleepersIdle
      <3>2. Len(queue') = 0
        BY <1>1, <2>1 DEF Take
      <3> QED
        BY <1>f, <3>1, <3>2 DEF NoIdleThread
    <2>2. CASE queue # <<>>
      <3>1. SleepersIdle'
        BY <1>1, <1>t, <2>2 DEF Take, SleepersIdle, TypeOK
      <3>2. Len(queue') = Len(queue) - 1 /\ Len(queue) \in Nat
        BY <1>1, <1>t, <2>2, HeadTailProperties, LenProperties DEF Take, TypeOK
      <3>3. Awake' = Awake \ {t} /\ t \in Awake
        <4>1. Head(queue) \in Key
          BY <1>t, <2>2, HeadTailProperties DEF TypeOK
        <4> QED
          BY <1>1, <1>t, <2>2, <4>1, WorklistAssumption DEF Take, Awake, TypeOK
      <3>4. Cardinality(Awake') = Cardinality(Awake) - 1
        BY <1>f, <3>3, FS_RemoveElement
      <3>5. asleep' = asleep
        BY <1>1, <2>2 DEF Take
      <3> QED
        BY <1>t, <1>f, <3>1, <3>2, <3>4, <3>5 DEF NoIdleThread
    <2> QED
      BY <2>1, <2>2
  <1>2. ASSUME NEW t \in Thread, Finish(t) PROVE SleepersIdle' /\ NoIdleThread'
    <2>1. SleepersIdle'
      BY <1>2, <1>t DEF Finish, SleepersIdle, TypeOK
    <2>2. Awake \subseteq Awake'
      BY <1>2, <1>t DEF Finish, Awake, TypeOK
    <2>3. Cardinality(Awake) <= Cardinality(Awake')
      BY <1>f, <2>2, FS_Subset
    <2>4. queue' = queue /\ asleep' = asleep /\ Len(queue) \in Nat
      BY <1>2, <1>t, LenProperties DEF Finish, TypeOK
    <2> QED
      BY <1>t, <1>f, <2>1, <2>3, <2>4 DEF NoIdleThread
  <1>3. ASSUME NEW v \in VM, Enqueue(v) PROVE SleepersIdle' /\ NoIdleThread'
    <2>1. CASE asleep = {}
      BY <1>3, <2>1 DEF Enqueue, SleepersIdle, NoIdleThread
    <2>2. CASE asleep # {}
      <3>1. PICK t \in asleep : asleep' = asleep \ {t}
        BY <1>3, <2>2 DEF Enqueue, Wakes
      <3>2. SleepersIdle'
        BY <1>3, <1>t, <3>1 DEF Enqueue, SleepersIdle
      <3>3. Awake' = Awake \cup {t} /\ t \notin Awake
        BY <1>3, <1>t, <3>1 DEF Enqueue, SleepersIdle, Awake, TypeOK
      <3>4. Cardinality(Awake') = Cardinality(Awake) + 1
        BY <1>f, <3>3, FS_AddElement
      <3>5. Len(queue') = Len(queue) + 1 /\ Len(queue) \in Nat
        <4>1. requested[v] \in Key /\ queue \in Seq(Key)
          BY <1>3 DEF Enqueue, IInv, Plans, OwnPlans, KeysOf, TypeOK
        <4> QED
          BY <1>3, <4>1, AppendProperties, LenProperties DEF Enqueue
      <3> QED
        BY <1>t, <1>f, <2>2, <3>2, <3>4, <3>5 DEF NoIdleThread
    <2> QED
      BY <2>1, <2>2
  <1>4. ASSUME NEW v \in VM,
               \/ Optimize(v) \/ StopVM(v) \/ WaitUntilAllPlansAreReady(v)
               \/ RemoveAllReadyPlans(v) \/ CompletePlan(v) \/ Completed(v) \/ Discard(v)
        PROVE  SleepersIdle' /\ NoIdleThread'
    <2>1. UNCHANGED <<queue, asleep, job>>
      BY <1>4 DEF Optimize, StopVM, WaitUntilAllPlansAreReady, RemoveAllReadyPlans,
                  CompletePlan, Completed, Discard, workVars
    <2> QED
      BY <2>1, SameThreads
  <1>5. CASE UNCHANGED vars
    BY <1>5, SameThreads DEF vars, workVars
  <1> QED
    BY <1>1, <1>2, <1>3, <1>4, <1>5 DEF Next, CompilerThread, VMThread

-----------------------------------------------------------------------------
(* The plans.  First the steps that change the queue, the threads or the   *)
(* ready list.                                                             *)
LEMMA TakePlans == ASSUME IInv, NEW t \in Thread, Take(t) PROVE Plans'
  <1> USE WorklistAssumption DEF IInv, TypeOK, callVars
  <1>1. CASE queue = <<>>
    BY <1>1 DEF Take, Plans, OnePlanPerKey, NoReplacementWhileCompiling,
                NoPlanOfStoppedVM, OwnPlans
  <1>2. CASE queue # <<>>
    <2>1. /\ Head(queue) = queue[1] /\ queue[1] \in Key
          /\ Len(queue) \in Nat /\ DOMAIN queue = 1..Len(queue) /\ 1 \in DOMAIN queue
          /\ Len(Tail(queue)) = Len(queue) - 1
          /\ \A i \in 1..Len(Tail(queue)) : Tail(queue)[i] = queue[i + 1]
      BY <1>2, HeadTailProperties, LenProperties
    <2>2. DOMAIN Tail(queue) = 1..Len(queue) - 1
      BY <1>2, <2>1
    <2>3. OnePlanPerKey'
      <3> USE DEF Plans, OnePlanPerKey, Take
      <3>1. \A i, j \in DOMAIN queue' : queue'[i] = queue'[j] => i = j
        BY <1>2, <2>1, <2>2, SMTT(30)
      <3>2. \A r, s \in Thread : job'[r] = job'[s] /\ job'[r] # NoKey => r = s
        BY <1>2, <2>1
      <3>3. \A i \in DOMAIN queue' : queue'[i] \in plans' \ ready'
        BY <1>2, <2>1, <2>2
      <3>4. \A s \in Thread : job'[s] # NoKey =>
                job'[s] \in plans' \ ready' /\ \A i \in DOMAIN queue' : queue'[i] # job'[s]
        <4>1. \A i \in DOMAIN queue' : i + 1 \in DOMAIN queue /\ queue'[i] = queue[i + 1]
          <5>1. queue' = Tail(queue)
            BY <1>2
          <5>2. \A i \in DOMAIN Tail(queue) :
                    i + 1 \in DOMAIN queue /\ Tail(queue)[i] = queue[i + 1]
            BY <2>1, <2>2
          <5> QED
            BY <5>1, <5>2, Zenon
        <4>2. \A i \in DOMAIN queue' : queue'[i] # queue[1]
          <5>1. \A i \in DOMAIN queue' : i + 1 # 1
            BY <1>2, <2>1, <2>2
          <5>2. \A i \in DOMAIN queue : i # 1 => queue[i] # queue[1]
            BY <2>1
          <5> HIDE DEF Plans, OnePlanPerKey, Take, TypeOK
          <5> TAKE i \in DOMAIN queue'
          <5>3. i + 1 \in DOMAIN queue /\ i + 1 # 1 /\ queue'[i] = queue[i + 1]
            BY <4>1, <5>1
          <5>4. queue[i + 1] # queue[1]
            BY <5>2, <5>3, Zenon
          <5> QED
            BY <5>3, <5>4, Zenon
        <4> TAKE s \in Thread
        <4>3. CASE s = t
          BY <1>2, <2>1, <4>2, <4>3
        <4>4. CASE s # t
          BY <1>2, <4>1, <4>4
        <4> QED
          BY <4>3, <4>4
      <3>5. ready' \subseteq plans'
        OBVIOUS
      <3>6. \A k \in plans' \ ready' :
                (\E i \in DOMAIN queue' : queue'[i] = k) \/ (\E s \in Thread : job'[s] = k)
        <4> TAKE k \in plans' \ ready'
        <4>1. CASE \E i \in DOMAIN queue : queue[i] = k
          <5>1. PICK i \in DOMAIN queue : queue[i] = k
            BY <4>1
          <5>2. CASE i = 1
            BY <1>2, <2>1, <5>1, <5>2
          <5>3. CASE i # 1
            <6>1. i - 1 \in DOMAIN Tail(queue) /\ Tail(queue)[i - 1] = k
              BY <2>1, <2>2, <5>1, <5>3
            <6> QED
              BY <1>2, <6>1
          <5> QED
            BY <5>2, <5>3
        <4>2. CASE \E s \in Thread : job[s] = k
          <5>1. PICK s \in Thread : job[s] = k
            BY <4>2
          <5>2. s # t
            BY <5>1
          <5> QED
            BY <1>2, <5>1, <5>2
        <4> QED
          BY <4>1, <4>2
      <3> QED
        BY <3>1, <3>2, <3>3, <3>4, <3>5, <3>6
    <2> QED
      BY <2>3 DEF Take, Plans, NoReplacementWhileCompiling, NoPlanOfStoppedVM, OwnPlans
  <1> QED
    BY <1>1, <1>2

LEMMA FinishPlans == ASSUME IInv, NEW t \in Thread, Finish(t) PROVE Plans'
  <1> USE WorklistAssumption DEF IInv, TypeOK, callVars
  <1>1. OnePlanPerKey'
    BY DEF Finish, Plans, OnePlanPerKey
  <1>2. NoReplacementWhileCompiling'
    BY DEF Finish, Plans, NoReplacementWhileCompiling
  <1>3. \A v \in VM : vmPc'[v] = vmPc[v] \/ (vmPc[v] = "asleep" /\ vmPc'[v] = "wait")
    BY DEF Finish, Woken
  <1>4. NoPlanOfStoppedVM'
    BY <1>3 DEF Finish, Plans, NoPlanOfStoppedVM
  <1>5. OwnPlans'
    BY <1>3 DEF Finish, Plans, OwnPlans, KeysOf
  <1> QED
    BY <1>1, <1>2, <1>4, <1>5 DEF Plans

LEMMA EnqueuePlans == ASSUME IInv, NEW v \in VM, Enqueue(v) PROVE Plans'
  <1> USE WorklistAssumption DEF IInv, TypeOK, callVars
  <1> DEFINE k == requested[v]
  <1>1. k \in KeysOf(v) \ (plans \cup replacement) /\ k \in Key /\ k # NoKey
    BY DEF Enqueue, Plans, OwnPlans, KeysOf
  <1>2. /\ Len(queue) \in Nat /\ DOMAIN queue = 1..Len(queue)
        /\ DOMAIN queue' = 1..Len(queue) + 1
        /\ queue'[Len(queue) + 1] = k
        /\ \A i \in 1..Len(queue) : queue'[i] = queue[i]
    BY <1>1, AppendProperties, LenProperties DEF Enqueue
  <1>3. /\ plans' = plans \cup {k} /\ ready' = ready /\ job' = job
        /\ mine' = mine /\ goal' = goal /\ requested' = requested
        /\ replacement' = replacement
        /\ vmPc' = [vmPc EXCEPT ![v] = "run"]
    BY DEF Enqueue
  <1> HIDE DEF k
  <1>4. OnePlanPerKey'
    <2> USE DEF Plans, OnePlanPerKey
    <2>1. \A i, j \in DOMAIN queue' : queue'[i] = queue'[j] => i = j
      BY <1>1, <1>2
    <2>2. \A r, s \in Thread : job'[r] = job'[s] /\ job'[r] # NoKey => r = s
      BY <1>3
    <2>3. \A i \in DOMAIN queue' : queue'[i] \in plans' \ ready'
      BY <1>1, <1>2, <1>3
    <2>4. \A s \in Thread : job'[s] # NoKey =>
              job'[s] \in plans' \ ready' /\ \A i \in DOMAIN queue' : queue'[i] # job'[s]
      BY <1>1, <1>2, <1>3
    <2>5. ready' \subseteq plans'
      BY <1>3
    <2>6. \A q \in plans' \ ready' :
              (\E i \in DOMAIN queue' : queue'[i] = q) \/ (\E s \in Thread : job'[s] = q)
      BY <1>1, <1>2, <1>3, SMTT(30)
    <2> QED
      BY <2>1, <2>2, <2>3, <2>4, <2>5, <2>6
  <1>5. NoReplacementWhileCompiling'
    BY <1>1, <1>3 DEF Plans, NoReplacementWhileCompiling
  <1>6. vmPc[v] = "enqueue" /\ \A x \in VM : x # v => k \notin KeysOf(x)
    BY <1>1 DEF Enqueue, KeysOf
  <1>7. NoPlanOfStoppedVM'
    BY <1>3, <1>6 DEF Plans, NoPlanOfStoppedVM
  <1>8. OwnPlans'
    BY <1>3, <1>6 DEF Plans, OwnPlans
  <1> QED
    BY <1>4, <1>5, <1>7, <1>8 DEF Plans

(* Then the steps of a VM on its own plans.                                *)
LEMMA RemovePlans == ASSUME IInv, NEW v \in VM, RemoveAllReadyPlans(v) PROVE Plans'
  <1> USE WorklistAssumption DEF IInv, TypeOK
  <1>1. /\ plans' = plans \ (ready \cap KeysOf(v))
        /\ ready' = ready \ (ready \cap KeysOf(v))
        /\ UNCHANGED <<queue, job, goal, requested, replacement>>
    BY DEF RemoveAllReadyPlans, Removed
  <1>2. OnePlanPerKey'
    BY <1>1 DEF Plans, OnePlanPerKey
  <1>3. NoReplacementWhileCompiling'
    BY <1>1 DEF Plans, NoReplacementWhileCompiling
  <1>4. \A x \in VM : x # v => vmPc'[x] = vmPc[x] /\ mine'[x] = mine[x]
    BY DEF RemoveAllReadyPlans
  <1>5. CASE goal[v] = "destroy"
    <2>1. vmPc[v] = "remove" /\ vmPc'[v] = "gone" /\ mine' = mine
      BY <1>5 DEF RemoveAllReadyPlans
    <2>2. plans' \cap KeysOf(v) = {}
      BY <1>1, <1>5, <2>1 DEF Plans, OwnPlans
    <2>3. NoPlanOfStoppedVM'
      BY <1>1, <1>4, <2>2 DEF Plans, NoPlanOfStoppedVM, KeysOf
    <2>4. OwnPlans'
      BY <1>1, <1>4, <2>1 DEF Plans, OwnPlans, KeysOf
    <2> QED
      BY <1>2, <1>3, <2>3, <2>4 DEF Plans
  <1>6. CASE goal[v] # "destroy"
    <2>1. /\ vmPc[v] = "remove" /\ vmPc'[v] = "complete"
          /\ mine'[v] = ready \cap KeysOf(v)
      BY <1>6 DEF RemoveAllReadyPlans, Removed
    <2>2. goal[v] # "optimize" => plans' \cap KeysOf(v) = {}
      BY <1>1, <2>1 DEF Plans, OwnPlans
    <2>3. NoPlanOfStoppedVM'
      BY <1>1, <1>4, <2>1 DEF Plans, NoPlanOfStoppedVM, KeysOf
    <2>4. OwnPlans'
      BY <1>1, <1>4, <1>6, <2>1, <2>2 DEF Plans, OwnPlans, KeysOf
    <2> QED
      BY <1>2, <1>3, <2>3, <2>4 DEF Plans
  <1> QED
    BY <1>5, <1>6

(* The steps that leave the worklist alone.                                *)
LEMMA SamePlans ==
    ASSUME OnePlanPerKey, UNCHANGED workVars PROVE OnePlanPerKey'
  BY DEF workVars, OnePlanPerKey

LEMMA OtherPlans ==
    ASSUME IInv, NEW v \in VM,
           \/ Optimize(v) \/ StopVM(v) \/ WaitUntilAllPlansAreReady(v)
           \/ CompletePlan(v) \/ Completed(v) \/ Discard(v)
    PROVE  Plans'
  <1> USE DEF IInv, TypeOK
  <1>0. OnePlanPerKey'
    <2>1. UNCHANGED workVars
      BY DEF Optimize, StopVM, WaitUntilAllPlansAreReady, CompletePlan, Completed, Discard
    <2> QED
      BY <2>1, SamePlans DEF Plans
  <1> SUFFICES NoReplacementWhileCompiling' /\ NoPlanOfStoppedVM' /\ OwnPlans'
    BY <1>0 DEF Plans
  <1> USE DEF Plans, NoReplacementWhileCompiling, NoPlanOfStoppedVM, OwnPlans,
              KeysOf, workVars, callVars
  <1>1. CASE Optimize(v)
    BY <1>1 DEF Optimize
  <1>2. CASE StopVM(v)
    BY <1>2 DEF StopVM
  <1>3. CASE WaitUntilAllPlansAreReady(v)
    <2>1. /\ UNCHANGED <<plans, ready, goal, requested, mine, replacement>>
          /\ vmPc[v] = "wait"
          /\ \A x \in VM : x # v => vmPc'[x] = vmPc[x]
          /\ vmPc'[v] \in {"remove", "asleep"}
          /\ vmPc'[v] = "remove" => plans \cap KeysOf(v) \subseteq ready
      BY <1>3 DEF WaitUntilAllPlansAreReady, AllAreCompiled
    <2>2. NoReplacementWhileCompiling' /\ NoPlanOfStoppedVM'
      BY <2>1
    <2>3. OwnPlans'
      BY <2>1
    <2> QED
      BY <2>2, <2>3
  <1>4. CASE CompletePlan(v)
    BY <1>4 DEF CompletePlan
  <1>5. CASE Completed(v)
    BY <1>5 DEF Completed, ShouldCompile, IsKnown
  <1>6. CASE Discard(v)
    BY <1>6 DEF Discard
  <1> QED
    BY <1>1, <1>2, <1>3, <1>4, <1>5, <1>6

LEMMA NextPlans == IInv /\ [Next]_vars => Plans'
  <1> SUFFICES ASSUME IInv, [Next]_vars PROVE Plans'
    OBVIOUS
  <1>1. CASE UNCHANGED vars
    BY <1>1 DEF vars, workVars, callVars, IInv, Plans, OnePlanPerKey,
                NoReplacementWhileCompiling, NoPlanOfStoppedVM, OwnPlans
  <1>2. ASSUME NEW t \in Thread, CompilerThread(t) PROVE Plans'
    BY <1>2, TakePlans, FinishPlans DEF CompilerThread
  <1>3. ASSUME NEW v \in VM, VMThread(v) \/ Optimize(v) \/ StopVM(v) \/ Discard(v)
        PROVE  Plans'
    BY <1>3, EnqueuePlans, RemovePlans, OtherPlans DEF VMThread
  <1> QED
    BY <1>1, <1>2, <1>3 DEF Next

-----------------------------------------------------------------------------
LEMMA Invariant == Spec => []IInv
  <1>1. IInv /\ [Next]_vars => IInv'
    BY NextTypeOK, NextIdle, NextPlans DEF IInv
  <1> QED
    BY <1>1, InitImpliesIInv, PTL DEF Spec

(* A code block is never compiled twice at once and no plan is lost, for   *)
(* any number of VMs and threads: the assertion in enqueue holds.          *)
THEOREM PlansNotLostOrDoubled == Spec => []OnePlanPerKey
  BY Invariant, PTL DEF IInv, Plans

(* One signal for each plan wakes up enough compiler threads, for any      *)
(* number of them.                                                         *)
THEOREM ThreadsNotIdle == Spec => []NoIdleThread
  BY Invariant, PTL DEF IInv

(* When prepareToDiscardCode or ~VM has waited and removed the ready       *)
(* plans, the compiler threads hold no plan of the VM.                     *)
THEOREM StoppedVMHasNoPlan == Spec => []NoPlanOfStoppedVM
  BY Invariant, PTL DEF IInv, Plans

(* The assertion of operationOptimize: no code block is being compiled     *)
(* while it has an optimized replacement.                                  *)
THEOREM NoReplacementInCompilation == Spec => []NoReplacementWhileCompiling
  BY Invariant, PTL DEF IInv, Plans
=============================================================================
