CONSTANTS
    v1 = v1
    v2 = v2
    k1 = k1
    k2 = k2
    k3 = k3
    t1 = t1
    t2 = t2
    Thread = {t1, t2}
    VM = {v1, v2}
    Key = {k1, k2, k3}
    VMOf <- MCVMOf
    NoKey = NoKey
    MaxPlans = 4
SPECIFICATION FairSpec
INVARIANTS
    OnePlanPerKey
    NoIdleThread
    NoPlanOfStoppedVM
    NoReplacementWhileCompiling
PROPERTY WaitReturns
CHECK_DEADLOCK FALSE
