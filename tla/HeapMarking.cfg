CONSTANTS
    r = r
    m = m
    a = a
    e = e
    c = c
    d = d
    w = w
    v = v
    o = o
    main = main
    g1 = g1
    g2 = g2
    Main = main
    Worker = {g1, g2}
    Cell = {r, m, a, e, c, d, w, v}
    Children <- Graph
    OpaqueRoot <- AddsRoot
    WeakRoot <- Handles
    Ephemeron <- Entries
    InitRoots <- TwoGroups
    MergeThreshold = 1
    Block <- EightBlocks
    InitStore <- NoStores
    NoBlock = 0
    Capacity = 2
    EvacuateLimit = 1
    Fragment = 1
    MaxCollections = 2
    MaxPins = 0
SPECIFICATION FairSpec
INVARIANTS
    QuietWhenDrained
    NoLostWakeup
PROPERTIES
    MarksLiveCells
    CollectionEnds
CHECK_DEADLOCK FALSE
