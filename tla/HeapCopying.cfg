CONSTANTS
    r = r
    m = m
    a = a
    e = e
    c = c
    d = d
    w = w
    v = v
    o = o
    main = main
    g1 = g1
    g2 = g2
    Main = main
    Worker = {g1, g2}
    Cell = {r, a, e, c, w, v}
    Children <- Chain
    OpaqueRoot <- AddsNone
    WeakRoot <- NoHandles
    Ephemeron <- NoEntries
    InitRoots <- ChainRoots
    MergeThreshold = 1
    Block <- EightBlocks
    InitStore <- FourBlocks
    NoBlock = 0
    Capacity = 2
    EvacuateLimit = 1
    Fragment = 2
    MaxCollections = 2
    MaxPins = 1
SPECIFICATION Spec
INVARIANTS
    TypeOK
    BlocksLentInPhase
    StoresSurvive
    EvacuatedBlocksGone
    NoLostWakeup
CHECK_DEADLOCK FALSE
