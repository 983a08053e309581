CONSTANTS
    u = u
    w = w
    UI = UI
    Web = Web
    NoConn = NoConn
    Conn = {u, w}
    Proc = {UI, Web}
    ProcOf <- MCProcOf
    Peer <- MCPeer
    OnlySend <- MCOnlySend
    ExitOnFail <- MCExitOnFail
    Budgets <- LiveBudget
SPECIFICATION FairSpec
INVARIANTS
    NoLostWakeup
PROPERTIES
    SyncReturns
    SecondaryReturns
    MessagesDispatched
CHECK_DEADLOCK FALSE
