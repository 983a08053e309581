CONSTANTS
    u = u
    w = w
    UI = UI
    Web = Web
    NoConn = NoConn
    Conn = {u, w}
    Proc = {UI, Web}
    ProcOf <- MCProcOf
    Peer <- MCPeer
    OnlySend <- MCOnlySend
    ExitOnFail <- MCExitOnFail
    Budgets <- HangBudget
SPECIFICATION FairSpec
PROPERTY SecondaryReturns
CHECK_DEADLOCK FALSE
