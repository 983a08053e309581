CONSTANTS
    uw = uw
    wu = wu
    wp = wp
    pw = pw
    UI = UI
    Web = Web
    Plugin = Plugin
    NoConn = NoConn
    Conn = {uw, wu, wp, pw}
    Proc = {UI, Web, Plugin}
    ProcOf <- MCProcOf
    Peer <- MCPeer
    OnlySend <- MCOnlySend
    ExitOnFail <- MCExitOnFail
    Budgets <- SharedBudget
SPECIFICATION Spec
INVARIANTS
    NoLostWakeup
    NoStrandedMessage
    UnmarkedNeverOvertakes
CHECK_DEADLOCK FALSE
