CONSTANTS
    d1 = d1
    d2 = d2
    r1 = r1
    w1 = w1
    r2 = r2
    NoDb = NoDb
    NoTxn = NoTxn
    Db = {d1, d2}
    Txn = {r1, r2, w1}
    DbOf <- MCDbOf
    ReadOnly = {r1, r2}
    HasCallback = {w1}
    HasErrorCallback = {w1}
    QuotaAnswers = {TRUE}
    MaxStatements = 1
    Deletable = {}
SPECIFICATION Spec
INVARIANT ShutdownIsOrderly
CHECK_DEADLOCK FALSE
