SPECIFICATION LoopSpec
CONSTANTS
    Fd = {c1}
    User = {u1, u2}
    Token = {t1}
    Text = {m1}
    None = None
    ConnTimeout = 2
    Grace = 2
    MaxRead = 1
    MaxRx = 1
    MaxTx = 2
CHECK_DEADLOCK FALSE
PROPERTY HungUpRemoved SessionSettles ClosingRemoved
