SPECIFICATION Spec
CONSTANTS
    Fd = {c1, c2}
    User = {u1}
    Token = {t1}
    Text = {m1}
    None = None
    ConnTimeout = 1
    Grace = 1
    MaxRead = 1
    MaxRx = 1
    MaxTx = 1
CHECK_DEADLOCK FALSE
INVARIANT OnlyAdminEndsRoom
