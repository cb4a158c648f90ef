SPECIFICATION Spec
CONSTANTS
    Fd = {c1, c2}
    User = {u1, u2}
    Token = {t1}
    Text = {m1}
    None = None
    ConnTimeout = 1
    Grace = 1
    MaxRead = 1
    MaxRx = 1
    MaxTx = 1
SYMMETRY Symmetry
CHECK_DEADLOCK FALSE
INVARIANTS TypeOK SessionLink StateMatchesLink SessionsAreAccounts NoLostWakeup
PROPERTY LostOnlyToLogin
