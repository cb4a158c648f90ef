SPECIFICATION ObsSpec
CONSTANTS
    Fd = {c1, c2}
    User = {u1}
    Token = {t1}
    Text = {m1}
    None = None
    ConnTimeout = 1
    Grace = 2
    MaxRead = 1
    MaxRx = 1
    MaxTx = 2
SYMMETRY Symmetry
CONSTRAINT NobodyHangsUp
CHECK_DEADLOCK FALSE
PROPERTIES RoomSpec GraceHonoured
