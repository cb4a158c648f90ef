SPECIFICATION LoopSpec
CONSTANTS
    Text = {m1}
    Silence = 2
    MaxTx = 2
    MaxIn = 2
CHECK_DEADLOCK FALSE
INVARIANTS TypeOK NoLostWakeup NeverIgnored NothingCarriedOver
PROPERTIES DoneEnds SilenceNoticed
