SPECIFICATION Spec
CONSTANTS
    Text = {m1}
    Silence = 2
    MaxTx = 2
    MaxIn = 2
CHECK_DEADLOCK FALSE
PROPERTY ConfirmedGoesOn
