SPECIFICATION FairSpec
CONSTANTS
    Period = 5
    Timeout = 10
    Delay = 2
CHECK_DEADLOCK FALSE
INVARIANTS TypeOK NoFalseAlarm NoticedInTime
PROPERTIES PartTogether
