SPECIFICATION FairSpec
CONSTANTS
    Header = 2
    Sizes = {2, 5}
    ServerRead = 3
    ClientRead = 5
    ShortWrites = TRUE
    MaxSent = 3
CHECK_DEADLOCK FALSE
INVARIANTS TypeOK RetriesMatch NoneLeftBehind
PROPERTIES PipeSpec OneBehind AllArrive
