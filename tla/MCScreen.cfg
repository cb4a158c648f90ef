SPECIFICATION ScreenSpec
CONSTANTS
    Users <- MCUsers
    Hash <- MCHash
    Palette = 2
    Terminals = {4, 5, 6, 64}
    Clients = {c1, c2}
    Viewer = c1
    Letters <- MCLetters
    Names <- MCNames
    Passwords <- MCPasswords
    Texts <- MCTexts
    MaxSaid = 2
CHECK_DEADLOCK FALSE
INVARIANTS TypeOK SharedOnlyWhenFull PayloadsTyped ShownAsSaid LoginAsRegistered
PROPERTIES ColourKept
