SPECIFICATION FairSpec
CONSTANTS
    a = a  b = b  c1 = c1  c2 = c2  c3 = c3
    Conns = {c1}
    Sessions = {a}
    SessionOf <- OneThenOther
    Scopes <- ToAll
    Options <- MCOptions
    Rows = 2
    Hopeless <- SecondIsHopeless
    BatchLimit = 2
    MaxAttempts = 2
    Scenes <- FairScenes
PROPERTIES EventsAreDealtWith LocksAreReleased DeadSessionsAreClosed
CHECK_DEADLOCK FALSE
