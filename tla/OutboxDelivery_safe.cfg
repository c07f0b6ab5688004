SPECIFICATION Spec
CONSTANTS
    a = a  b = b  c1 = c1  c2 = c2  c3 = c3
    Conns = {c1, c2, c3}
    Sessions = {a, b}
    SessionOf <- OneThenOther
    Scopes <- ToAll
    Options <- MCOptions
    Rows = 3
    Hopeless <- SecondIsHopeless
    BatchLimit = 2
    MaxAttempts = 2
    Scenes <- MCScenes
INVARIANTS NoOrphans ClosedWithCause MarksAreTrue
PROPERTIES StreamIsSound ImplementsAtLeastOnce
CHECK_DEADLOCK FALSE
