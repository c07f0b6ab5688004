SPECIFICATION Spec
CONSTANTS
    w1 = w1  w2 = w2  e1 = e1  k1 = k1  k2 = k2
    r1 = r1  r2 = r2  r3 = r3  r4 = r4  None = None
    Workers = {w1, w2}
    QueueCapacity = 1
    Requests = {r1, r2, r3, r4}
    Revoking <- OnlyFirst
    Entries = {e1}
    Calls = {r2, r3, r4}
    Keys = {k1, k2}
    Bodies = {1, 2}
    Asked <- MCAsked
    Permanent = {k2}
    Capacity = 1
    MaxFailures = 1
    MaxCrashes = 1
    MaxStalls = 1
    Scenes <- MCScenes
INVARIANTS AnsweredOnce NothingLeftBehind NoWakeUpLost EntriesRunAlone LateResultsCanBeAsked
PROPERTIES ImplementsOncePerKey
CHECK_DEADLOCK FALSE
