SPECIFICATION FairSpec
CONSTANTS
    s1 = s1  s2 = s2  m1 = m1  o1 = o1  o2 = o2  o3 = o3  None = None
    MaxFailures = 1
    MaxCrashes = 1
    LastTask = 2
    Starters = {s1, s2}
    Sweepers = {m1}
    LastBackup = 3
    LastDay = 3
    DaysInWeek = 2
    DaysKept = 1
    WeeksKept = 2
    Owners = {o1, o2, o3}
    Scenes <- MCScenes
INVARIANTS FilesBehindRows PruningKeepsTheNewest
PROPERTIES TasksEnd
CHECK_DEADLOCK FALSE
