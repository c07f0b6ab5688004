SPECIFICATION Spec
CONSTANTS
    u1 = u1  u2 = u2  u3 = u3
    s1 = s1  s2 = s2  t1 = t1  t2 = t2
    c1 = c1  c2 = c2  c3 = c3
    f1 = f1  f2 = f2  f3 = f3  f4 = f4
    None = None
    Users = {u1, u2, u3}
    Stations = {s1}
    Types = {t1}
    Chargers = {c1, c2}
    PoolOf <- OnePool
    Flows = {f1, f2, f3}
    MinStart = 1
    Amounts = {0}
    OpeningBalance = 1
    InitialChargers = {c1}
    MaxRecharged = 1
    MaxCommands = 1
    ManagedUsers = {}
    AdminStatuses = {"Faulty"}
    TariffLapses = FALSE
SYMMETRY AllAlike
INVARIANTS ChargerHeldByOne QueueIsExactlyTheQueued NoIdleWhileWaiting
PROPERTIES ImplementsLease
