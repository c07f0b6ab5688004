SPECIFICATION Spec
CONSTANTS
    u1 = u1  u2 = u2  u3 = u3
    s1 = s1  s2 = s2  t1 = t1  t2 = t2
    c1 = c1  c2 = c2  c3 = c3
    f1 = f1  f2 = f2  f3 = f3  f4 = f4
    None = None
    Users = {u1, u2}
    Stations = {s1}
    Types = {t1}
    Chargers = {c1}
    PoolOf <- OnePool
    Flows = {f1, f2, f3}
    MinStart = 1
    Amounts = {1, 3}
    OpeningBalance = 2
    InitialChargers = {c1}
    MaxRecharged = 4
    MaxCommands = 0
    ManagedUsers = {u1, u2}
    AdminStatuses = {}
    TariffLapses = TRUE
SYMMETRY UsersAndFlows
INVARIANTS OrderMatchesFlow MirrorExact MoneyConserved
