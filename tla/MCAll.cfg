SPECIFICATION Spec
CONSTANTS
    None = None
    Tasks = {t1}
    Addr = {a1}
    Indices = {i1}
    Offers = {{i1}}
    Workers = {w1}
    Objs = {o1}
    MaxSessionId = 1
    Requests = {r1}
    Syncs = {s1}
    Capacity = 1
    MaxRestarts = 1
    MaxFaults = 0
    MaxPending = 1
    Ops = {"cancel", "cancel_all", "ends", "remove", "sync"}
SYMMETRY SymmetricPools
INVARIANTS
    CurrentCountsSessions
CHECK_DEADLOCK FALSE
