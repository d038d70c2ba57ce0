SPECIFICATION FairSpec
CONSTANTS
    None = None
    Tasks = {t1}
    Addr = {a1}
    Indices = {i1}
    Offers = {{i1}}
    Workers = {w1}
    Objs = {o1}
    MaxSessionId = 1
    Requests = {r1}
    Syncs = {s1}
    Capacity = 1
    MaxRestarts = 0
    MaxFaults = 1
    MaxPending = 1
    Ops = {"interact", "cancel", "expire", "ends", "remove", "late"}
PROPERTIES
    CancellationCompletes
CHECK_DEADLOCK FALSE
