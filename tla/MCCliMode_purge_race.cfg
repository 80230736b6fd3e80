\* A purge beside a login; no time passes during a call.
CONSTANTS
    App = App  None = None
    Callers = {c1, c2}
    Sessions = {s1, s2}
    Pats = {}
    Ops <- PurgeOps
    AccessLife = 1  RefreshLife = 3  MinValidFor = 0
    MaxTime = 2  MaxGen = 1  MaxFaults = 0
SPECIFICATION BriskSpec
PROPERTY PurgesOnlyExpired
