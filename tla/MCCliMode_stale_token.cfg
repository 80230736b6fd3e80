\* GetToken after an expiring token has expired.
CONSTANTS
    App = App  None = None
    Callers = {c1}
    Sessions = {s1}
    Pats = {}
    Ops <- RaceOps
    AccessLife = 2  RefreshLife = 3  MinValidFor = 1
    MaxTime = 3  MaxGen = 1  MaxFaults = 0
SPECIFICATION BriskSpec
PROPERTY ReturnsValidToken
