\* Three racing calls of GetToken and Login, under fairness; nothing fails.
CONSTANTS
    App = App  None = None
    Callers = {c1, c2, c3}
    Sessions = {s1}
    Pats = {}
    Ops <- RaceOps
    AccessLife = 2  RefreshLife = 3  MinValidFor = 1
    MaxTime = 0  MaxGen = 2  MaxFaults = 0
SPECIFICATION FairSpec
INVARIANT SuccessorOnItsWay
PROPERTY DeadRefreshReplaced
