\* A GitHub App login after an OAuth login.
CONSTANTS
    App = App  None = None
    Callers = {c1}
    Sessions = {s1}
    Pats = {}
    Ops <- AllOps
    AccessLife = 2  RefreshLife = 3  MinValidFor = 1
    MaxTime = 0  MaxGen = 1  MaxFaults = 0
SPECIFICATION Spec
INVARIANT TokenFollowsAppLogin
