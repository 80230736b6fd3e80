\* One call at a time, every operation; at most one step fails or process dies.
CONSTANTS
    App = App  None = None
    Callers = {c1}
    Sessions = {s1, s2}
    Pats = {p1}
    Ops <- AllOps
    AccessLife = 2  RefreshLife = 3  MinValidFor = 1
    MaxTime = 4  MaxGen = 1  MaxFaults = 1
SYMMETRY Interchangeable
SPECIFICATION Spec
INVARIANTS TypeOK PatsApart LoggedOutStatus LogoutSticks TokenFollowsLogin StatusFollowsLogin LabelsReflectLogin ListingFollowsLogin
