\* Two calls of GetToken, Login or Logout, one fault anywhere.
CONSTANTS
    App = App  None = None
    Callers = {c1, c2}
    Sessions = {s1, s2}
    Pats = {}
    Ops <- RotationOps
    AccessLife = 2  RefreshLife = 3  MinValidFor = 1
    MaxTime = 0  MaxGen = 2  MaxFaults = 1
SPECIFICATION Spec
SYMMETRY Interchangeable
INVARIANT RotationInv
PROPERTY OnlyLiveRefreshStored
