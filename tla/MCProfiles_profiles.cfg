\* Two calls in three profiles.
CONSTANTS
    None = None
    Callers = {c1, c2}
    Parts <- SomeParts
    Requested <- PlainProfiles
    Separators <- SomeSeparators
    HostKey = "host"  AppKey = "app"
SPECIFICATION Spec
SYMMETRY Interchangeable
INVARIANTS TypeOK SessionsKeptApart LogoutClears
