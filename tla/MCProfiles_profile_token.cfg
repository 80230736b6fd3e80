\* The default profile and one named "token", one call at a time.
CONSTANTS
    None = None
    Callers = {c1}
    Parts <- SomeParts
    Requested <- NestedProfiles
    Separators <- SomeSeparators
    HostKey = "host"  AppKey = "app"
SPECIFICATION Spec
INVARIANT SessionsKept
